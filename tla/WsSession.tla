------------------------------ MODULE WsSession ------------------------------
(***************************************************************************)
(* lepton::net::WsSession<Transport> on a busy-polling EventLoop           *)
(* (include/lepton/net/ws_session.h, detail/ws_session_impl.h).            *)
(*                                                                         *)
(* One thread runs everything, so handlers do not interleave; what can go  *)
(* wrong is re-entrancy. A handler calls on_state or on_message, and those *)
(* may call connect(), send() or close() before the handler goes on. The   *)
(* call stack is therefore a variable: stk is the sequence of what is left *)
(* to run, first element first. A handler is the steps from an entry with  *)
(* an empty stack (an API call, on_ready) back to an empty stack; nothing  *)
(* else happens in between.                                                *)
(***************************************************************************)
EXTENDS Naturals, Sequences, FiniteSets

CONSTANTS
  MaxPending,     \* kMaxPending, slots of the ring of outbound frames
  DelayInitial,   \* kReconnectInitialNs and
  DelayMax,       \* kReconnectMaxNs, in seconds
  MaxNest,        \* most callbacks active at once
  Setups          \* the sessions considered; see setup

Ops == {"connect", "send", "close"}
PeerKinds == {"msg", "first", "cont", "last", "ping", "pong", "close", "bad"}

ASSUME WsConstants ==
  /\ MaxPending \in Nat /\ MaxPending >= 2 /\ MaxNest \in Nat
  /\ DelayInitial \in Nat \ {0} /\ DelayMax \in Nat /\ DelayInitial <= DelayMax
  /\ Setups \subseteq [tls : BOOLEAN, timeout : BOOLEAN, keepAlive : BOOLEAN,
                       frames : SUBSET PeerKinds, read : Nat, closes : BOOLEAN,
                       calls : SUBSET Ops]

VARIABLES
  setup,      \* what this session is, chosen once: its transport (tls), whether
              \* connect_timeout_ns_ is set (timeout), and ping_interval_ns_ and
              \* pong_timeout_ns_ (keepAlive), what the peer may send (frames, at
              \* most read of them at a time), whether it may close or reset the
              \* connection (closes), and what callbacks may call (calls)
  state,      \* state_
  transport,  \* the Stream: "closed", "opening" or "open"
  recv,       \* what recv_ holds: frames, then perhaps the start of one that
              \* leaves room ("part") or none ("full"); "junk" if len_ wrapped
  hasRecv,    \* recv_ and
  frag,       \* frag_ hold a pool buffer
  pending,    \* the frames in the pending_ ring, in order
  owned,      \* history: pool buffers acquired and not yet released
  first,      \* history: what the first bytes on this connection belong to
  registered, \* registered_
  autoReconnect,
  delay,      \* reconnect_delay_ns_
  awaiting,   \* awaiting_pong_
  timer,      \* the four deadlines, each "off", "armed" or "due"
  stk         \* what is left of the running handler

vars == <<setup, state, transport, recv, hasRecv, frag, pending, owned, first, registered,
          autoReconnect, delay, awaiting, timer, stk>>

KeepAlive   == setup.keepAlive
PeerFrames  == setup.frames
PeerCloses  == setup.closes
CallbackOps == setup.calls

Down == {"Disconnected", "Failed"}

\* A callback that has been entered, and one that has made a call or more.
Callbacks == {"on_state", "on_message", "on_fragments"}
Called == [on_state     |-> "on_state_called",
           on_message   |-> "on_message_called",
           on_fragments |-> "on_fragments_called"]

Holdings == (IF hasRecv THEN 1 ELSE 0) + (IF frag THEN 1 ELSE 0) + Len(pending)

Init ==
  /\ setup \in Setups
  /\ state = "Disconnected" /\ transport = "closed"
  /\ recv = <<>> /\ hasRecv = FALSE /\ frag = FALSE /\ pending = <<>>
  /\ owned = 0 /\ first = "none"
  /\ registered = FALSE /\ autoReconnect \in BOOLEAN /\ delay = 0 /\ awaiting = FALSE
  /\ timer = [connect |-> "off", ping |-> "due", pong |-> "due", reconnect |-> "due"]
  /\ stk = <<>>

-----------------------------------------------------------------------------
(* Helpers of the handlers; rest is what runs when they have returned *)

\* Mutant: a deadline without delay is no deadline.
Deadline_Off(d) == IF d = 0 THEN "off" ELSE "armed"

Deadline(d) == IF d = 0 THEN "due" ELSE "armed"

SetState(s, rest) ==
  /\ state' = s
  /\ stk' = IF s = state THEN rest ELSE <<"on_state">> \o rest

\* Used after the conjuncts that give delay' and autoReconnect'.
Teardown(s, rest) ==
  /\ transport' = "closed"
  /\ pending' = <<>>
  /\ frag' = FALSE
  /\ owned' = owned - Len(pending) - (IF frag THEN 1 ELSE 0)
  /\ timer' = IF autoReconnect' THEN [timer EXCEPT !.reconnect = Deadline(delay')] ELSE timer
  /\ SetState(s, rest)

\* Acquire, mask, encode, push and flush. A frame that finds no buffer, does
\* not fit one or finds the ring full is dropped.
EnqueueFrame(kind, rest) ==
  /\ \/ stk' = rest /\ UNCHANGED <<pending, owned>>
     \/ /\ Len(pending) < MaxPending
        /\ pending' = Append(pending, kind)
        /\ owned' = owned + 1
        /\ stk' = <<"flush">> \o rest
  /\ UNCHANGED <<state, transport, recv, hasRecv, frag, first, registered, delay,
                 awaiting, timer>>

\* Mutant: failing without a buffer forgets the state.
StartConnect_Silent(rest) ==
  /\ pending' = <<>> /\ frag' = FALSE /\ recv' = <<>>
  /\ \/ /\ hasRecv' = FALSE /\ owned' = owned - Holdings /\ stk' = rest
        /\ UNCHANGED <<state, transport, timer, first>>
     \/ /\ hasRecv' = TRUE /\ owned' = owned - Holdings + 1
        /\ transport' = "opening" /\ first' = "none"
        /\ SetState("Connecting", <<"register">> \o rest)
        /\ UNCHANGED timer
  /\ UNCHANGED <<registered, awaiting>>

\* Mutant: the ring is not drained before the new connection.
StartConnect_NoDrain(rest) ==
  /\ frag' = FALSE /\ recv' = <<>> /\ hasRecv' = TRUE
  /\ owned' = Len(pending) + 1
  /\ transport' = "opening" /\ first' = "none"
  /\ SetState("Connecting", <<"register">> \o rest)
  /\ UNCHANGED <<pending, timer, registered, awaiting>>

\* Old buffers go back before a new receive buffer is asked for. Without one
\* the state is Failed, and neither the transport nor a deadline is touched.
StartConnect(rest) ==
  LET noConn   == [timer EXCEPT !.connect = IF setup.timeout THEN "armed" ELSE "off"]
      released == owned - Holdings
  IN  /\ pending' = <<>> /\ frag' = FALSE
      /\ \/ /\ recv' = <<>> /\ hasRecv' = FALSE /\ owned' = released
            /\ SetState("Failed", rest)
            /\ UNCHANGED <<transport, timer, first>>
         \/ /\ recv' = <<>> /\ hasRecv' = TRUE /\ owned' = released + 1
            /\ \/ /\ transport' = "closed"
                  /\ timer' = IF autoReconnect' THEN [noConn EXCEPT !.reconnect = Deadline(delay')]
                              ELSE noConn
                  /\ SetState("Failed", rest)
                  /\ UNCHANGED first
               \/ /\ transport' = "opening"
                  /\ first' = "none"
                  /\ timer' = noConn
                  /\ SetState("Connecting", <<"register">> \o rest)
      /\ UNCHANGED <<registered, awaiting>>

-----------------------------------------------------------------------------
(* The API, called from the step hook (empty stack) or from a callback *)

Connect(rest) ==
  /\ UNCHANGED <<autoReconnect, delay>>
  /\ StartConnect(rest)

Send(rest) ==
  /\ UNCHANGED autoReconnect
  /\ \/ state = "Open" /\ EnqueueFrame("data", rest)
     \/ /\ state # "Open" /\ stk' = rest
        /\ UNCHANGED <<state, transport, recv, hasRecv, frag, pending, owned, first,
                       registered, delay, awaiting, timer>>

Close(rest) ==
  /\ autoReconnect' = FALSE
  /\ \/ state = "Open" /\ EnqueueFrame("close", <<"closing">> \o rest)
     \/ /\ state # "Open"
        /\ UNCHANGED delay
        /\ Teardown("Disconnected", rest)
        /\ UNCHANGED <<recv, hasRecv, first, registered, awaiting>>

Call(op, rest) ==
  \/ op = "connect" /\ Connect(rest)
  \/ op = "send"    /\ Send(rest)
  \/ op = "close"   /\ Close(rest)

\* The loop thread is between two handlers and the session exists.
Idle == stk = <<>> /\ state # "Destroyed"

Api == Idle /\ UNCHANGED setup /\ \E op \in Ops : Call(op, <<>>)

SetAutoReconnect(on) ==
  /\ Idle
  /\ autoReconnect' = on
  /\ UNCHANGED <<setup, state, transport, recv, hasRecv, frag, pending, owned, first,
                 registered, delay, awaiting, timer, stk>>

\* The destructor; ~Transport closes the connection.
Destroy ==
  /\ Idle
  /\ state' = "Destroyed" /\ transport' = "closed" /\ registered' = FALSE
  /\ recv' = <<>> /\ hasRecv' = FALSE /\ frag' = FALSE /\ pending' = <<>>
  /\ owned' = owned - Holdings
  /\ UNCHANGED <<setup, first, autoReconnect, delay, awaiting, timer, stk>>

\* "closing": the rest of close() once the Close frame is queued or dropped.
Closing ==
  /\ Head(stk) = "closing"
  /\ SetState("Closing", Tail(stk))
  /\ UNCHANGED <<transport, recv, hasRecv, frag, pending, owned, first, registered,
                 autoReconnect, delay, awaiting, timer>>

\* "register": the rest of start_connect() after set_state(Connecting).
Register ==
  /\ Head(stk) = "register"
  /\ registered' = TRUE
  /\ stk' = Tail(stk)
  /\ UNCHANGED <<state, transport, recv, hasRecv, frag, pending, owned, first,
                 autoReconnect, delay, awaiting, timer>>

-----------------------------------------------------------------------------
(* on_ready() and what it calls *)

TimedOut == state \in {"Connecting", "Upgrading"} /\ timer.connect = "due"

\* check_timeouts(), which the application may also call on its own (then
\* rest is empty).
CheckTimeouts(rest) ==
  /\ UNCHANGED <<autoReconnect, delay, recv, hasRecv, first, registered, awaiting>>
  /\ \/ TimedOut /\ Teardown("Failed", rest)
     \/ ~TimedOut /\ stk' = rest /\ UNCHANGED <<state, transport, pending, frag, owned, timer>>

OnReady == Idle /\ registered /\ UNCHANGED setup /\ CheckTimeouts(<<"ready">>)

PollTimeouts == Idle /\ UNCHANGED setup /\ CheckTimeouts(<<>>)

\* "ready": on_ready() after check_timeouts(), by state.
NextDelay == IF delay = 0 THEN DelayInitial
             ELSE IF delay * 2 > DelayMax THEN DelayMax ELSE delay * 2

MaybeReconnect ==
  /\ Head(stk) = "ready" /\ state \in Down
  /\ UNCHANGED autoReconnect
  /\ IF autoReconnect /\ timer.reconnect = "due"
     THEN delay' = NextDelay /\ StartConnect(Tail(stk))
     ELSE /\ stk' = Tail(stk)
          /\ UNCHANGED <<state, transport, recv, hasRecv, frag, pending, owned, first,
                         registered, delay, awaiting, timer>>

PollOpen ==
  /\ Head(stk) = "ready" /\ state = "Connecting"
  /\ UNCHANGED <<autoReconnect, delay, recv, hasRecv, first, registered, awaiting>>
  /\ \/ /\ transport = "opening"
        /\ stk' = Tail(stk)
        /\ UNCHANGED <<state, transport, pending, frag, owned, timer>>
     \/ /\ transport # "closed"
        /\ transport' = "open"
        /\ SetState("Upgrading", <<"upgrade">> \o Tail(stk))
        /\ UNCHANGED <<pending, frag, owned, timer>>
     \/ Teardown("Failed", Tail(stk))

ReadyIo ==
  /\ Head(stk) = "ready" /\ state \notin Down \cup {"Connecting"}
  /\ stk' = <<"flush", "read">> \o Tail(stk)
  /\ UNCHANGED <<state, transport, recv, hasRecv, frag, pending, owned, first, registered,
                 autoReconnect, delay, awaiting, timer>>

\* "upgrade": the rest of send_upgrade_request() after set_state(Upgrading),
\* whatever its callback did. The request is lost, buffer and all, if it finds
\* the ring full.
UpgradeRequest ==
  /\ Head(stk) = "upgrade"
  /\ recv' = <<>>
  /\ UNCHANGED <<autoReconnect, delay, hasRecv, first, registered, awaiting>>
  /\ \/ Teardown("Failed", Tail(stk))     \* no buffer, or too small for it
     \/ /\ owned' = owned + 1
        /\ pending' = IF Len(pending) < MaxPending THEN Append(pending, "upgrade") ELSE pending
        /\ stk' = <<"flush">> \o Tail(stk)
        /\ UNCHANGED <<state, transport, frag, timer>>

\* Whether read and write reach a connection. The kernel may have completed
\* the connect of a TcpSocket that nobody has polled since.
Reachable == transport = "open" \/ (transport = "opening" /\ ~setup.tls)

IoFails   == (Reachable /\ PeerCloses) \/ (transport = "closed" /\ ~setup.tls)
IoBlocks  == transport # "closed" \/ setup.tls

\* "flush": one round of flush_pending()'s loop.
FlushDone ==
  /\ Head(stk) = "flush"
  /\ pending = <<>> \/ IoBlocks
  /\ stk' = Tail(stk)
  /\ UNCHANGED <<state, transport, recv, hasRecv, frag, pending, owned, first, registered,
                 autoReconnect, delay, awaiting, timer>>

FlushError ==
  /\ Head(stk) = "flush" /\ pending # <<>> /\ IoFails
  /\ UNCHANGED <<autoReconnect, delay, recv, hasRecv, first, registered, awaiting>>
  /\ Teardown("Failed", Tail(stk))

FirstBytes == first' = IF first # "none" THEN first
                       ELSE IF Head(pending) = "upgrade" THEN "upgrade" ELSE "frame"

FlushPart ==
  /\ Head(stk) = "flush" /\ pending # <<>> /\ Reachable
  /\ FirstBytes
  /\ stk' = Tail(stk)
  /\ UNCHANGED <<state, transport, recv, hasRecv, frag, pending, owned, registered,
                 autoReconnect, delay, awaiting, timer>>

FlushAll ==
  /\ Head(stk) = "flush" /\ pending # <<>> /\ Reachable
  /\ FirstBytes
  /\ UNCHANGED <<autoReconnect, delay, recv, hasRecv, registered, awaiting>>
  /\ IF state = "Closing" /\ Len(pending) = 1
     THEN Teardown("Disconnected", Tail(stk))
     ELSE /\ pending' = Tail(pending)
          /\ owned' = owned - 1
          /\ UNCHANGED <<state, transport, frag, timer, stk>>

Flush == FlushDone \/ FlushError \/ FlushPart \/ FlushAll

-----------------------------------------------------------------------------
(* "read": the read half of on_ready() *)

\* Frames that one read adds, the last one perhaps incomplete.
Chunks == LET whole == UNION {[1 .. n -> PeerFrames] : n \in 0 .. setup.read}
          IN  whole \cup {Append(c, p) : c \in whole, p \in {"part", "full"}}

\* recv_.spare() is empty.
Full == ~hasRecv \/ (recv # <<>> /\ recv[Len(recv)] = "full")

\* What read() does with the session when it returns no bytes.
ReadNothing(then) ==
  \/ /\ Full \/ IoFails
     /\ Teardown("Failed", then)
  \/ /\ ~Full /\ Reachable /\ PeerCloses      \* end of file
     /\ Teardown(IF state = "Upgrading" THEN "Failed" ELSE "Disconnected", then)
  \/ /\ ~Full /\ IoBlocks
     /\ stk' = then
     /\ UNCHANGED <<state, transport, frag, pending, owned, timer>>

SkipRead ==
  /\ Head(stk) = "read" /\ state \notin {"Upgrading", "Open", "Closing"}
  /\ stk' = Tail(stk)
  /\ UNCHANGED <<state, transport, recv, hasRecv, frag, pending, owned, first, registered,
                 autoReconnect, delay, awaiting, timer>>

UpgradeReadNothing ==
  /\ Head(stk) = "read" /\ state = "Upgrading"
  /\ UNCHANGED <<recv, hasRecv, first, registered, autoReconnect, delay, awaiting>>
  /\ ReadNothing(Tail(stk))

\* Bytes of the response: still incomplete, refused, or accepted, and then
\* perhaps with frames behind the headers.
UpgradeRead ==
  /\ Head(stk) = "read" /\ state = "Upgrading" /\ transport = "open" /\ ~Full
  /\ UNCHANGED <<hasRecv, first, registered, autoReconnect, awaiting>>
  /\ \/ /\ recv' \in {<<"part">>, <<"full">>}
        /\ stk' = Tail(stk)
        /\ UNCHANGED <<state, transport, frag, pending, owned, delay, timer>>
     \/ /\ recv' = <<"part">>
        /\ UNCHANGED delay
        /\ Teardown("Failed", Tail(stk))
     \/ /\ first # "none"        \* nobody answers before hearing anything
        /\ recv' \in Chunks
        /\ delay' = 0
        /\ SetState("Open", <<"opened">> \o Tail(stk))
        /\ UNCHANGED <<transport, frag, pending, owned, timer>>

\* "opened": the rest of drive_upgrade_read() after set_state(Open).
Opened ==
  /\ Head(stk) = "opened"
  /\ awaiting' = FALSE
  /\ timer' = [timer EXCEPT !.ping = IF KeepAlive THEN "armed" ELSE @]
  /\ stk' = IF recv # <<>> THEN <<"parse">> \o Tail(stk) ELSE Tail(stk)
  /\ UNCHANGED <<state, transport, recv, hasRecv, frag, pending, owned, first, registered,
                 autoReconnect, delay>>

FrameReadNothing ==
  /\ Head(stk) = "read" /\ state \in {"Open", "Closing"}
  /\ UNCHANGED <<recv, hasRecv, first, registered, autoReconnect, delay, awaiting>>
  /\ ReadNothing(<<"keepalive">> \o Tail(stk))

FrameRead ==
  /\ Head(stk) = "read" /\ state \in {"Open", "Closing"} /\ transport = "open" /\ ~Full
  /\ recv' \in Chunks \ {<<>>}      \* an earlier "part" is now complete
  /\ stk' = <<"parse", "keepalive">> \o Tail(stk)
  /\ UNCHANGED <<state, transport, hasRecv, frag, pending, owned, first, registered,
                 autoReconnect, delay, awaiting, timer>>

Read == SkipRead \/ UpgradeReadNothing \/ UpgradeRead \/ FrameReadNothing \/ FrameRead

-----------------------------------------------------------------------------
(* "parse": one round of parse_frames()'s loop *)

Parsing(kind) == Head(stk) = "parse" /\ recv # <<>> /\ Head(recv) = kind

\* What is left to run while dispatch_frame() handles the frame.
Dispatched == <<"consume", "parse">> \o Tail(stk)

NoFrame == recv \in {<<>>, <<"part">>, <<"full">>}

ParseEnd ==
  /\ Head(stk) = "parse" /\ NoFrame
  /\ stk' = Tail(stk)
  /\ UNCHANGED <<state, transport, recv, hasRecv, frag, pending, owned, first, registered,
                 autoReconnect, delay, awaiting, timer>>

ParseBad ==
  /\ Parsing("bad")
  /\ UNCHANGED <<recv, hasRecv, first, registered, autoReconnect, delay, awaiting>>
  /\ Teardown("Failed", Tail(stk))

\* A wrapped length lets the loop run over whatever the memory holds.
ParseJunk ==
  /\ Parsing("junk")
  /\ recv' \in Chunks
  /\ UNCHANGED <<state, transport, hasRecv, frag, pending, owned, first, registered,
                 autoReconnect, delay, awaiting, timer, stk>>

DispatchMessage ==
  /\ Parsing("msg")
  /\ stk' = <<"on_message">> \o Dispatched
  /\ UNCHANGED <<state, transport, recv, hasRecv, frag, pending, owned, first, registered,
                 autoReconnect, delay, awaiting, timer>>

\* A first fragment takes frag_ or a new buffer; without one, or if the
\* fragment does not fit, the connection fails.
BeginFragment ==
  /\ Parsing("first")
  /\ UNCHANGED <<recv, hasRecv, first, registered, autoReconnect, delay, awaiting>>
  /\ \/ Teardown("Failed", Dispatched)
     \/ /\ frag' = TRUE
        /\ owned' = IF frag THEN owned ELSE owned + 1
        /\ stk' = Dispatched
        /\ UNCHANGED <<state, transport, pending, timer>>

\* Mutant: the buffer is released before its bytes are delivered.
AppendFragment_ReleaseFirst(fin) ==
  /\ Parsing(IF fin THEN "last" ELSE "cont")
  /\ frag' = (frag /\ ~fin)
  /\ owned' = owned - (IF frag /\ fin THEN 1 ELSE 0)
  /\ stk' = IF frag /\ fin THEN <<"on_fragments">> \o Dispatched ELSE Dispatched
  /\ UNCHANGED <<state, transport, recv, hasRecv, pending, first, registered,
                 autoReconnect, delay, awaiting, timer>>

\* A continuation that continues nothing is ignored.
AppendFragment(fin) ==
  /\ Parsing(IF fin THEN "last" ELSE "cont")
  /\ UNCHANGED <<recv, hasRecv, first, registered, autoReconnect, delay, awaiting>>
  /\ \/ frag /\ Teardown("Failed", Dispatched)
     \/ /\ stk' = IF frag /\ fin THEN <<"on_fragments", "frag_done">> \o Dispatched
                  ELSE Dispatched
        /\ UNCHANGED <<state, transport, frag, pending, owned, timer>>

\* Mutant: the buffer is released again if the callback has led to a teardown.
FragDone_Twice ==
  /\ Head(stk) = "frag_done"
  /\ frag' = FALSE
  /\ owned' = owned - 1
  /\ stk' = Tail(stk)
  /\ UNCHANGED <<state, transport, recv, hasRecv, pending, first, registered,
                 autoReconnect, delay, awaiting, timer>>

\* "frag_done": release(frag_) after the delivery, which may have done it.
FragDone ==
  /\ Head(stk) = "frag_done"
  /\ frag' = FALSE
  /\ owned' = owned - (IF frag THEN 1 ELSE 0)
  /\ stk' = Tail(stk)
  /\ UNCHANGED <<state, transport, recv, hasRecv, pending, first, registered,
                 autoReconnect, delay, awaiting, timer>>

DispatchPing ==
  /\ Parsing("ping")
  /\ UNCHANGED autoReconnect
  /\ EnqueueFrame("pong", Dispatched)

DispatchPong ==
  /\ Parsing("pong")
  /\ awaiting' = FALSE
  /\ stk' = Dispatched
  /\ UNCHANGED <<state, transport, recv, hasRecv, frag, pending, owned, first, registered,
                 autoReconnect, delay, timer>>

\* Mutant: a Close frame empties the receive buffer at once.
DispatchClose_Reset ==
  /\ Parsing("close")
  /\ recv' = <<>>
  /\ UNCHANGED <<hasRecv, first, registered, autoReconnect, delay, awaiting>>
  /\ Teardown("Disconnected", Dispatched)

DispatchClose ==
  /\ Parsing("close")
  /\ UNCHANGED <<recv, hasRecv, first, registered, autoReconnect, delay, awaiting>>
  /\ Teardown("Disconnected", Dispatched)

\* "consume": the frame leaves recv_, and the loop ends unless the session is
\* still up. If recv_ was replaced meanwhile its length wraps below zero.
Consume ==
  /\ Head(stk) = "consume"
  /\ recv' = IF recv = <<>> THEN <<"junk">> ELSE Tail(recv)
  /\ stk' = IF state \in {"Open", "Closing"} THEN Tail(stk) ELSE Tail(Tail(stk))
  /\ UNCHANGED <<state, transport, hasRecv, frag, pending, owned, first, registered,
                 autoReconnect, delay, awaiting, timer>>

Parse ==
  \/ ParseEnd \/ ParseBad \/ ParseJunk \/ DispatchMessage \/ BeginFragment
  \/ \E fin \in BOOLEAN : AppendFragment(fin)
  \/ FragDone \/ DispatchPing \/ DispatchPong \/ DispatchClose \/ Consume

-----------------------------------------------------------------------------
(* "keepalive": check_keepalive(), whatever the read has done to the session *)

\* Mutant: keepalive is for open sessions only.
KeepaliveSkip_Closing ==
  /\ Head(stk) = "keepalive"
  /\ state = "Closing"
  /\ stk' = Tail(stk)
  /\ UNCHANGED <<state, transport, recv, hasRecv, frag, pending, owned, first, registered,
                 autoReconnect, delay, awaiting, timer>>

KeepaliveSkip ==
  /\ Head(stk) = "keepalive"
  /\ ~KeepAlive \/ (IF awaiting THEN timer.pong # "due" ELSE timer.ping # "due")
  /\ stk' = Tail(stk)
  /\ UNCHANGED <<state, transport, recv, hasRecv, frag, pending, owned, first, registered,
                 autoReconnect, delay, awaiting, timer>>

PongTimeout ==
  /\ Head(stk) = "keepalive" /\ KeepAlive /\ awaiting /\ timer.pong = "due"
  /\ UNCHANGED <<recv, hasRecv, first, registered, autoReconnect, delay, awaiting>>
  /\ Teardown("Failed", Tail(stk))

SendPing ==
  /\ Head(stk) = "keepalive" /\ KeepAlive /\ ~awaiting /\ timer.ping = "due"
  /\ UNCHANGED autoReconnect
  /\ EnqueueFrame("ping", <<"pinged">> \o Tail(stk))

\* Mutant: nobody waits for the Pong.
Pinged_NoWait ==
  /\ Head(stk) = "pinged"
  /\ timer' = [timer EXCEPT !.ping = "armed", !.pong = "armed"]
  /\ stk' = Tail(stk)
  /\ UNCHANGED <<state, transport, recv, hasRecv, frag, pending, owned, first, registered,
                 autoReconnect, delay, awaiting>>

\* "pinged": the deadlines, set whether or not a Ping was queued.
Pinged ==
  /\ Head(stk) = "pinged"
  /\ awaiting' = TRUE
  /\ timer' = [timer EXCEPT !.ping = "armed", !.pong = "armed"]
  /\ stk' = Tail(stk)
  /\ UNCHANGED <<state, transport, recv, hasRecv, frag, pending, owned, first, registered,
                 autoReconnect, delay>>

Keepalive == KeepaliveSkip \/ PongTimeout \/ SendPing \/ Pinged

-----------------------------------------------------------------------------
(* The application's callbacks, and time *)

ActiveCallbacks ==
  {i \in 1 .. Len(stk) : \E c \in Callbacks : stk[i] \in {c, Called[c]}}

\* A callback makes any number of calls, one after the other. At most MaxNest
\* callbacks are active when one does.
CallbackCall ==
  /\ Cardinality(ActiveCallbacks) <= MaxNest
  /\ \E c \in Callbacks, op \in CallbackOps :
       /\ Head(stk) \in {c, Called[c]}
       /\ Call(op, <<Called[c]>> \o Tail(stk))

CallbackReturn ==
  /\ \E c \in Callbacks : Head(stk) \in {c, Called[c]}
  /\ stk' = Tail(stk)
  /\ UNCHANGED <<state, transport, recv, hasRecv, frag, pending, owned, first, registered,
                 autoReconnect, delay, awaiting, timer>>

\* A deadline passes. Handlers take no time worth modelling.
Expire(d) ==
  /\ Idle /\ timer[d] = "armed"
  /\ timer' = [timer EXCEPT ![d] = "due"]
  /\ UNCHANGED <<setup, state, transport, recv, hasRecv, frag, pending, owned, first, registered,
                 autoReconnect, delay, awaiting, stk>>

Step ==
  /\ stk # <<>> /\ UNCHANGED setup
  /\ \/ Closing \/ Register \/ MaybeReconnect \/ PollOpen \/ ReadyIo \/ UpgradeRequest
     \/ Flush \/ Read \/ Opened \/ Parse \/ Keepalive
     \/ CallbackCall \/ CallbackReturn

Next ==
  \/ Step
  \/ Api \/ Destroy \/ OnReady \/ PollTimeouts
  \/ \E on \in BOOLEAN : SetAutoReconnect(on)
  \/ \E d \in DOMAIN timer : Expire(d)

Spec == Init /\ [][Next]_vars

\* Handlers run on, callbacks return, the loop calls on_ready() in every
\* iteration whatever its step hook does, and deadlines pass.
Fairness ==
  /\ WF_vars(Step)
  /\ SF_vars(OnReady)
  /\ \A d \in {"connect", "ping", "pong", "reconnect"} : SF_vars(Expire(d))

FairSpec == Spec /\ Fairness

-----------------------------------------------------------------------------
(* Properties *)

States == {"Disconnected", "Connecting", "Upgrading", "Open", "Closing", "Failed", "Destroyed"}

Frames == {"ready", "flush", "read", "keepalive", "pinged", "parse", "consume", "opened",
           "upgrade", "register", "closing", "frag_done"}
            \cup Callbacks \cup {Called[c] : c \in Callbacks}

\* Types of all variables; the ring holds at most kMaxPending frames and the
\* reconnect delay never passes kReconnectMaxNs.
TypeOK ==
  /\ setup \in Setups
  /\ state \in States
  /\ transport \in {"closed", "opening", "open"}
  /\ recv \in Seq(PeerFrames \cup {"part", "full", "junk"})
  /\ hasRecv \in BOOLEAN /\ frag \in BOOLEAN
  /\ pending \in Seq({"upgrade", "data", "ping", "pong", "close"})
  /\ Len(pending) <= MaxPending
  /\ owned \in Nat
  /\ first \in {"none", "upgrade", "frame"}
  /\ registered \in BOOLEAN /\ autoReconnect \in BOOLEAN /\ awaiting \in BOOLEAN
  /\ delay \in 0 .. DelayMax
  /\ timer \in [{"connect", "ping", "pong", "reconnect"} -> {"off", "armed", "due"}]
  /\ stk \in Seq(Frames)

\* Every pool buffer the session has acquired is in recv_, in frag_ or in the
\* ring, whatever the handlers and the callbacks inside them have done: none
\* leaks and none is released twice. All variables keep their types, so the
\* ring and the delay stay within their bounds.
BufferBalance == TypeOK /\ owned = Holdings

\* While the state is Open the connection is up and there is a buffer to
\* receive into.
OpenConnected == state = "Open" => transport = "open" /\ hasRecv

\* Callbacks that do not connect.
NoReconnector == "connect" \notin CallbackOps

\* While on_message runs, its view ("valid ONLY for the duration of the
\* on_message call", ws_session.h:54) survives the send() and close() calls it
\* makes, what they flush, tear down and call back included. The view of a whole
\* frame lasts until the callback returns: the frame is still the first in recv_.
\* The view of a reassembled message lasts while the connection does, and no
\* longer: a call that ends the connection releases frag_ under it.
ViewValid ==
  NoReconnector => \A i \in 1 .. Len(stk) :
    /\ stk[i] \in {"on_message", Called["on_message"]} =>
         hasRecv /\ recv # <<>> /\ Head(recv) = "msg"
    /\ stk[i] \in {"on_fragments", Called["on_fragments"]} => frag \/ transport = "closed"

\* parse_frames() never consumes more than recv_ holds ("assert(n <= len_)",
\* io_buffer.h:62), as long as callbacks only send and close; a connect() inside
\* a callback replaces recv_ under it.
NoUnderflowUnlessReconnected == NoReconnector /\ recv # <<>> => Head(recv) # "junk"

\* The first bytes written to a connection are the upgrade request, as long as
\* callbacks only send and close.
UpgradeFirst == NoReconnector => first # "frame"

\* From some time on the application leaves the session alone.
UserQuiet == <>[][~Api /\ (\A on \in BOOLEAN : ~SetAutoReconnect(on))]_vars

\* With a connect timeout the session does not stay between Connecting and
\* Open, even if the peer never answers.
ConnectResolves ==
  UserQuiet /\ setup.timeout => []<>(state \notin {"Connecting", "Upgrading"})

\* With keepalive on, a peer that answers no Ping is noticed, whatever else it
\* sends.
SilentPeerDetected ==
  UserQuiet /\ KeepAlive /\ "pong" \notin PeerFrames => []<>(state # "Open")

\* No peer holds a session by saying nothing, or everything but what matters.
SilenceEnds == ConnectResolves /\ SilentPeerDetected

\* Under auto_reconnect_ a registered session that stays down keeps trying to
\* connect, even if attempts fail for want of a buffer.
Reconnects ==
  UserQuiet /\ <>[](autoReconnect /\ registered /\ state \in Down)
    => []<><<Step /\ MaybeReconnect /\ timer.reconnect = "due">>_vars

\* With keepalive on, close() ends in a teardown ("Initiate a clean close (sends
\* Close frame, then tears down)", ws_session.h:103), even if the Close frame is
\* never sent or the peer never answers it. With keepalive off, the default,
\* close() may have sent its frame before it enters Closing; only the peer
\* can then end the session.
CloseTearsDown == state = "Closing" /\ KeepAlive ~> state # "Closing"
=============================================================================
