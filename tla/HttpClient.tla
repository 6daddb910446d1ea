----------------------------- MODULE HttpClient -----------------------------
(***************************************************************************)
(* lepton::net::HttpClient<Transport>, one request at a time over a        *)
(* connection that is kept (include/lepton/net/http_client.h,              *)
(* detail/http_client_impl.h).                                             *)
(*                                                                         *)
(* As in WsSession one thread runs everything and stk is what is left of   *)
(* the running handler. A response is "cur" if it answers the request last *)
(* accepted and "old" otherwise; what separates them is not in the bytes   *)
(* but in which connection, and where on it, they come.                    *)
(***************************************************************************)
EXTENDS Naturals, Sequences, FiniteSets

CONSTANTS
  MaxStray,   \* most responses under way when the peer sends one unasked
  MaxNest,    \* most callbacks active at once
  Setups      \* the clients considered; see setup

Ops == {"connect", "request", "close"}

ASSUME HttpConstants ==
  /\ MaxStray \in Nat /\ MaxNest \in Nat
  /\ Setups \subseteq [poll : BOOLEAN, timeout : BOOLEAN, strays : BOOLEAN,
                       closes : BOOLEAN, impatient : BOOLEAN, calls : SUBSET Ops]

VARIABLES
  setup,      \* what this client is, chosen once: whether its loop uses the
              \* poller (poll), whether its two timeouts are set (timeout), whether
              \* the peer may send responses nobody asked for (strays) and may close
              \* or reset the connection (closes), whether the application connects
              \* while a request is in flight (impatient), what callbacks may call
  state,      \* state_
  transport,  \* the Stream: "closed", "opening" or "open"
  send,       \* send_: "none", "empty", or a request "unsent" or "sent"
  recv,       \* what recv_ holds: responses, then perhaps the start of one that
              \* leaves room ("part") or none ("full")
  hasRecv,    \* recv_ holds a pool buffer
  owned,      \* history: pool buffers acquired and not yet released
  registered, \* registered_
  armed,      \* write_armed_
  watch,      \* what the poller watches the descriptor for: "none" if it does not
              \* know it, "read", or "write" for both
  wire,       \* responses on their way over this connection, in order
  outcome,    \* history: what became of the request last accepted
  timer,      \* the two deadlines, each "off", "armed" or "due"
  stk         \* what is left of the running handler

vars == <<setup, state, transport, send, recv, hasRecv, owned, registered, armed, watch,
          wire, outcome, timer, stk>>

buffers == <<send, recv, hasRecv, owned>>
link    == <<transport, armed, watch, wire>>

InFlight == state \in {"Sending", "Receiving"}
Holdings == (IF send # "none" THEN 1 ELSE 0) + (IF hasRecv THEN 1 ELSE 0)
Deadline == IF setup.timeout THEN "armed" ELSE "off"

Init ==
  /\ setup \in Setups
  /\ state = "Disconnected" /\ transport = "closed"
  /\ send = "none" /\ recv = <<>> /\ hasRecv = FALSE /\ owned = 0
  /\ registered = FALSE /\ armed = FALSE /\ watch = "none"
  /\ wire = <<>> /\ outcome = "none"
  /\ timer = [connect |-> "off", request |-> "off"]
  /\ stk = <<>>

-----------------------------------------------------------------------------
(* Helpers of the handlers; rest is what runs when they have returned *)

\* fail(): the buffers stay, and on_error is called last.
Fail(rest) ==
  /\ transport' = "closed" /\ watch' = "none" /\ wire' = <<>>
  /\ state' = "Failed"
  /\ armed' = FALSE
  /\ outcome' = IF outcome = "open" THEN "failed" ELSE outcome
  /\ stk' = <<"on_error">> \o rest

\* notify_write_interest(): the poller refuses a descriptor it does not know.
Interest(w) == IF watch = "none" THEN "none" ELSE w

\* Mutant: a client that has given up keeps its buffers, and asks for new ones.
StartConnect_Leak(rest) ==
  /\ send' = "empty" /\ recv' = <<>> /\ hasRecv' = TRUE /\ owned' = owned + 2
  /\ transport' = "opening" /\ wire' = <<>> /\ watch' = "none"
  /\ armed' = TRUE /\ state' = "Connecting" /\ registered' = TRUE
  /\ timer' = [timer EXCEPT !.connect = Deadline]
  /\ outcome' = IF outcome = "open" THEN "dropped" ELSE outcome
  /\ stk' = rest

\* start_connect(). A request in flight is gone unless the attempt fails, and
\* only a client that was never registered is added to the loop.
StartConnect(rest) ==
  LET released == owned - Holdings IN
  /\ recv' = <<>>
  /\ \/ \E s \in {"none", "empty"}, r \in BOOLEAN :
          /\ ~(s = "empty" /\ r)
          /\ send' = s /\ hasRecv' = r
          /\ owned' = released + (IF s = "empty" THEN 1 ELSE 0) + (IF r THEN 1 ELSE 0)
          /\ Fail(rest)
          /\ UNCHANGED <<registered, timer>>
     \/ /\ send' = "empty" /\ hasRecv' = TRUE /\ owned' = released + 2
        /\ timer' = [timer EXCEPT !.connect = Deadline]
        /\ \/ Fail(rest) /\ UNCHANGED registered
           \/ /\ transport' = "opening" /\ wire' = <<>>
              /\ armed' = TRUE
              /\ state' = "Connecting"
              /\ registered' \in IF registered \/ ~setup.poll THEN {TRUE} ELSE BOOLEAN
              /\ watch' = IF setup.poll /\ ~registered /\ registered' THEN "write" ELSE "none"
              /\ outcome' = IF outcome = "open" THEN "dropped" ELSE outcome
              /\ stk' = rest

-----------------------------------------------------------------------------
(* The API, called from the step hook (empty stack) or from a callback *)

Connect(rest) ==
  /\ InFlight => setup.impatient
  /\ \/ /\ state \in {"Idle", "Connecting"}
        /\ stk' = rest
        /\ UNCHANGED <<state, buffers, link, registered, outcome, timer>>
     \/ state \notin {"Idle", "Connecting"} /\ StartConnect(rest)

\* request(): refused (Busy, NotReady, TooLarge), or accepted. What recv_ still
\* holds is forgotten, and all that is under way answers something else.
Request(rest) ==
  \/ /\ stk' = rest
     /\ UNCHANGED <<state, buffers, link, registered, outcome, timer>>
  \/ /\ state = "Idle"
     /\ send' = "unsent" /\ recv' = <<>>
     /\ state' = "Sending" /\ outcome' = "open"
     /\ wire' = [i \in DOMAIN wire |-> "old"]
     /\ timer' = [timer EXCEPT !.request = Deadline]
     /\ stk' = <<"flush">> \o rest
     /\ UNCHANGED <<transport, armed, watch, hasRecv, owned, registered>>

Close(rest) ==
  /\ transport' = "closed" /\ watch' = "none" /\ wire' = <<>>
  /\ send' = "none" /\ recv' = <<>> /\ hasRecv' = FALSE /\ owned' = owned - Holdings
  /\ state' = "Disconnected"
  /\ armed' = FALSE
  /\ outcome' = IF outcome = "open" THEN "closed" ELSE outcome
  /\ stk' = rest
  /\ UNCHANGED <<registered, timer>>

Call(op, rest) ==
  \/ op = "connect" /\ Connect(rest)
  \/ op = "request" /\ Request(rest)
  \/ op = "close"   /\ Close(rest)

\* The loop thread is between two handlers and the client exists.
Quiet == stk = <<>> /\ state \notin {"Destroyed", "Crashed"}

Api == Quiet /\ UNCHANGED setup /\ \E op \in Ops : Call(op, <<>>)

\* The destructor; ~Transport closes the connection.
Destroy ==
  /\ Quiet
  /\ state' = "Destroyed" /\ registered' = FALSE
  /\ transport' = "closed" /\ watch' = "none" /\ wire' = <<>>
  /\ send' = "none" /\ recv' = <<>> /\ hasRecv' = FALSE /\ owned' = owned - Holdings
  /\ outcome' = IF outcome = "open" THEN "closed" ELSE outcome
  /\ UNCHANGED <<setup, armed, timer, stk>>

-----------------------------------------------------------------------------
(* on_ready() and what it calls *)

\* Mutant: the deadline of a response is forgotten.
TimedOut_Sending ==
  \/ state = "Connecting" /\ timer.connect = "due"
  \/ state = "Sending" /\ timer.request = "due"

TimedOut ==
  \/ state = "Connecting" /\ timer.connect = "due"
  \/ InFlight /\ timer.request = "due"

\* Mutant: only the request is given up, and the connection kept.
CheckTimeouts_Keep(rest) ==
  \/ /\ TimedOut /\ InFlight
     /\ state' = "Idle" /\ send' = "empty" /\ outcome' = "failed"
     /\ stk' = <<"on_error">> \o rest
     /\ UNCHANGED <<recv, hasRecv, owned, registered, timer, link>>
  \/ /\ ~TimedOut /\ stk' = rest
     /\ UNCHANGED <<state, buffers, registered, timer, link, outcome>>

\* check_timeouts(), which the application may also call on its own (then
\* rest is empty).
CheckTimeouts(rest) ==
  /\ UNCHANGED <<buffers, registered, timer>>
  /\ \/ TimedOut /\ Fail(rest)
     \/ ~TimedOut /\ stk' = rest /\ UNCHANGED <<state, link, outcome>>

\* A busy-polling loop calls whoever is registered, the poller whom it watches.
OnReady ==
  /\ Quiet /\ registered /\ (setup.poll => watch # "none")
  /\ UNCHANGED setup
  /\ CheckTimeouts(<<"ready">>)

PollTimeouts == Quiet /\ UNCHANGED setup /\ CheckTimeouts(<<>>)

\* "ready": on_ready() after check_timeouts(), by state. An idle client looks
\* at nothing, the end of its connection included.
Ready ==
  /\ Head(stk) = "ready" /\ state # "Connecting"
  /\ stk' = (CASE state = "Sending" -> <<"flush">> [] state = "Receiving" -> <<"recv">>
               [] OTHER -> <<>>) \o Tail(stk)
  /\ UNCHANGED <<state, buffers, link, registered, outcome, timer>>

\* Mutant: write interest stays armed.
PollOpen_KeepInterest ==
  /\ Head(stk) = "ready" /\ state = "Connecting"
  /\ transport' = "open" /\ state' = "Idle" /\ armed' = FALSE
  /\ stk' = Tail(stk)
  /\ UNCHANGED <<buffers, registered, timer, watch, wire, outcome>>

PollOpen ==
  /\ Head(stk) = "ready" /\ state = "Connecting"
  /\ UNCHANGED <<buffers, registered, timer>>
  /\ \/ stk' = Tail(stk) /\ UNCHANGED <<state, link, outcome>>
     \/ /\ transport' = "open" /\ state' = "Idle"
        /\ armed' = FALSE /\ watch' = IF armed THEN Interest("read") ELSE watch
        /\ stk' = Tail(stk)
        /\ UNCHANGED <<wire, outcome>>
     \/ Fail(Tail(stk))

\* "flush": flush_send() up to where it stops. A peer that has the whole
\* request will answer it, unless the connection ends first.
FlushBlocked ==
  /\ Head(stk) = "flush"
  /\ armed' = TRUE /\ watch' = IF armed THEN watch ELSE Interest("write")
  /\ stk' = Tail(stk)
  /\ UNCHANGED <<state, buffers, transport, wire, registered, outcome, timer>>

FlushError ==
  /\ Head(stk) = "flush" /\ setup.closes
  /\ UNCHANGED <<buffers, registered, timer>>
  /\ Fail(Tail(stk))

FlushAll ==
  /\ Head(stk) = "flush"
  /\ send' = "sent" /\ wire' = Append(wire, "cur")
  /\ state' = "Receiving"
  /\ armed' = FALSE /\ watch' = IF armed THEN Interest("read") ELSE watch
  /\ stk' = <<"recv">> \o Tail(stk)
  /\ UNCHANGED <<transport, recv, hasRecv, owned, registered, outcome, timer>>

-----------------------------------------------------------------------------
(* "recv": one round of drive_recv()'s loop *)

Complete(r) == r # <<>> /\ Head(r) \notin {"part", "full"}

\* try_complete() up to the callback.
TryComplete ==
  \/ /\ Complete(recv')
     /\ outcome' = IF outcome = "open" THEN "answered" ELSE "twice"
     /\ stk' = <<"on_response", "completed">> \o Tail(stk)
     /\ UNCHANGED <<state, transport, armed, watch>>
  \/ /\ ~Complete(recv')
     /\ UNCHANGED <<state, transport, armed, watch, outcome, stk>>

\* No room, an error, or the end of the connection: what recv_ holds has been
\* parsed before, and was not complete.
RecvFails ==
  /\ Head(stk) = "recv"
  /\ setup.closes \/ recv = <<"full">>
  /\ UNCHANGED <<buffers, registered, timer>>
  /\ Fail(Tail(stk))

RecvBlocked ==
  /\ Head(stk) = "recv" /\ recv # <<"full">>
  /\ stk' = Tail(stk)
  /\ UNCHANGED <<state, buffers, link, registered, outcome, timer>>

\* Bytes: the first n responses under way are complete now, and of the next one
\* there may be a part. Room matters only before the first is complete.
RecvBytes ==
  /\ Head(stk) = "recv" /\ recv # <<"full">> /\ wire # <<>>
  /\ \E n \in 0 .. Len(wire), more \in {<<>>, <<"part">>, <<"full">>} :
       /\ more # <<>> => n < Len(wire)
       /\ n = 0 => more # <<>>
       /\ n > 0 => more # <<"full">>
       /\ recv' = SubSeq(wire, 1, n) \o more
       /\ wire' = SubSeq(wire, n + 1, Len(wire))
  /\ TryComplete
  /\ UNCHANGED <<send, hasRecv, owned, registered, timer>>

\* Mutant: the client does not become idle.
Completed_Stay ==
  /\ Head(stk) = "completed"
  /\ stk' = Tail(stk)
  /\ recv' = IF recv = <<>> THEN <<>> ELSE Tail(recv)
  /\ UNCHANGED <<state, send, hasRecv, owned, link, registered, outcome, timer>>

\* "completed": try_complete() after the callback. If a connect() has replaced
\* recv_ meanwhile, consume() wraps its length and compact_recv() moves that
\* many bytes, which no process survives.
Completed ==
  /\ Head(stk) = "completed"
  /\ UNCHANGED <<hasRecv, owned, link, registered, outcome, timer>>
  /\ \/ /\ state \in {"Failed", "Disconnected"}
        /\ stk' = Tail(stk)
        /\ UNCHANGED <<state, send, recv>>
     \/ /\ state \notin {"Failed", "Disconnected"} /\ recv # <<>>
        /\ recv' = Tail(recv) /\ send' = "empty" /\ state' = "Idle"
        /\ stk' = Tail(stk)
     \/ /\ state \notin {"Failed", "Disconnected"} /\ recv = <<>>
        /\ state' = "Crashed" /\ stk' = <<>>
        /\ UNCHANGED <<send, recv>>

-----------------------------------------------------------------------------
(* The application's callbacks, the peer, and time *)

\* A callback that has been entered, and one that has made a call or more.
Callbacks == {"on_error", "on_response"}
Called == [on_error |-> "on_error_called", on_response |-> "on_response_called"]

ActiveCallbacks ==
  {i \in 1 .. Len(stk) : \E c \in Callbacks : stk[i] \in {c, Called[c]}}

\* A callback makes any number of calls, one after the other. At most MaxNest
\* callbacks are active when one does.
CallbackCall ==
  /\ Cardinality(ActiveCallbacks) <= MaxNest
  /\ \E c \in Callbacks, op \in setup.calls :
       /\ Head(stk) \in {c, Called[c]}
       /\ Call(op, <<Called[c]>> \o Tail(stk))

CallbackReturn ==
  /\ \E c \in Callbacks : Head(stk) \in {c, Called[c]}
  /\ stk' = Tail(stk)
  /\ UNCHANGED <<state, buffers, link, registered, outcome, timer>>

\* A response nobody asked for, such as the 408 that precedes a close.
Stray ==
  /\ Quiet /\ setup.strays /\ transport = "open" /\ Len(wire) < MaxStray
  /\ wire' = Append(wire, "old")
  /\ UNCHANGED <<setup, state, buffers, transport, armed, watch, registered, outcome,
                 timer, stk>>

\* A deadline passes. Handlers take no time worth modelling.
Expire(d) ==
  /\ Quiet /\ timer[d] = "armed"
  /\ timer' = [timer EXCEPT ![d] = "due"]
  /\ UNCHANGED <<setup, state, buffers, link, registered, outcome, stk>>

Step ==
  /\ stk # <<>> /\ UNCHANGED setup
  /\ \/ Ready \/ PollOpen
     \/ FlushBlocked \/ FlushError \/ FlushAll
     \/ RecvFails \/ RecvBlocked \/ RecvBytes \/ Completed
     \/ CallbackCall \/ CallbackReturn

Next ==
  \/ Step
  \/ Api \/ Destroy \/ OnReady \/ PollTimeouts \/ Stray
  \/ \E d \in DOMAIN timer : Expire(d)

Spec == Init /\ [][Next]_vars

\* Handlers run on, callbacks return, the loop calls on_ready() in every
\* iteration whatever its step hook does, and deadlines pass.
Fairness ==
  /\ WF_vars(Step)
  /\ SF_vars(OnReady)
  /\ \A d \in {"connect", "request"} : SF_vars(Expire(d))

FairSpec == Spec /\ Fairness

-----------------------------------------------------------------------------
(* Properties *)

\* Types of all variables.
TypeOK ==
  /\ setup \in Setups
  /\ state \in {"Disconnected", "Connecting", "Idle", "Sending", "Receiving", "Failed",
                "Destroyed", "Crashed"}
  /\ transport \in {"closed", "opening", "open"}
  /\ send \in {"none", "empty", "unsent", "sent"}
  /\ recv \in Seq({"cur", "old", "part", "full"})
  /\ wire \in Seq({"cur", "old"}) /\ Len(wire) <= MaxStray + 1
  /\ hasRecv \in BOOLEAN /\ registered \in BOOLEAN /\ armed \in BOOLEAN
  /\ owned \in 0 .. 2
  /\ watch \in {"none", "read", "write"}
  /\ outcome \in {"none", "open", "answered", "failed", "closed", "dropped", "twice"}
  /\ timer \in [{"connect", "request"} -> {"off", "armed", "due"}]

\* Every pool buffer the client has acquired is in send_ or recv_, also after
\* an attempt to connect that got only one of the two, and after calls from
\* inside callbacks. All variables keep their types.
BufferBalance == TypeOK /\ owned = Holdings

\* The response handed to on_response answers the request last accepted, across
\* timeouts, failures, close() and new connections, if the peer sends nothing
\* unasked.
ResponseMatches ==
  ~setup.strays /\ stk # <<>> /\ Head(stk) = "on_response" => Head(recv) = "cur"

\* Callbacks that close and connect again.
Reopens == {"close", "connect"} \subseteq setup.calls

\* Every accepted request comes to exactly one end: one on_response, one
\* on_error, or a close() or destructor. Between handlers the state says
\* whether it has. Only connect() with a request in flight makes it vanish.
\* try_complete() consumes from a recv_ it did not fill only if a callback
\* connects over the request it is told the end of, or closes and then connects:
\* its guard knows a client that is Failed or Disconnected, not one that
\* is Connecting again (http_client_impl.h:226).
OneOutcome ==
  /\ outcome # "twice"
  /\ outcome = "dropped" => setup.impatient
  /\ state = "Crashed" => setup.impatient \/ Reopens
  /\ Quiet => (outcome = "open" <=> InFlight)

\* In poller mode the interest kept by write_armed_ is what wants_write() says
\* ("loop arms writable interest only then, in poller mode", event_loop.h:41),
\* so that a blocked request is resumed and an idle socket wakes nobody.
InterestExact ==
  Quiet /\ watch # "none" => (watch = "write" <=> state \in {"Connecting", "Sending"})

\* On a busy-polling loop, with both timeouts, connect() and every accepted
\* request come to an end, even if the peer never answers or answers half.
TimeoutsEnd ==
  /\ state = "Connecting" /\ setup.timeout /\ ~setup.poll ~> state # "Connecting"
  /\ outcome = "open" /\ setup.timeout /\ ~setup.poll ~> outcome # "open"

=============================================================================
