-------------------------- MODULE WsSessionProofs ---------------------------
(***************************************************************************)
(* Theorems about WsSession, for every ring size, every backoff, both      *)
(* transports, every peer, and callbacks that call anything to any depth.  *)
(***************************************************************************)
EXTENDS WsSession, SequenceLemmas

\* An API call, from the step hook or from a callback, keeps OpenConnected.
LEMMA CallOpenConnected ==
  ASSUME OpenConnected, NEW op, NEW rest, Call(op, rest)
  PROVE  OpenConnected'
<1>1. CASE Connect(rest)
  BY <1>1 DEF OpenConnected, Connect, StartConnect, SetState
<1>2. CASE Send(rest)
  BY <1>2 DEF OpenConnected, Send, EnqueueFrame
<1>3. CASE Close(rest)
  BY <1>3 DEF OpenConnected, Close, EnqueueFrame, Teardown, SetState
<1> QED
  BY <1>1, <1>2, <1>3 DEF Call

\* So does every step of a handler: whatever closes the transport or takes
\* recv_ away also leaves the state Open.
LEMMA NextOpenConnected == OpenConnected /\ [Next]_vars => OpenConnected'
<1> SUFFICES ASSUME OpenConnected, [Next]_vars PROVE OpenConnected'
  OBVIOUS
<1>1. CASE Closing
  BY <1>1 DEF OpenConnected, Closing, SetState
<1>2. CASE Register
  BY <1>2 DEF OpenConnected, Register
<1>3. CASE MaybeReconnect
  BY <1>3 DEF OpenConnected, MaybeReconnect, StartConnect, SetState, Down
<1>4. CASE PollOpen
  BY <1>4 DEF OpenConnected, PollOpen, Teardown, SetState
<1>5. CASE ReadyIo
  BY <1>5 DEF OpenConnected, ReadyIo
<1>6. CASE UpgradeRequest
  BY <1>6 DEF OpenConnected, UpgradeRequest, Teardown, SetState
<1>7. CASE Flush
  BY <1>7 DEF OpenConnected, Flush, FlushDone, FlushError, FlushPart, FlushAll, Teardown, SetState
<1>8. CASE Read
  BY <1>8 DEF OpenConnected, Read, SkipRead, UpgradeReadNothing, UpgradeRead, FrameReadNothing, FrameRead,
         ReadNothing, Teardown, SetState, Full
<1>9. CASE Opened
  BY <1>9 DEF OpenConnected, Opened
<1>10. CASE Parse
  BY <1>10 DEF OpenConnected, Parse, ParseEnd, ParseBad, ParseJunk, DispatchMessage, BeginFragment,
         AppendFragment, FragDone, DispatchPing, DispatchPong, DispatchClose, Consume,
         EnqueueFrame, Teardown, SetState
<1>11. CASE Keepalive
  BY <1>11 DEF OpenConnected, Keepalive, KeepaliveSkip, PongTimeout, SendPing, Pinged, EnqueueFrame, Teardown,
         SetState
<1>12. CASE CallbackReturn
  BY <1>12 DEF OpenConnected, CallbackReturn
<1>13. CASE Destroy
  BY <1>13 DEF OpenConnected, Destroy
<1>14. CASE OnReady
  BY <1>14 DEF OpenConnected, OnReady, CheckTimeouts, Teardown, SetState
<1>15. CASE PollTimeouts
  BY <1>15 DEF OpenConnected, PollTimeouts, CheckTimeouts, Teardown, SetState
<1>16. CASE CallbackCall
  BY <1>16, CallOpenConnected DEF CallbackCall
<1>17. CASE Api
  BY <1>17, CallOpenConnected DEF Api
<1>18. ASSUME NEW on \in BOOLEAN, SetAutoReconnect(on) PROVE OpenConnected'
  BY <1>18 DEF OpenConnected, SetAutoReconnect
<1>19. ASSUME NEW d \in DOMAIN timer, Expire(d) PROVE OpenConnected'
  BY <1>19 DEF OpenConnected, Expire
<1>20. CASE UNCHANGED vars
  BY <1>20 DEF OpenConnected, vars
<1> QED
  BY <1>1, <1>2, <1>3, <1>4, <1>5, <1>6, <1>7, <1>8, <1>9, <1>10, <1>11,
     <1>12, <1>13, <1>14, <1>15, <1>16, <1>17, <1>18, <1>19, <1>20
     DEF Next, Step

\* While a session is Open its transport is open and it has a receive buffer,
\* whatever callbacks did inside the handlers of on_ready().
THEOREM SessionOpenConnected == Spec => []OpenConnected
<1>1. Init => OpenConnected
  BY DEF Init, OpenConnected
<1> QED
  BY <1>1, NextOpenConnected, PTL DEF Spec

-----------------------------------------------------------------------------
(* The buffers and the order of a connection *)

\* Frames whose place on the stack says nothing of the session: a callback
\* that has made a call, and the tails of set_state(), flush_pending()
\* and start_connect().
Neutral == {"on_state", "flush", "register", "frag_done"} \cup {Called[c] : c \in Callbacks}

\* Frames that may stand on any other, and those that others may stand on.
Upper   == Neutral \cup {"closing", "on_message", "on_fragments"}
Lower   == Frames \ Callbacks

\* What may be behind a frame: a callback may run inside anything, while the
\* handlers of on_ready(), read() and the upgrade run inside nothing.
Below == [f \in Frames |-> CASE f \in Upper    -> Lower
                             [] f = "consume" -> {"parse", "keepalive"}
                             [] f = "parse"   -> {"keepalive"}
                             [] OTHER         -> {}]

\* Frames that run only after the upgrade request was written.
Late == {"closing", "opened", "parse", "consume", "keepalive"}

\* What the frames e on the stack promise of the session: a frame being parsed
\* is at the head of the receive buffer, an upgrade request about to be queued
\* finds the ring almost empty, and, unless the user reconnects from a callback
\* (calm), nothing that belongs to an open session runs before the upgrade.
Agrees(e, st, pd, rv, fi, fr, calm) ==
  /\ "consume" \in e => "parse" \in e
  /\ "upgrade" \in e => "closing" \notin e /\ st \notin {"Open", "Closing"} /\ Len(pd) <= 1
  /\ st = "Connecting" =>
       /\ "upgrade" \in e \/ "keepalive" \in e => pd = <<>>
       /\ "opened" \in e \/ ("parse" \in e /\ "consume" \notin e) => rv = <<>>
  /\ calm =>
       /\ fi = "none" => e \cap Late = {}
       /\ "consume" \in e \/ "on_message" \in e => rv # <<>>
       /\ "on_fragments" \in e => fr

\* The call stack is one the code can build.
StackInv == stk \in Seq(Frames) /\ Nested(stk, Below)

\* The session is as the frames on its stack promise.
AgreeInv == Agrees(Elems(stk), state, pending, recv, first, frag, NoReconnector)

\* The books of the buffers; the room the upgrade request needs in the ring; and
\* without a reconnecting callback, no frame before the upgrade, no leftover of
\* an earlier connection in the receive buffer, no buffer read that is gone.
DataInv ==
  /\ owned = Holdings
  /\ state = "Connecting" => Len(pending) <= 1
  /\ NoReconnector =>
       /\ recv \in Seq(PeerFrames \cup {"part", "full"})
       /\ recv # <<>> => hasRecv
       /\ first # "frame"
       /\ first = "none" => /\ state \notin {"Open", "Closing"}
                            /\ pending = <<>> \/ Head(pending) = "upgrade"

\* The invariant of the session, which is inductive.
WsInv == TypeOK /\ StackInv /\ AgreeInv /\ DataInv

\* A stack that a frame can be pushed on.
Rest(r) == r \in Seq(Frames) /\ Nested(r, Below) /\ Elems(r) \subseteq Lower

\* The table Below, row by row.
LEMMA FrameSets ==
  /\ \A f \in Upper : f \in Frames /\ Below[f] = Lower
  /\ \A f \in {"ready", "upgrade", "read", "opened", "keepalive", "pinged"} :
       f \in Lower /\ f \notin Upper /\ Below[f] = {}
  /\ "consume" \in Lower /\ Below["consume"] = {"parse", "keepalive"}
  /\ "parse" \in Lower /\ Below["parse"] = {"keepalive"}
  /\ \A f \in Neutral \ {"on_state"} : f \in Lower
  /\ Neutral \subseteq Upper /\ Callbacks \subseteq Upper
  /\ "closing" \in Upper /\ "closing" \in Lower
  /\ Lower \subseteq Frames /\ Lower \cap Callbacks = {}
  /\ \A f \in Frames : f \in Upper \/ f \in {"ready", "upgrade", "read", "opened", "keepalive",
                                            "pinged", "consume", "parse"}
  BY DEF Upper, Neutral, Lower, Below, Frames, Callbacks, Called

\* The two frames of the parser are not neutral.
LEMMA ParserNotNeutral == "consume" \notin Neutral /\ "parse" \notin Neutral
<1>1. \A c \in Callbacks : Called[c] # "consume" /\ Called[c] # "parse"
  BY DEF Callbacks, Called
<1> QED BY <1>1, Zenon DEF Neutral

\* Pushing a frame where it may stand.
LEMMA PushFrame ==
  ASSUME NEW r, Rest(r), NEW f \in Frames, Elems(r) \subseteq Below[f]
  PROVE  /\ <<f>> \o r \in Seq(Frames) /\ Nested(<<f>> \o r, Below)
         /\ Elems(<<f>> \o r) = {f} \cup Elems(r)
         /\ f \in Lower => Rest(<<f>> \o r)
<1>1. /\ <<f>> \o r \in Seq(Frames) /\ Nested(<<f>> \o r, Below)
      /\ Elems(<<f>> \o r) = {f} \cup Elems(r)
  BY Push DEF Rest
<1> QED
  BY <1>1 DEF Rest

\* Pushing a frame that may stand anywhere.
LEMMA PushUpper ==
  ASSUME NEW r, Rest(r), NEW f \in Upper
  PROVE  /\ <<f>> \o r \in Seq(Frames) /\ Nested(<<f>> \o r, Below)
         /\ Elems(<<f>> \o r) = {f} \cup Elems(r)
         /\ f \in Lower => Rest(<<f>> \o r)
<1>1. f \in Frames /\ Elems(r) \subseteq Below[f]
  BY FrameSets DEF Rest
<1> QED BY <1>1, PushFrame

\* Popping the frame on top.
LEMMA PopFrame ==
  ASSUME WsInv, stk # <<>>
  PROVE  /\ Head(stk) \in Frames
         /\ Rest(Tail(stk))
         /\ Elems(stk) = {Head(stk)} \cup Elems(Tail(stk))
         /\ Elems(Tail(stk)) \subseteq Below[Head(stk)]
<1>1. /\ Head(stk) \in Frames /\ Tail(stk) \in Seq(Frames) /\ Nested(Tail(stk), Below)
      /\ Elems(stk) = {Head(stk)} \cup Elems(Tail(stk))
      /\ Elems(Tail(stk)) \subseteq Below[Head(stk)]
  BY Pop DEF WsInv, StackInv
<1>2. \A f \in Frames : Below[f] \subseteq Lower
  BY FrameSets
<1> QED BY <1>1, <1>2 DEF Rest

\* The empty stack.
LEMMA EmptyRest == Rest(<<>>) /\ Elems(<<>>) = {}
  BY EmptyStack DEF Rest

\* The stack on which the loop's on_ready() runs.
LEMMA OnReadyFrame == Rest(<<"ready">>) /\ Elems(<<"ready">>) = {"ready"}
<1>1. "ready" \in Frames /\ "ready" \in Lower
  BY FrameSets
<1>2. <<"ready">> = <<"ready">> \o <<>>
  OBVIOUS
<1>3. \A r : Rest(r) /\ Elems(r) = {} =>
             Rest(<<"ready">> \o r) /\ Elems(<<"ready">> \o r) = {"ready"}
  BY <1>1, PushFrame
<1> QED BY <1>2, <1>3, EmptyRest, Zenon

\* A state whose stack is r instead.
LEMMA SameAgrees ==
  ASSUME NEW e, NEW st, NEW pd, NEW rv, NEW fi, NEW fr, NEW calm,
         Agrees(e, st, pd, rv, fi, fr, calm), NEW d,
         d \subseteq e \cup Neutral,
         "consume" \in d => "parse" \in d,
         "consume" \in e /\ "parse" \in d => "consume" \in d
  PROVE  Agrees(d, st, pd, rv, fi, fr, calm)
<1>1. \A f \in Late \cup {"upgrade", "on_message", "on_fragments"} : f \in d => f \in e
  BY DEF Late, Neutral, Called, Callbacks
<1> QED BY <1>1 DEF Agrees, Late

\* A frame that returns leaves a session that agrees with the rest.
LEMMA TailAgrees ==
  ASSUME WsInv, stk # <<>>, Head(stk) # "consume"
  PROVE  Agrees(Elems(Tail(stk)), state, pending, recv, first, frag, NoReconnector)
<1>1. /\ Head(stk) \in Frames
      /\ Elems(stk) = {Head(stk)} \cup Elems(Tail(stk))
      /\ Elems(Tail(stk)) \subseteq Below[Head(stk)]
  BY PopFrame
<1>2. "consume" \in Elems(Tail(stk)) => "parse" \in Elems(Tail(stk))
  BY <1>1, FrameSets DEF WsInv, AgreeInv, Agrees
<1>3. "consume" \in Elems(stk) => "consume" \in Elems(Tail(stk))
  BY <1>1
<1>4. Elems(Tail(stk)) \subseteq Elems(stk) \cup Neutral
  BY <1>1
<1> QED BY <1>2, <1>3, <1>4, SameAgrees DEF WsInv, AgreeInv

\* What a pending buffer holds.
Kinds == {"upgrade", "data", "ping", "pong", "close"}

\* The four deadlines.
Deadlines == [{"connect", "ping", "pong", "reconnect"} -> {"off", "armed", "due"}]

\* The parts of the type invariant that most steps leave alone.
Plain ==
  /\ setup \in Setups
  /\ state \in States
  /\ transport \in {"closed", "opening", "open"}
  /\ hasRecv \in BOOLEAN /\ frag \in BOOLEAN
  /\ first \in {"none", "upgrade", "frame"}
  /\ registered \in BOOLEAN /\ autoReconnect \in BOOLEAN /\ awaiting \in BOOLEAN
  /\ delay \in 0 .. DelayMax
  /\ timer \in Deadlines

\* The receive buffer and the ring of pending buffers.
Store ==
  /\ recv \in Seq(PeerFrames \cup {"part", "full", "junk"})
  /\ pending \in Seq(Kinds) /\ Len(pending) <= MaxPending

\* The type invariant in parts.
LEMMA TypeParts == TypeOK <=> Plain /\ Store /\ owned \in Nat /\ stk \in Seq(Frames)
  BY DEF TypeOK, Plain, Store, Kinds, Deadlines

\* The same after a step.
LEMMA TypePartsPrimed ==
  TypeOK' <=> Plain' /\ Store' /\ owned' \in Nat /\ stk' \in Seq(Frames)
  BY DEF TypeOK, Plain, Store, Kinds, Deadlines

\* Empty buffers and rings, and the room in a ring.
LEMMA EmptyStore ==
  /\ \A S : <<>> \in Seq(S) 
  /\ Len(<<>>) = 0 /\ Len(<<>>) <= MaxPending /\ Len(<<>>) <= 1 /\ MaxPending \in Nat
  /\ MaxPending >= 2
<1>1. MaxPending \in Nat /\ MaxPending >= 2
  BY WsConstants
<1> QED BY <1>1

\* set_state() pushes on_state when the state changes, and nothing else.
LEMMA SetStateStack ==
  ASSUME NEW s, NEW r, Rest(r), SetState(s, r)
  PROVE  StackInv' /\ Elems(stk') \ {"on_state"} = Elems(r)
         /\ Elems(stk') \subseteq Elems(r) \cup Neutral /\ state' = s
<1>1. "on_state" \in Upper /\ "on_state" \notin Elems(r) /\ "on_state" \in Neutral
  BY DEF Upper, Neutral, Rest, Lower, Callbacks
<1>2. CASE stk' = r
  BY <1>1, <1>2 DEF SetState, StackInv, Rest
<1>3. CASE stk' = <<"on_state">> \o r
  <2>1. StackInv' /\ Elems(stk') = {"on_state"} \cup Elems(r)
    BY <1>1, <1>3, PushUpper DEF StackInv
  <2> QED BY <1>1, <2>1 DEF SetState
<1> QED BY <1>2, <1>3 DEF SetState

\* A step that moves no data.
LEMMA PassKeeps ==
  ASSUME WsInv, UNCHANGED <<setup, state, recv, hasRecv, frag, pending, owned, first>>,
         StackInv',
         Agrees(Elems(stk'), state, pending, recv, first, frag, NoReconnector),
         transport' \in {"closed", "opening", "open"},
         registered' \in BOOLEAN, autoReconnect' \in BOOLEAN, awaiting' \in BOOLEAN,
         delay' \in 0 .. DelayMax, timer' \in Deadlines
  PROVE  WsInv'
<1>1. NoReconnector' <=> NoReconnector
  BY DEF NoReconnector, CallbackOps
<1>2. AgreeInv'
  BY <1>1 DEF AgreeInv, Agrees
<1>3. Plain' /\ Store' /\ owned' \in Nat
  BY TypeParts DEF WsInv, Plain, Store, PeerFrames
<1>4. TypeOK'
  BY <1>3, TypePartsPrimed DEF StackInv
<1>5. DataInv'
  BY <1>1 DEF WsInv, DataInv, Holdings, PeerFrames
<1> QED BY <1>2, <1>4, <1>5 DEF WsInv

\* teardown(): the pending buffers go back, the fragments too.
LEMMA TeardownKeeps ==
  ASSUME WsInv, NEW r, Rest(r), NEW s \in Down, Teardown(s, r),
         UNCHANGED <<setup, hasRecv, registered, awaiting>>,
         autoReconnect' \in BOOLEAN, delay' \in 0 .. DelayMax,
         first' = first \/ (first' \in {"upgrade", "frame"}
                              /\ (NoReconnector => first' = "upgrade")),
         Agrees(Elems(r), s, <<>>, recv', first', FALSE, NoReconnector),
         recv' \in Seq(PeerFrames \cup {"part", "full", "junk"}),
         NoReconnector => /\ recv' \in Seq(PeerFrames \cup {"part", "full"})
                          /\ recv' # <<>> => hasRecv
  PROVE  WsInv'
<1>1. NoReconnector' <=> NoReconnector
  BY DEF NoReconnector, CallbackOps
<1>2. StackInv' /\ Elems(stk') \ {"on_state"} = Elems(r) /\ state' = s
  BY SetStateStack DEF Teardown
<1>3. \A f \in Late \cup {"upgrade", "on_message", "on_fragments"} :
        f \in Elems(stk') <=> f \in Elems(r)
  BY <1>2 DEF Late
<1>4. AgreeInv'
  <2>1. pending' = <<>> /\ frag' = FALSE
    BY DEF Teardown
  <2> QED
    BY <1>1, <1>2, <1>3, <2>1 DEF AgreeInv, Agrees, Late
<1>5. Plain'
  <2>1. state' \in States
    BY <1>2 DEF Down, States
  <2>2. timer' \in Deadlines
    BY TypeParts, Zenon DEF WsInv, Plain, Deadlines, Teardown, Deadline
  <2>3. frag' \in BOOLEAN /\ transport' = "closed"
    BY Zenon DEF Teardown
  <2> QED BY <2>1, <2>2, <2>3, TypeParts DEF WsInv, Plain
<1>6. Store'
  BY EmptyStore DEF Store, Teardown, PeerFrames
<1>7. owned' = Holdings' /\ owned' \in Nat
  <2>1. /\ hasRecv \in BOOLEAN /\ frag \in BOOLEAN /\ Len(pending) \in Nat
        /\ Len(pending') = 0 /\ frag' = FALSE /\ hasRecv' = hasRecv
        /\ owned = Holdings
        /\ owned' = owned - Len(pending) - (IF frag THEN 1 ELSE 0)
    BY TypeParts DEF WsInv, Plain, Store, DataInv, Teardown
  <2> QED BY <2>1 DEF Holdings
<1>8. DataInv'
  <2>1. pending' = <<>> /\ Len(pending') <= 1
    BY DEF Teardown
  <2> QED BY <1>1, <1>2, <1>7, <2>1 DEF WsInv, DataInv, Down, PeerFrames
<1> QED BY <1>2, <1>4, <1>5, <1>6, <1>7, <1>8, TypePartsPrimed DEF WsInv, StackInv

\* enqueue_frame(): a buffer from the pool goes to the ring, or back when the
\* ring is full, or there is none and the session ends.
LEMMA EnqueueKeeps ==
  ASSUME WsInv, NEW r, Rest(r), NEW kind \in Kinds, EnqueueFrame(kind, r),
         UNCHANGED setup, autoReconnect' \in BOOLEAN,
         Agrees(Elems(r), state, pending, recv, first, frag, NoReconnector),
         "upgrade" \notin Elems(r),
         state = "Connecting" => pending = <<>> /\ "keepalive" \notin Elems(r),
         NoReconnector => first # "none"
  PROVE  WsInv'
<1>1. UNCHANGED <<state, transport, recv, hasRecv, frag, first, registered, delay,
                 awaiting, timer>>
  BY DEF EnqueueFrame
<1>2. /\ transport \in {"closed", "opening", "open"}
      /\ registered \in BOOLEAN /\ awaiting \in BOOLEAN
      /\ delay \in 0 .. DelayMax /\ timer \in Deadlines
  BY TypeParts DEF WsInv, Plain
<1>3. CASE stk' = r /\ UNCHANGED <<pending, owned>>
  <2>1. StackInv'
    BY <1>3 DEF StackInv, Rest
  <2> QED BY <1>1, <1>2, <1>3, <2>1, PassKeeps
<1>4. CASE /\ Len(pending) < MaxPending
           /\ pending' = Append(pending, kind)
           /\ owned' = owned + 1
           /\ stk' = <<"flush">> \o r
  <2>1. StackInv' /\ Elems(stk') = {"flush"} \cup Elems(r)
    <3>1. "flush" \in Upper BY DEF Upper, Neutral
    <3> QED BY <1>4, <3>1, PushUpper DEF StackInv
  <2>2. NoReconnector' <=> NoReconnector
    BY DEF NoReconnector, CallbackOps
  <2>3. /\ pending' \in Seq(Kinds) /\ Len(pending') = Len(pending) + 1 /\ Len(pending) \in Nat
        /\ Len(pending') <= MaxPending
        /\ pending = <<>> => Len(pending') <= 1
    BY <1>4, TypeParts, EmptyStore DEF WsInv, Store
  <2>4. \A f \in Late \cup {"upgrade", "on_message", "on_fragments"} :
          f \in Elems(stk') <=> f \in Elems(r)
    BY <2>1 DEF Late
  <2>5. AgreeInv'
    BY <1>1, <2>2, <2>4 DEF AgreeInv, Agrees, Late
  <2>6. Plain'
    BY <1>1, TypeParts DEF WsInv, Plain
  <2>7. Store'
    BY <1>1, <2>3, TypeParts DEF WsInv, Store, PeerFrames
  <2>8. owned' = Holdings' /\ owned' \in Nat
    <3>1. hasRecv \in BOOLEAN /\ frag \in BOOLEAN /\ owned = Holdings
      BY TypeParts DEF WsInv, Plain, DataInv
    <3> QED BY <1>1, <1>4, <2>3, <3>1 DEF Holdings
  <2>9. DataInv'
    BY <1>1, <2>2, <2>3, <2>8 DEF WsInv, DataInv, PeerFrames
  <2> QED BY <2>1, <2>5, <2>6, <2>7, <2>8, <2>9, TypePartsPrimed DEF WsInv, StackInv
<1> QED BY <1>3, <1>4 DEF EnqueueFrame

\* start_connect(), from connect(), on_ready() or a deadline.
LEMMA StartConnectKeeps ==
  ASSUME WsInv, NEW r, Rest(r), StartConnect(r), UNCHANGED <<setup, autoReconnect>>,
         delay' \in 0 .. DelayMax,
         Elems(r) \subseteq Elems(stk) \cup Neutral,
         "consume" \in Elems(r) => "parse" \in Elems(r),
         NoReconnector => Elems(r) \subseteq Neutral
  PROVE  WsInv'
<1>1. NoReconnector' <=> NoReconnector
  BY DEF NoReconnector, CallbackOps
<1>2. /\ StackInv' /\ state' \in {"Failed", "Connecting"}
      /\ Elems(stk') \subseteq Elems(r) \cup Neutral
      /\ Elems(r) \subseteq Elems(stk')
  <2>1. CASE SetState("Failed", r)
    BY <2>1, SetStateStack
  <2>2. CASE SetState("Connecting", <<"register">> \o r)
    <3>1. "register" \in Upper /\ "register" \in Lower /\ "register" \in Neutral
      BY DEF Upper, Neutral, Lower, Frames, Callbacks
    <3>2. Rest(<<"register">> \o r) /\ Elems(<<"register">> \o r) = {"register"} \cup Elems(r)
      BY <3>1, PushUpper
    <3> QED BY <2>2, <3>1, <3>2, SetStateStack
  <2> QED BY <2>1, <2>2 DEF StartConnect
<1>3. \A f \in Late \cup {"upgrade", "on_message", "on_fragments"} :
        /\ f \in Elems(stk') <=> f \in Elems(r)
        /\ f \in Elems(r) => f \in Elems(stk)
        /\ ~(f \in Elems(r) /\ f \in Callbacks)
        /\ f \notin Neutral
  BY <1>2 DEF Late, Neutral, Called, Callbacks, Rest, Lower
<1>4. pending' = <<>> /\ Len(pending') <= 1 /\ recv' = <<>> /\ frag' = FALSE
  BY DEF StartConnect
<1>5. AgreeInv'
  BY <1>1, <1>2, <1>3, <1>4 DEF AgreeInv, Agrees, WsInv, Late, Callbacks
<1>6. Plain'
  <2>1. state' \in States
    BY <1>2 DEF States
  <2>2. timer' \in Deadlines
    BY TypeParts, Zenon DEF WsInv, Plain, Deadlines, StartConnect, Deadline
  <2>3. frag' \in BOOLEAN /\ hasRecv' \in BOOLEAN
    BY Zenon DEF StartConnect
  <2>4. transport' \in {"closed", "opening", "open"} /\ first' \in {"none", "upgrade", "frame"}
        /\ registered' \in BOOLEAN /\ awaiting' \in BOOLEAN
    BY TypeParts DEF WsInv, Plain, StartConnect
  <2> QED BY <2>1, <2>2, <2>3, <2>4, TypeParts DEF WsInv, Plain
<1>7. Store'
  BY <1>4, EmptyStore DEF Store
<1>8. owned' = Holdings' /\ owned' \in Nat
  <2>1. owned - Holdings = 0
    BY TypeParts DEF WsInv, DataInv
  <2>2. \/ hasRecv' = FALSE /\ owned' = 0
        \/ hasRecv' = TRUE /\ owned' = 1
    BY <2>1 DEF StartConnect
  <2>3. Len(pending') = 0
    BY <1>4, EmptyStore
  <2> QED BY <1>4, <2>2, <2>3 DEF Holdings
<1>9. DataInv'
  <2>1. recv' \in Seq(PeerFrames' \cup {"part", "full"})
    BY <1>4, EmptyStore
  <2>2. NoReconnector => first' # "frame"
    BY DEF StartConnect, WsInv, DataInv
  <2> QED BY <1>1, <1>2, <1>4, <1>8, <2>1, <2>2 DEF WsInv, DataInv
<1> QED BY <1>2, <1>5, <1>6, <1>7, <1>8, <1>9, TypePartsPrimed DEF WsInv, StackInv

\* What a step leaves alone keeps its type.
LEMMA Typed ==
  ASSUME WsInv
  PROVE  /\ transport \in {"closed", "opening", "open"}
         /\ registered \in BOOLEAN /\ autoReconnect \in BOOLEAN /\ awaiting \in BOOLEAN
         /\ delay \in 0 .. DelayMax /\ timer \in Deadlines
         /\ recv \in Seq(PeerFrames \cup {"part", "full", "junk"})
         /\ pending \in Seq(Kinds) /\ Len(pending) \in Nat /\ Len(pending) <= MaxPending
         /\ hasRecv \in BOOLEAN /\ frag \in BOOLEAN
  BY TypeParts DEF WsInv, Plain, Store

\* A call of the API, from the step hook or from a callback.
LEMMA CallKeeps ==
  ASSUME WsInv, NEW r, Rest(r), UNCHANGED setup, NEW op, Call(op, r),
         Elems(r) \subseteq Elems(stk) \cup Neutral,
         Agrees(Elems(r), state, pending, recv, first, frag, NoReconnector),
         op = "connect" /\ NoReconnector => Elems(r) \subseteq Neutral
  PROVE  WsInv'
<1>1. "consume" \in Elems(r) => "parse" \in Elems(r)
  BY DEF Agrees
<1>2. CASE op = "connect" /\ Connect(r)
  BY <1>1, <1>2, Typed, StartConnectKeeps DEF Connect
<1>3. CASE Send(r)
  <2>1. CASE state = "Open" /\ EnqueueFrame("data", r)
    BY <1>3, <2>1, Typed, EnqueueKeeps DEF Send, Agrees, WsInv, DataInv, Kinds
  <2>2. CASE /\ state # "Open" /\ stk' = r
             /\ UNCHANGED <<state, transport, recv, hasRecv, frag, pending, owned, first,
                            registered, delay, awaiting, timer>>
    BY <1>3, <2>2, Typed, PassKeeps DEF Send, Rest, StackInv
  <2> QED BY <1>3, <2>1, <2>2 DEF Send
<1>4. CASE Close(r)
  <2>1. autoReconnect' \in BOOLEAN
    BY <1>4, Zenon DEF Close
  <2>2. CASE state = "Open" /\ EnqueueFrame("close", <<"closing">> \o r)
    <3> DEFINE q == <<"closing">> \o r
    <3>1. Rest(q) /\ Elems(q) = {"closing"} \cup Elems(r)
      BY FrameSets, PushUpper
    <3>2. NoReconnector => first # "none"
      BY <2>2 DEF WsInv, DataInv
    <3>3. Agrees(Elems(q), state, pending, recv, first, frag, NoReconnector)
          /\ "upgrade" \notin Elems(q)
      BY <2>2, <3>1, <3>2 DEF Agrees, Late
    <3> HIDE DEF q
    <3> QED BY <2>1, <2>2, <3>1, <3>2, <3>3, EnqueueKeeps DEF q, Kinds
  <2>3. CASE /\ state # "Open" /\ UNCHANGED delay
             /\ Teardown("Disconnected", r)
             /\ UNCHANGED <<recv, hasRecv, first, registered, awaiting>>
    <3>1. Agrees(Elems(r), "Disconnected", <<>>, recv', first', FALSE, NoReconnector)
      <4>1. Len(<<>>) <= 1 OBVIOUS
      <4>2. "on_message" \notin Elems(r) /\ "on_fragments" \notin Elems(r)
        BY DEF Rest, Lower, Callbacks
      <4> QED BY <2>3, <4>1, <4>2 DEF Agrees
    <3> QED BY <2>1, <2>3, <3>1, Typed, TeardownKeeps, Zenon DEF Down, WsInv, DataInv
  <2> QED BY <1>4, <2>2, <2>3 DEF Close
<1> QED BY <1>2, <1>3, <1>4 DEF Call

\* A frame whose last act is teardown().
LEMMA TailTeardown ==
  ASSUME WsInv, stk # <<>>, Head(stk) # "consume", NEW s \in Down, Teardown(s, Tail(stk)),
         UNCHANGED <<setup, autoReconnect, delay, recv, hasRecv, first, registered, awaiting>>
  PROVE  WsInv'
<1>1. Rest(Tail(stk)) /\ "on_message" \notin Elems(Tail(stk))
      /\ "on_fragments" \notin Elems(Tail(stk))
  BY PopFrame DEF Rest, Lower, Callbacks
<1>2. Agrees(Elems(Tail(stk)), s, <<>>, recv', first', FALSE, NoReconnector)
  <2>1. Len(<<>>) <= 1 OBVIOUS
  <2> QED BY <1>1, <2>1, TailAgrees DEF Agrees, Down
<1> QED BY <1>1, <1>2, Typed, TeardownKeeps, Zenon DEF WsInv, DataInv

\* A frame that only returns.
LEMMA TailPass ==
  ASSUME WsInv, stk # <<>>, Head(stk) # "consume", stk' = Tail(stk),
         UNCHANGED <<setup, state, transport, recv, hasRecv, frag, pending, owned, first, delay,
                     autoReconnect>>,
         registered' \in BOOLEAN, awaiting' \in BOOLEAN, timer' \in Deadlines
  PROVE  WsInv'
<1>1. StackInv'
  BY PopFrame DEF Rest, StackInv
<1> QED BY <1>1, TailAgrees, Typed, PassKeeps

\* flush_pending(): the ring is written, in part, or the connection is lost.
LEMMA FlushKeeps ==
  ASSUME WsInv, stk # <<>>, UNCHANGED setup, Flush
  PROVE  WsInv'
<1>1. Head(stk) = "flush"
  BY DEF Flush, FlushDone, FlushError, FlushPart, FlushAll
<1>2. CASE FlushDone
  BY <1>1, <1>2, Typed, TailPass DEF FlushDone
<1>3. CASE FlushError
  BY <1>1, <1>3, TailTeardown DEF FlushError, Down
<1>4. ASSUME FirstBytes, pending # <<>>
      PROVE  /\ first' # "none" /\ first' \in {"none", "upgrade", "frame"}
             /\ NoReconnector => first' # "frame"
             /\ first' = first \/ (first' \in {"upgrade", "frame"}
                              /\ (NoReconnector => first' = "upgrade"))
  BY <1>4, TypeParts DEF FirstBytes, WsInv, DataInv, Plain
<1>5. NoReconnector' <=> NoReconnector
  BY DEF NoReconnector, CallbackOps
<1>6. Rest(Tail(stk)) /\ "on_message" \notin Elems(Tail(stk))
      /\ "on_fragments" \notin Elems(Tail(stk))
      /\ Agrees(Elems(Tail(stk)), state, pending, recv, first, frag, NoReconnector)
  BY <1>1, PopFrame, TailAgrees DEF Rest, Lower, Callbacks
<1>7. CASE FlushPart
  <2>1. StackInv' /\ Elems(stk') = Elems(Tail(stk))
    BY <1>6, <1>7 DEF FlushPart, Rest, StackInv
  <2>2. AgreeInv'
    BY <1>4, <1>5, <1>6, <1>7, <2>1 DEF FlushPart, AgreeInv, Agrees
  <2>3. Plain' /\ Store' /\ owned' \in Nat
    BY <1>4, <1>7, TypeParts DEF FlushPart, WsInv, Plain, Store, PeerFrames
  <2>4. DataInv'
    BY <1>4, <1>5, <1>7 DEF FlushPart, WsInv, DataInv, Holdings, PeerFrames
  <2> QED BY <2>1, <2>2, <2>3, <2>4, TypePartsPrimed DEF WsInv, StackInv
<1>8. CASE FlushAll
  <2>1. CASE Teardown("Disconnected", Tail(stk))
    <3>1. Agrees(Elems(Tail(stk)), "Disconnected", <<>>, recv', first', FALSE, NoReconnector)
      <4>1. Len(<<>>) <= 1 OBVIOUS
      <4> QED BY <1>4, <1>6, <1>8, <4>1 DEF FlushAll, Agrees
    <3> QED
      BY <1>4, <1>6, <1>8, <2>1, <3>1, Typed, TeardownKeeps, Zenon DEF FlushAll, Down, WsInv, DataInv
  <2>2. CASE /\ pending' = Tail(pending) /\ owned' = owned - 1
             /\ UNCHANGED <<state, transport, frag, timer, stk>>
    <3>1. /\ pending # <<>> /\ UNCHANGED <<autoReconnect, delay, recv, hasRecv, registered, awaiting>>
          /\ FirstBytes
      BY <1>8 DEF FlushAll
    <3>2. /\ pending' \in Seq(Kinds) /\ Len(pending') = Len(pending) - 1
          /\ Len(pending) \in Nat /\ Len(pending) >= 1 /\ Len(pending) <= MaxPending
      BY <2>2, <3>1, Typed
    <3>3. AgreeInv' /\ StackInv'
      BY <1>4, <1>5, <2>2, <3>1, <3>2 DEF WsInv, AgreeInv, Agrees, StackInv
    <3>4. Plain'
      BY <1>4, <2>2, <3>1, TypeParts DEF WsInv, Plain
    <3>5. Store'
      BY <2>2, <3>1, <3>2, EmptyStore, TypeParts DEF WsInv, Store, PeerFrames
    <3>6. owned' = Holdings' /\ owned' \in Nat
      <4>1. hasRecv \in BOOLEAN /\ frag \in BOOLEAN /\ owned = Holdings
        BY TypeParts DEF WsInv, Plain, DataInv
      <4> QED BY <2>2, <3>1, <3>2, <4>1 DEF Holdings
    <3>7. DataInv'
      BY <1>4, <1>5, <2>2, <3>1, <3>2, <3>6 DEF WsInv, DataInv, PeerFrames
    <3> QED BY <3>3, <3>4, <3>5, <3>6, <3>7, TypePartsPrimed DEF WsInv, StackInv
  <2> QED BY <1>8, <2>1, <2>2 DEF FlushAll
<1> QED BY <1>2, <1>3, <1>7, <1>8 DEF Flush

\* A step that changes the receive buffer and the state, and no pending buffer.
LEMMA StoreKeeps ==
  ASSUME WsInv,
         UNCHANGED <<setup, hasRecv, frag, pending, owned, first, registered, autoReconnect,
                     awaiting, timer>>,
         state' \in States, transport' \in {"closed", "opening", "open"},
         delay' \in 0 .. DelayMax, StackInv',
         Agrees(Elems(stk'), state', pending, recv', first, frag, NoReconnector),
         state' = "Connecting" => Len(pending) <= 1,
         recv' \in Seq(PeerFrames \cup {"part", "full", "junk"}),
         NoReconnector => /\ recv' \in Seq(PeerFrames \cup {"part", "full"})
                          /\ recv' # <<>> => hasRecv
                          /\ state' \in {"Open", "Closing"} => first # "none"
  PROVE  WsInv'
<1>1. NoReconnector' <=> NoReconnector
  BY DEF NoReconnector, CallbackOps
<1>2. AgreeInv'
  BY <1>1 DEF AgreeInv, Agrees
<1>3. Plain'
  BY TypeParts DEF WsInv, Plain
<1>4. Store' /\ owned' \in Nat
  BY TypeParts DEF WsInv, Store, PeerFrames
<1>5. DataInv'
  BY <1>1 DEF WsInv, DataInv, Holdings, PeerFrames
<1> QED BY <1>2, <1>3, <1>4, <1>5, TypePartsPrimed DEF WsInv, StackInv

\* What a read can bring.
LEMMA ChunkTypes ==
  ASSUME WsInv, NEW c \in Chunks
  PROVE  /\ c \in Seq(PeerFrames \cup {"part", "full"})
         /\ c \in Seq(PeerFrames \cup {"part", "full", "junk"})
<1>1. setup.read \in Nat
  BY WsConstants DEF WsInv, TypeOK
<1>2. \A n \in 0 .. setup.read : \A w \in [1 .. n -> PeerFrames] : w \in Seq(PeerFrames)
  BY <1>1
<1>3. c \in Seq(PeerFrames)
      \/ \E w \in Seq(PeerFrames), p \in {"part", "full"} : c = Append(w, p)
  <2> DEFINE whole == UNION {[1 .. n -> PeerFrames] : n \in 0 .. setup.read}
  <2>1. \A w \in whole : w \in Seq(PeerFrames)
    BY <1>2
  <2>2. c \in whole \/ \E w \in whole, p \in {"part", "full"} : c = Append(w, p)
    <3>1. Chunks = whole \cup {Append(w, p) : w \in whole, p \in {"part", "full"}}
      BY DEF Chunks
    <3> HIDE DEF whole
    <3> QED BY <3>1
  <2> QED BY <2>1, <2>2
<1>4. \A w \in Seq(PeerFrames) :
        w \in Seq(PeerFrames \cup {"part", "full"})
        /\ w \in Seq(PeerFrames \cup {"part", "full", "junk"})
  OBVIOUS
<1> QED BY <1>3, <1>4

\* A read that brings no bytes: again, the end of the stream, or an error.
LEMMA ReadNothingKeeps ==
  ASSUME WsInv, UNCHANGED setup, NEW then, Rest(then), ReadNothing(then),
         UNCHANGED <<recv, hasRecv, first, registered, autoReconnect, delay, awaiting>>,
         Agrees(Elems(then), state, pending, recv, first, frag, NoReconnector),
         "on_fragments" \notin Elems(then)
  PROVE  WsInv'
<1>1. ASSUME NEW s \in Down, Teardown(s, then)
      PROVE  WsInv'
  <2>1. Agrees(Elems(then), s, <<>>, recv', first', FALSE, NoReconnector)
    <3>1. Len(<<>>) <= 1 OBVIOUS
    <3> QED BY <3>1 DEF Agrees, Down
  <2> QED BY <1>1, <2>1, Typed, TeardownKeeps, Zenon DEF WsInv, DataInv
<1>2. CASE stk' = then /\ UNCHANGED <<state, transport, frag, pending, owned, timer>>
  <2>1. StackInv'
    BY <1>2 DEF Rest, StackInv
  <2> QED BY <1>2, <2>1, Typed, PassKeeps
<1> QED BY <1>1, <1>2 DEF ReadNothing, Down

\* read(): bytes are appended to the receive buffer.
LEMMA ReadKeeps ==
  ASSUME WsInv, stk # <<>>, UNCHANGED setup, Read
  PROVE  WsInv'
<1>1. Head(stk) = "read"
  BY DEF Read, SkipRead, UpgradeReadNothing, UpgradeRead, FrameReadNothing, FrameRead
<1>2. /\ Rest(Tail(stk)) /\ Elems(Tail(stk)) = {} /\ Elems(stk) = {"read"}
  BY <1>1, PopFrame, FrameSets
<1>3. Agrees(Elems(Tail(stk)), state, pending, recv, first, frag, NoReconnector)
  BY <1>1, TailAgrees
<1>4. CASE SkipRead
  BY <1>1, <1>4, Typed, TailPass DEF SkipRead
<1>5. CASE UpgradeReadNothing
  BY <1>2, <1>3, <1>5, ReadNothingKeeps DEF UpgradeReadNothing
<1>6. CASE UpgradeRead
  <2>0. /\ UNCHANGED <<hasRecv, first, registered, autoReconnect, awaiting>>
        /\ hasRecv /\ state = "Upgrading" /\ transport = "open"
    BY <1>6 DEF UpgradeRead, Full
  <2>1. CASE /\ recv' \in {<<"part">>, <<"full">>} /\ stk' = Tail(stk)
             /\ UNCHANGED <<state, transport, frag, pending, owned, delay, timer>>
    <3>1. /\ recv' \in Seq(PeerFrames \cup {"part", "full", "junk"})
          /\ recv' \in Seq(PeerFrames \cup {"part", "full"})
      <4>1. CASE recv' = <<"part">> BY <4>1
      <4>2. CASE recv' = <<"full">> BY <4>2
      <4> QED BY <2>1, <4>1, <4>2
    <3>2. StackInv' /\ Elems(stk') = {}
      BY <1>2, <2>1 DEF StackInv, Rest
    <3>3. Agrees(Elems(stk'), state', pending, recv', first, frag, NoReconnector)
      BY <2>0, <2>1, <3>2 DEF Agrees
    <3> QED BY <2>0, <2>1, <3>1, <3>2, <3>3, Typed, StoreKeeps DEF States
  <2>2. CASE recv' = <<"part">> /\ UNCHANGED delay /\ Teardown("Failed", Tail(stk))
    <3>1. /\ recv' \in Seq(PeerFrames \cup {"part", "full", "junk"})
          /\ recv' \in Seq(PeerFrames \cup {"part", "full"})
      BY <2>2
    <3>2. Agrees(Elems(Tail(stk)), "Failed", <<>>, recv', first', FALSE, NoReconnector)
      BY <1>2 DEF Agrees
    <3> QED BY <1>2, <2>0, <2>2, <3>1, <3>2, Typed, TeardownKeeps, Zenon DEF Down
  <2>3. CASE /\ first # "none" /\ recv' \in Chunks /\ delay' = 0
             /\ SetState("Open", <<"opened">> \o Tail(stk))
             /\ UNCHANGED <<transport, frag, pending, owned, timer>>
    <3>1. /\ recv' \in Seq(PeerFrames \cup {"part", "full", "junk"})
          /\ recv' \in Seq(PeerFrames \cup {"part", "full"})
      BY <2>3, ChunkTypes
    <3>2. Rest(<<"opened">> \o Tail(stk)) /\ Elems(<<"opened">> \o Tail(stk)) = {"opened"}
      <4>1. "opened" \in Lower /\ "opened" \in Frames
        BY FrameSets
      <4> QED BY <1>2, <4>1, PushFrame
    <3>3. StackInv' /\ Elems(stk') \subseteq {"opened", "on_state"} /\ state' = "Open"
      BY <2>3, <3>2, SetStateStack
    <3>4. Agrees(Elems(stk'), state', pending, recv', first, frag, NoReconnector)
      BY <2>3, <3>3 DEF Agrees
    <3>5. delay' \in 0 .. DelayMax
      BY <2>3, WsConstants
    <3> QED BY <2>0, <2>3, <3>1, <3>3, <3>4, <3>5, StoreKeeps DEF States
  <2> QED BY <1>6, <2>1, <2>2, <2>3 DEF UpgradeRead
<1>7. "keepalive" \in Lower /\ "keepalive" \in Frames
      /\ Rest(<<"keepalive">> \o Tail(stk)) /\ Elems(<<"keepalive">> \o Tail(stk)) = {"keepalive"}
  <2>1. "keepalive" \in Lower /\ "keepalive" \in Frames
    BY FrameSets
  <2> QED BY <1>2, <2>1, PushFrame
<1>8. CASE FrameReadNothing
  <2>1. Agrees(Elems(<<"keepalive">> \o Tail(stk)), state, pending, recv, first, frag,
               NoReconnector)
    BY <1>7, <1>8 DEF FrameReadNothing, Agrees, WsInv, DataInv
  <2> QED BY <1>7, <1>8, <2>1, ReadNothingKeeps DEF FrameReadNothing
<1>9. CASE FrameRead
  <2> DEFINE q == <<"keepalive">> \o Tail(stk)
  <2>1. <<"parse", "keepalive">> \o Tail(stk) = <<"parse">> \o q
    BY <1>2, <1>7, FrameSets, Push2 DEF Rest
  <2>2. StackInv' /\ Elems(stk') = {"parse", "keepalive"}
    <3>1. "parse" \in Frames /\ Below["parse"] = {"keepalive"}
      BY FrameSets
    <3>2. stk' = <<"parse">> \o q
      BY <1>9, <2>1 DEF FrameRead
    <3>3. Rest(q) /\ Elems(q) = {"keepalive"}
      BY <1>7
    <3> HIDE DEF q
    <3> QED BY <3>1, <3>2, <3>3, PushFrame DEF StackInv
  <2>3. /\ recv' \in Seq(PeerFrames \cup {"part", "full", "junk"})
        /\ recv' \in Seq(PeerFrames \cup {"part", "full"})
    BY <1>9, ChunkTypes DEF FrameRead
  <2>4. state \in {"Open", "Closing"} /\ hasRecv /\ (NoReconnector => first # "none")
    BY <1>9 DEF FrameRead, Full, WsInv, DataInv
  <2>5. Agrees(Elems(stk'), state, pending, recv', first, frag, NoReconnector)
    BY <2>2, <2>4 DEF Agrees
  <2>6. UNCHANGED <<state, transport, hasRecv, frag, pending, owned, first, registered,
                 autoReconnect, delay, awaiting, timer>>
    BY <1>9 DEF FrameRead
  <2> HIDE DEF q
  <2> QED BY <2>2, <2>3, <2>4, <2>5, <2>6, Typed, StoreKeeps DEF States
<1> QED BY <1>4, <1>5, <1>6, <1>8, <1>9 DEF Read

\* What is known when a whole frame is at the head of the receive buffer.
LEMMA ParseFacts ==
  ASSUME WsInv, stk # <<>>, Head(stk) = "parse", recv # <<>>
  PROVE  /\ state # "Connecting" /\ (NoReconnector => first # "none" /\ hasRecv)
         /\ "upgrade" \notin Elems(Dispatched)
         /\ Rest(Dispatched) /\ Elems(Dispatched) = {"consume", "parse"} \cup Elems(Tail(stk))
         /\ Elems(Tail(stk)) \subseteq {"keepalive"}
         /\ Agrees(Elems(Dispatched), state, pending, recv, first, frag, NoReconnector)
<1>1. /\ Rest(Tail(stk)) /\ Elems(Tail(stk)) \subseteq {"keepalive"}
      /\ Elems(stk) = {"parse"} \cup Elems(Tail(stk))
  BY PopFrame, FrameSets
<1>2. /\ "parse" \in Frames /\ "parse" \in Lower /\ Below["parse"] = {"keepalive"}
      /\ "consume" \in Frames /\ "consume" \in Lower /\ Below["consume"] = {"parse", "keepalive"}
  BY FrameSets
<1> DEFINE q == <<"parse">> \o Tail(stk)
<1>3. Rest(q) /\ Elems(q) = {"parse"} \cup Elems(Tail(stk))
  BY <1>1, <1>2, PushFrame
<1>4. Dispatched = <<"consume">> \o q
  BY <1>1, <1>2, Push2 DEF Dispatched, Rest
<1> HIDE DEF q
<1>5. Rest(Dispatched) /\ Elems(Dispatched) = {"consume", "parse"} \cup Elems(Tail(stk))
  <2>1. Elems(q) \subseteq Below["consume"]
    BY <1>1, <1>2, <1>3
  <2> QED BY <1>2, <1>3, <1>4, <2>1, PushFrame
<1>6. state # "Connecting" /\ (NoReconnector => first # "none" /\ hasRecv)
  BY <1>1 DEF WsInv, AgreeInv, Agrees, DataInv, Late
<1>7. Agrees(Elems(Dispatched), state, pending, recv, first, frag, NoReconnector)
  BY <1>1, <1>5, <1>6 DEF Agrees
<1> QED BY <1>1, <1>5, <1>6, <1>7

\* A frame that ends the session: a bad one, or a close.
LEMMA DispatchedTeardown ==
  ASSUME WsInv, stk # <<>>, Head(stk) = "parse", recv # <<>>, NEW s \in Down,
         Teardown(s, Dispatched),
         UNCHANGED <<setup, recv, hasRecv, first, registered, autoReconnect, delay, awaiting>>
  PROVE  WsInv'
<1>1. Agrees(Elems(Dispatched), s, <<>>, recv', first', FALSE, NoReconnector)
  <2>1. Len(<<>>) <= 1 OBVIOUS
  <2> QED BY <2>1, ParseFacts DEF Agrees, Down
<1> QED BY <1>1, ParseFacts, Typed, TeardownKeeps, Zenon DEF WsInv, DataInv

\* The fragments of a message, collected in a buffer of their own.
LEMMA FragmentKeeps ==
  ASSUME WsInv, stk # <<>>, UNCHANGED setup,
         BeginFragment \/ \E fin \in BOOLEAN : AppendFragment(fin)
  PROVE  WsInv'
<1>1. Head(stk) = "parse" /\ recv # <<>>
      /\ UNCHANGED <<recv, hasRecv, first, registered, autoReconnect, delay, awaiting>>
  BY DEF BeginFragment, AppendFragment, Parsing
<1>2. CASE Teardown("Failed", Dispatched)
  BY <1>1, <1>2, DispatchedTeardown DEF Down
<1>3. CASE /\ frag' = TRUE
           /\ owned' = IF frag THEN owned ELSE owned + 1
           /\ stk' = Dispatched
           /\ UNCHANGED <<state, transport, pending, timer>>
  <2>1. StackInv' /\ Agrees(Elems(stk'), state, pending, recv, first, frag, NoReconnector)
        /\ "on_fragments" \notin Elems(stk')
    BY <1>1, <1>3, ParseFacts DEF StackInv, Rest
  <2>2. NoReconnector' <=> NoReconnector
    BY DEF NoReconnector, CallbackOps
  <2>3. AgreeInv'
    BY <1>1, <1>3, <2>1, <2>2 DEF AgreeInv, Agrees
  <2>4. Plain'
    <3>1. frag' \in BOOLEAN
      BY <1>3, Zenon
    <3> QED BY <1>1, <1>3, <3>1, TypeParts DEF WsInv, Plain
  <2>5. Store'
    BY <1>1, <1>3, TypeParts DEF WsInv, Store, PeerFrames
  <2>6. owned' = Holdings' /\ owned' \in Nat
    <3>1. hasRecv \in BOOLEAN /\ frag \in BOOLEAN /\ owned = Holdings /\ Len(pending) \in Nat
      BY Typed DEF WsInv, DataInv
    <3> QED BY <1>1, <1>3, <3>1 DEF Holdings
  <2>7. DataInv'
    BY <1>1, <1>3, <2>2, <2>6 DEF WsInv, DataInv, PeerFrames
  <2> QED BY <2>1, <2>3, <2>4, <2>5, <2>6, <2>7, TypePartsPrimed DEF WsInv, StackInv
<1>4. CASE /\ stk' = Dispatched
           /\ UNCHANGED <<state, transport, frag, pending, owned, timer>>
  <2>1. StackInv' /\ Agrees(Elems(stk'), state, pending, recv, first, frag, NoReconnector)
    BY <1>1, <1>4, ParseFacts DEF StackInv, Rest
  <2> QED BY <1>1, <1>4, <2>1, Typed, PassKeeps
<1>5. CASE /\ frag /\ stk' = <<"on_fragments", "frag_done">> \o Dispatched
           /\ UNCHANGED <<state, transport, frag, pending, owned, timer>>
  <2> DEFINE q == <<"frag_done">> \o Dispatched
  <2>1. "frag_done" \in Upper /\ "frag_done" \in Lower /\ "frag_done" \in Frames
        /\ "on_fragments" \in Upper /\ "on_fragments" \in Frames
    BY DEF Upper, Neutral, Lower, Frames, Callbacks
  <2>2. Rest(Dispatched) /\ Dispatched \in Seq(Frames)
    BY <1>1, ParseFacts DEF Rest
  <2>3. Rest(q) /\ Elems(q) = {"frag_done"} \cup Elems(Dispatched)
    BY <2>1, <2>2, PushUpper
  <2>4. stk' = <<"on_fragments">> \o q
    BY <1>5, <2>1, <2>2, Push2
  <2> HIDE DEF q
  <2>5. StackInv' /\ Elems(stk') = {"on_fragments", "frag_done"} \cup Elems(Dispatched)
    BY <2>1, <2>3, <2>4, PushUpper DEF StackInv
  <2>6. Agrees(Elems(stk'), state, pending, recv, first, frag, NoReconnector)
    BY <1>1, <1>5, <2>5, ParseFacts DEF Agrees, Late
  <2> QED BY <1>1, <1>5, <2>5, <2>6, Typed, PassKeeps
<1> QED BY <1>2, <1>3, <1>4, <1>5, Zenon DEF BeginFragment, AppendFragment

\* The fragment buffer goes back after the callback.
LEMMA FragDoneKeeps ==
  ASSUME WsInv, stk # <<>>, UNCHANGED setup, FragDone
  PROVE  WsInv'
<1>1. /\ Head(stk) = "frag_done" /\ frag' = FALSE
      /\ owned' = owned - (IF frag THEN 1 ELSE 0)
      /\ stk' = Tail(stk)
      /\ UNCHANGED <<state, transport, recv, hasRecv, pending, first, registered,
                     autoReconnect, delay, awaiting, timer>>
  BY DEF FragDone
<1>2. StackInv' /\ "on_fragments" \notin Elems(stk')
      /\ Agrees(Elems(stk'), state, pending, recv, first, frag, NoReconnector)
  BY <1>1, PopFrame, TailAgrees DEF Rest, StackInv, Lower, Callbacks
<1>3. NoReconnector' <=> NoReconnector
  BY DEF NoReconnector, CallbackOps
<1>4. AgreeInv'
  BY <1>1, <1>2, <1>3 DEF AgreeInv, Agrees
<1>5. Plain'
  <2>1. frag' \in BOOLEAN
    BY <1>1, Zenon
  <2> QED BY <1>1, <2>1, TypeParts DEF WsInv, Plain
<1>6. Store'
  BY <1>1, TypeParts DEF WsInv, Store, PeerFrames
<1>7. owned' = Holdings' /\ owned' \in Nat
  <2>1. hasRecv \in BOOLEAN /\ frag \in BOOLEAN /\ owned = Holdings /\ Len(pending) \in Nat
    BY Typed DEF WsInv, DataInv
  <2>2. CASE frag
    BY <1>1, <2>1, <2>2 DEF Holdings
  <2>3. CASE ~frag
    BY <1>1, <2>1, <2>3 DEF Holdings
  <2> QED BY <2>2, <2>3
<1>8. DataInv'
  BY <1>1, <1>3, <1>7 DEF WsInv, DataInv, PeerFrames
<1> QED BY <1>2, <1>4, <1>5, <1>6, <1>7, <1>8, TypePartsPrimed DEF WsInv, StackInv

\* A frame that was handled leaves the receive buffer.
LEMMA ConsumeKeeps ==
  ASSUME WsInv, stk # <<>>, UNCHANGED setup, Consume
  PROVE  WsInv'
<1>1. /\ Head(stk) = "consume"
      /\ recv' = IF recv = <<>> THEN <<"junk">> ELSE Tail(recv)
      /\ stk' = IF state \in {"Open", "Closing"} THEN Tail(stk) ELSE Tail(Tail(stk))
      /\ UNCHANGED <<state, transport, hasRecv, frag, pending, owned, first, registered,
                     autoReconnect, delay, awaiting, timer>>
  BY DEF Consume
<1> DEFINE t == Tail(stk)
<1>2. /\ Rest(t) /\ Elems(t) \subseteq {"parse", "keepalive"}
      /\ Elems(stk) = {"consume"} \cup Elems(t)
  BY <1>1, PopFrame, FrameSets, Zenon
<1>3. "parse" \in Elems(t)
  BY <1>2 DEF WsInv, AgreeInv, Agrees
<1>4. /\ Rest(Tail(t)) /\ Elems(Tail(t)) \subseteq {"keepalive"}
      /\ Elems(Tail(t)) \subseteq Elems(t)
  <2> HIDE DEF t
  <2>1. t \in Seq(Frames) /\ t # <<>> /\ Nested(t, Below)
    BY <1>2, <1>3, EmptyStack DEF Rest
  <2>2. /\ Head(t) \in Frames /\ Tail(t) \in Seq(Frames) /\ Nested(Tail(t), Below)
        /\ Elems(t) = {Head(t)} \cup Elems(Tail(t))
        /\ Elems(Tail(t)) \subseteq Below[Head(t)]
    BY <2>1, Pop
  <2>3. Head(t) \in {"parse", "keepalive"}
    BY <1>2, <2>2
  <2>4. Elems(Tail(t)) \subseteq {"keepalive"}
    BY <1>3, <2>2, <2>3, FrameSets
  <2> QED BY <1>2, <2>2, <2>4 DEF Rest
<1>5. StackInv' /\ Elems(stk') \subseteq {"parse", "keepalive"}
      /\ (state \notin {"Open", "Closing"} => Elems(stk') \subseteq {"keepalive"})
  BY <1>1, <1>2, <1>4 DEF StackInv, Rest
<1>6. NoReconnector => first # "none" /\ recv # <<>> /\ hasRecv
  BY <1>2 DEF WsInv, AgreeInv, Agrees, DataInv, Late
<1>7. state = "Connecting" /\ "keepalive" \in Elems(stk') => pending = <<>>
  BY <1>1, <1>2, <1>4 DEF WsInv, AgreeInv, Agrees
<1>8. Agrees(Elems(stk'), state, pending, recv', first, frag, NoReconnector)
  BY <1>5, <1>6, <1>7 DEF Agrees
<1>9. /\ recv' \in Seq(PeerFrames \cup {"part", "full", "junk"})
      /\ NoReconnector => recv' \in Seq(PeerFrames \cup {"part", "full"})
  <2>1. CASE recv = <<>>
    BY <1>1, <1>6, <2>1
  <2>2. CASE recv # <<>>
    BY <1>1, <2>2, Typed DEF WsInv, DataInv
  <2> QED BY <2>1, <2>2
<1> HIDE DEF t
<1>10. state \in States
  BY DEF WsInv, TypeOK
<1> QED BY <1>1, <1>5, <1>6, <1>8, <1>9, <1>10, Typed, StoreKeeps, Zenon DEF WsInv, DataInv

\* parse_frames(), one frame.
LEMMA ParseKeeps ==
  ASSUME WsInv, stk # <<>>, UNCHANGED setup, Parse
  PROVE  WsInv'
<1>1. CASE ParseEnd
  BY <1>1, Typed, TailPass DEF ParseEnd
<1>2. CASE ParseBad
  BY <1>2, TailTeardown DEF ParseBad, Parsing, Down
<1>3. CASE ParseJunk
  <2>1. /\ Head(stk) = "parse" /\ recv # <<>> /\ Head(recv) = "junk" /\ recv' \in Chunks
        /\ UNCHANGED <<state, transport, hasRecv, frag, pending, owned, first, registered,
                       autoReconnect, delay, awaiting, timer, stk>>
    BY <1>3 DEF ParseJunk, Parsing
  <2>2. /\ recv' \in Seq(PeerFrames \cup {"part", "full", "junk"})
        /\ recv' \in Seq(PeerFrames \cup {"part", "full"})
    BY <2>1, ChunkTypes
  <2>3. ~NoReconnector
    <3>1. "junk" \notin PeerFrames
      BY WsConstants DEF WsInv, TypeOK, PeerFrames, PeerKinds
    <3>2. SUFFICES ASSUME NoReconnector PROVE FALSE
      OBVIOUS
    <3>3. recv \in Seq(PeerFrames \cup {"part", "full"})
      BY <3>2 DEF WsInv, DataInv
    <3>4. Head(recv) \in PeerFrames \cup {"part", "full"}
      BY <2>1, <3>3
    <3> QED BY <2>1, <3>1, <3>4
  <2>4. state # "Connecting" /\ state \in States
    BY <2>1, ParseFacts DEF WsInv, TypeOK
  <2>5. StackInv' /\ Agrees(Elems(stk'), state', pending, recv', first, frag, NoReconnector)
    BY <2>1, <2>3, <2>4 DEF WsInv, AgreeInv, Agrees, StackInv
  <2> QED BY <2>1, <2>2, <2>3, <2>4, <2>5, Typed, StoreKeeps
<1>4. CASE DispatchMessage
  <2>1. /\ Head(stk) = "parse" /\ recv # <<>> /\ stk' = <<"on_message">> \o Dispatched
        /\ UNCHANGED <<state, transport, recv, hasRecv, frag, pending, owned, first, registered,
                       autoReconnect, delay, awaiting, timer>>
    BY <1>4 DEF DispatchMessage, Parsing
  <2>2. StackInv' /\ Elems(stk') = {"on_message"} \cup Elems(Dispatched)
    BY <2>1, ParseFacts, PushUpper DEF StackInv, Upper
  <2>3. Agrees(Elems(stk'), state, pending, recv, first, frag, NoReconnector)
    BY <2>1, <2>2, ParseFacts DEF Agrees, Late
  <2> QED BY <2>1, <2>2, <2>3, Typed, PassKeeps
<1>5. CASE BeginFragment \/ \E fin \in BOOLEAN : AppendFragment(fin)
  BY <1>5, FragmentKeeps
<1>6. CASE FragDone
  BY <1>6, FragDoneKeeps
<1>7. CASE DispatchPing
  BY <1>7, ParseFacts, EnqueueKeeps, Typed DEF DispatchPing, Parsing, Kinds
<1>8. CASE DispatchPong
  <2>1. awaiting' \in BOOLEAN
    BY <1>8, Zenon DEF DispatchPong
  <2>2. StackInv' /\ Agrees(Elems(stk'), state, pending, recv, first, frag, NoReconnector)
    BY <1>8, ParseFacts DEF DispatchPong, Parsing, StackInv, Rest
  <2> QED BY <1>8, <2>1, <2>2, Typed, PassKeeps DEF DispatchPong
<1>9. CASE DispatchClose
  BY <1>9, DispatchedTeardown DEF DispatchClose, Parsing, Down
<1>10. CASE Consume
  BY <1>10, ConsumeKeeps
<1> QED BY <1>1, <1>2, <1>3, <1>4, <1>5, <1>6, <1>7, <1>8, <1>9, <1>10 DEF Parse

\* A new session.
LEMMA WsInit == Init => WsInv
<1> SUFFICES ASSUME Init PROVE WsInv
  OBVIOUS
<1>1. Plain
  <2>1. timer \in Deadlines
    BY DEF Init, Deadlines
  <2>2. delay \in 0 .. DelayMax
    BY WsConstants DEF Init
  <2>3. hasRecv \in BOOLEAN /\ frag \in BOOLEAN /\ registered \in BOOLEAN /\ awaiting \in BOOLEAN
        /\ autoReconnect \in BOOLEAN
    BY Zenon DEF Init
  <2> QED BY <2>1, <2>2, <2>3 DEF Init, Plain, States
<1>2. Store
  BY EmptyStore DEF Init, Store
<1>3. StackInv /\ Elems(stk) = {}
  BY EmptyStack DEF Init, StackInv
<1>4. AgreeInv
  BY <1>3 DEF AgreeInv, Agrees, Init
<1>5. owned = Holdings /\ owned \in Nat
  BY EmptyStore DEF Init, Holdings
<1>6. DataInv
  BY <1>5, EmptyStore DEF DataInv, Init
<1> QED BY <1>1, <1>2, <1>3, <1>4, <1>5, <1>6, TypeParts DEF WsInv, StackInv

\* check_timeouts(): the deadlines of connecting, pings and reconnecting.
LEMMA CheckTimeoutsKeeps ==
  ASSUME WsInv, stk = <<>>, UNCHANGED setup, NEW r, Rest(r), CheckTimeouts(r),
         Elems(r) \subseteq {"ready"}
  PROVE  WsInv'
<1>1. UNCHANGED <<autoReconnect, delay, recv, hasRecv, first, registered, awaiting>>
  BY DEF CheckTimeouts
<1>2. \A st, pd, rv, fi, fr : Agrees(Elems(r), st, pd, rv, fi, fr, NoReconnector)
  BY DEF Agrees, Late
<1>3. CASE Teardown("Failed", r)
  BY <1>1, <1>2, <1>3, Typed, TeardownKeeps, Zenon DEF Down, WsInv, DataInv
<1>4. CASE stk' = r /\ UNCHANGED <<state, transport, pending, frag, owned, timer>>
  <2>1. StackInv'
    BY <1>4 DEF StackInv, Rest
  <2> QED BY <1>1, <1>2, <1>4, <2>1, Typed, PassKeeps
<1> QED BY <1>3, <1>4 DEF CheckTimeouts

\* The destructor gives every buffer back.
LEMMA DestroyKeeps ==
  ASSUME WsInv, Destroy
  PROVE  WsInv'
<1>1. /\ state' = "Destroyed" /\ transport' = "closed" /\ registered' = FALSE
      /\ recv' = <<>> /\ hasRecv' = FALSE /\ frag' = FALSE /\ pending' = <<>>
      /\ owned' = owned - Holdings
      /\ UNCHANGED <<setup, first, autoReconnect, delay, awaiting, timer, stk>>
      /\ stk = <<>>
  BY DEF Destroy, Idle
<1>2. StackInv' /\ Elems(stk') = {}
  BY <1>1, EmptyStack DEF StackInv
<1>3. AgreeInv'
  BY <1>2 DEF AgreeInv, Agrees
<1>4. Plain'
  <2>1. hasRecv' \in BOOLEAN /\ frag' \in BOOLEAN /\ registered' \in BOOLEAN
    BY <1>1, Zenon
  <2> QED BY <1>1, <2>1, TypeParts DEF WsInv, Plain, States
<1>5. Store'
  BY <1>1, EmptyStore DEF Store
<1>6. owned' = Holdings' /\ owned' \in Nat
  <2>1. owned - Holdings = 0
    BY TypeParts DEF WsInv, DataInv
  <2> QED BY <1>1, <2>1, EmptyStore DEF Holdings
<1>7. DataInv'
  <2>1. recv' \in Seq(PeerFrames' \cup {"part", "full"})
    BY <1>1, EmptyStore
  <2>2. NoReconnector' <=> NoReconnector
    BY <1>1 DEF NoReconnector, CallbackOps
  <2> QED BY <1>1, <1>6, <2>1, <2>2 DEF WsInv, DataInv
<1> QED BY <1>2, <1>3, <1>4, <1>5, <1>6, <1>7, TypePartsPrimed DEF WsInv, StackInv

\* The end of close(), after its callback.
LEMMA ClosingKeeps ==
  ASSUME WsInv, stk # <<>>, UNCHANGED setup, Closing
  PROVE  WsInv'
<1>1. /\ Head(stk) = "closing" /\ SetState("Closing", Tail(stk))
      /\ UNCHANGED <<transport, recv, hasRecv, frag, pending, owned, first, registered,
                     autoReconnect, delay, awaiting, timer>>
  BY DEF Closing
<1>2. Rest(Tail(stk)) /\ Elems(stk) = {"closing"} \cup Elems(Tail(stk))
  BY <1>1, PopFrame
<1>3. StackInv' /\ Elems(stk') \subseteq Elems(Tail(stk)) \cup Neutral /\ state' = "Closing"
      /\ Elems(stk') \ {"on_state"} = Elems(Tail(stk))
  BY <1>1, <1>2, SetStateStack
<1>4. "upgrade" \notin Elems(Tail(stk)) /\ (NoReconnector => first # "none")
  BY <1>2 DEF WsInv, AgreeInv, Agrees, Late
<1>5. Agrees(Elems(Tail(stk)), state, pending, recv, first, frag, NoReconnector)
  BY <1>1, TailAgrees
<1>6. \A f \in Late \cup {"upgrade", "on_message", "on_fragments"} :
        f \in Elems(stk') <=> f \in Elems(Tail(stk))
  BY <1>3 DEF Late
<1>7. Agrees(Elems(stk'), state', pending, recv', first, frag, NoReconnector)
  BY <1>1, <1>3, <1>4, <1>5, <1>6 DEF Agrees, Late
<1> QED BY <1>1, <1>3, <1>4, <1>7, Typed, StoreKeeps, Zenon DEF States, WsInv, DataInv

\* on_ready(): reconnecting, opening the transport, or reading and writing.
LEMMA ReadyKeeps ==
  ASSUME WsInv, stk # <<>>, UNCHANGED setup, MaybeReconnect \/ PollOpen \/ ReadyIo
  PROVE  WsInv'
<1>1. Head(stk) = "ready"
  BY Zenon DEF MaybeReconnect, PollOpen, ReadyIo
<1>2. Rest(Tail(stk)) /\ Elems(Tail(stk)) = {} /\ Elems(stk) = {"ready"}
  BY <1>1, PopFrame, FrameSets, Zenon
<1>3. CASE MaybeReconnect
  <2>1. CASE delay' = NextDelay /\ StartConnect(Tail(stk))
    <3>1. delay' \in 0 .. DelayMax
      BY <2>1, WsConstants, Typed DEF NextDelay
    <3> QED BY <1>2, <1>3, <2>1, <3>1, StartConnectKeeps DEF MaybeReconnect
  <2>2. CASE /\ stk' = Tail(stk)
             /\ UNCHANGED <<state, transport, recv, hasRecv, frag, pending, owned, first,
                            registered, delay, awaiting, timer>>
    BY <1>1, <1>3, <2>2, Typed, TailPass DEF MaybeReconnect
  <2> QED BY <1>3, <2>1, <2>2 DEF MaybeReconnect
<1>4. CASE PollOpen
  <2>1. /\ UNCHANGED <<autoReconnect, delay, recv, hasRecv, first, registered, awaiting>>
        /\ state = "Connecting"
    BY <1>4 DEF PollOpen
  <2>2. CASE /\ stk' = Tail(stk)
             /\ UNCHANGED <<state, transport, pending, frag, owned, timer>>
    BY <1>1, <2>1, <2>2, Typed, TailPass
  <2>3. CASE /\ transport' = "open"
             /\ SetState("Upgrading", <<"upgrade">> \o Tail(stk))
             /\ UNCHANGED <<pending, frag, owned, timer>>
    <3> DEFINE q == <<"upgrade">> \o Tail(stk)
    <3>1. "upgrade" \in Frames /\ "upgrade" \in Lower
      BY FrameSets
    <3>2. Rest(q) /\ Elems(q) = {"upgrade"}
      BY <1>2, <3>1, PushFrame
    <3> HIDE DEF q
    <3>3. StackInv' /\ Elems(stk') \subseteq {"upgrade", "on_state"} /\ state' = "Upgrading"
      <4>1. SetState("Upgrading", q)
        BY <2>3 DEF q
      <4> QED BY <4>1, <3>2, SetStateStack
    <3>4. Len(pending) <= 1
      BY <2>1 DEF WsInv, DataInv
    <3>5. Agrees(Elems(stk'), state', pending, recv', first, frag, NoReconnector)
      BY <3>3, <3>4 DEF Agrees, Late
    <3> QED BY <2>1, <2>3, <3>3, <3>4, <3>5, Typed, StoreKeeps DEF States, WsInv, DataInv
  <2>4. CASE Teardown("Failed", Tail(stk))
    BY <1>1, <2>1, <2>4, TailTeardown DEF Down
  <2> QED BY <1>4, <2>2, <2>3, <2>4 DEF PollOpen
<1>5. CASE ReadyIo
  <2> DEFINE q == <<"read">> \o Tail(stk)
  <2>1. "read" \in Frames /\ "read" \in Lower /\ "flush" \in Upper /\ "flush" \in Frames
    BY FrameSets DEF Upper, Neutral
  <2>2. Rest(q) /\ Elems(q) = {"read"}
    BY <1>2, <2>1, PushFrame
  <2>3. stk' = <<"flush">> \o q
    BY <1>2, <1>5, <2>1, Push2 DEF ReadyIo, Rest
  <2> HIDE DEF q
  <2>4. StackInv' /\ Elems(stk') = {"flush", "read"}
    BY <2>1, <2>2, <2>3, PushUpper DEF StackInv
  <2>5. Agrees(Elems(stk'), state, pending, recv, first, frag, NoReconnector)
    BY <2>4 DEF Agrees, Late
  <2> QED BY <1>5, <2>4, <2>5, Typed, PassKeeps DEF ReadyIo
<1> QED BY <1>3, <1>4, <1>5

\* The upgrade request is queued once the transport is open.
LEMMA UpgradeRequestKeeps ==
  ASSUME WsInv, stk # <<>>, UNCHANGED setup, UpgradeRequest
  PROVE  WsInv'
<1>1. /\ Head(stk) = "upgrade" /\ recv' = <<>>
      /\ UNCHANGED <<autoReconnect, delay, hasRecv, first, registered, awaiting>>
  BY DEF UpgradeRequest
<1>2. Rest(Tail(stk)) /\ Elems(Tail(stk)) = {} /\ Elems(stk) = {"upgrade"}
  BY <1>1, PopFrame, FrameSets
<1>3. /\ recv' \in Seq(PeerFrames \cup {"part", "full", "junk"})
      /\ recv' \in Seq(PeerFrames \cup {"part", "full"})
  BY <1>1, EmptyStore
<1>4. CASE Teardown("Failed", Tail(stk))
  <2>1. Agrees(Elems(Tail(stk)), "Failed", <<>>, recv', first', FALSE, NoReconnector)
    BY <1>2 DEF Agrees
  <2> QED BY <1>1, <1>2, <1>3, <1>4, <2>1, Typed, TeardownKeeps, Zenon DEF Down
<1>5. CASE /\ owned' = owned + 1
           /\ pending' = IF Len(pending) < MaxPending THEN Append(pending, "upgrade") ELSE pending
           /\ stk' = <<"flush">> \o Tail(stk)
           /\ UNCHANGED <<state, transport, frag, timer>>
  <2>1. /\ state \notin {"Open", "Closing"} /\ Len(pending) <= 1
        /\ state = "Connecting" => pending = <<>>
    BY <1>2 DEF WsInv, AgreeInv, Agrees
  <2>2. pending' = Append(pending, "upgrade")
    BY <1>5, <2>1, Typed, EmptyStore
  <2>3. /\ pending' \in Seq(Kinds) /\ Len(pending') = Len(pending) + 1
        /\ Len(pending') <= MaxPending /\ Len(pending) \in Nat
        /\ state = "Connecting" => Len(pending') <= 1
        /\ Head(pending') = IF pending = <<>> THEN "upgrade" ELSE Head(pending)
    BY <2>1, <2>2, Typed, EmptyStore DEF Kinds
  <2>4. StackInv' /\ Elems(stk') = {"flush"}
    <3>1. "flush" \in Upper
      BY DEF Upper, Neutral
    <3>2. StackInv' /\ Elems(stk') = {"flush"} \cup Elems(Tail(stk))
      BY <1>2, <1>5, <3>1, PushUpper, Zenon DEF StackInv
    <3> QED BY <1>2, <3>2
  <2>5. NoReconnector' <=> NoReconnector
    BY DEF NoReconnector, CallbackOps
  <2>6. AgreeInv'
    BY <2>4 DEF AgreeInv, Agrees, Late
  <2>7. Plain'
    BY <1>1, <1>5, TypeParts DEF WsInv, Plain
  <2>8. Store'
    BY <1>3, <2>3 DEF Store, PeerFrames
  <2>9. owned' = Holdings' /\ owned' \in Nat
    <3>1. hasRecv \in BOOLEAN /\ frag \in BOOLEAN /\ owned = Holdings
      BY Typed DEF WsInv, DataInv
    <3>2. owned' = owned + 1 /\ hasRecv' = hasRecv /\ frag' = frag
      BY <1>1, <1>5
    <3> QED BY <2>3, <3>1, <3>2 DEF Holdings
  <2>10. DataInv'
    BY <1>1, <1>3, <1>5, <2>1, <2>3, <2>5, <2>9 DEF WsInv, DataInv, PeerFrames
  <2> QED BY <2>4, <2>6, <2>7, <2>8, <2>9, <2>10, TypePartsPrimed DEF WsInv, StackInv
<1> QED BY <1>4, <1>5 DEF UpgradeRequest

\* The upgrade response made the session Open.
LEMMA OpenedKeeps ==
  ASSUME WsInv, stk # <<>>, UNCHANGED setup, Opened
  PROVE  WsInv'
<1>1. /\ Head(stk) = "opened" /\ awaiting' = FALSE
      /\ timer' = [timer EXCEPT !.ping = IF KeepAlive THEN "armed" ELSE @]
      /\ stk' = IF recv # <<>> THEN <<"parse">> \o Tail(stk) ELSE Tail(stk)
      /\ UNCHANGED <<state, transport, recv, hasRecv, frag, pending, owned, first, registered,
                     autoReconnect, delay>>
  BY DEF Opened
<1>2. awaiting' \in BOOLEAN
  BY <1>1, Zenon
<1>3. timer' \in Deadlines
  BY <1>1, Typed, Zenon DEF Deadlines
<1>4. Rest(Tail(stk)) /\ Elems(Tail(stk)) = {} /\ Elems(stk) = {"opened"}
  BY <1>1, PopFrame, FrameSets
<1>5. CASE recv = <<>>
  BY <1>1, <1>2, <1>3, <1>5, Typed, TailPass
<1>6. CASE recv # <<>>
  <2>1. StackInv' /\ Elems(stk') = {"parse"}
    <3>1. "parse" \in Frames
      BY FrameSets
    <3>2. stk' = <<"parse">> \o Tail(stk)
      BY <1>1, <1>6
    <3>3. Elems(Tail(stk)) \subseteq Below["parse"]
      BY <1>4
    <3>4. StackInv' /\ Elems(stk') = {"parse"} \cup Elems(Tail(stk))
      BY <1>4, <3>1, <3>2, <3>3, PushFrame, Zenon DEF StackInv
    <3> QED BY <1>4, <3>4
  <2>2. Agrees(Elems(stk'), state, pending, recv, first, frag, NoReconnector)
    BY <1>4, <1>6, <2>1 DEF WsInv, AgreeInv, Agrees, Late
  <2> QED BY <1>1, <1>2, <1>3, <2>1, <2>2, Typed, PassKeeps
<1> QED BY <1>5, <1>6

\* The ping and pong deadlines of an open session.
LEMMA KeepaliveKeeps ==
  ASSUME WsInv, stk # <<>>, UNCHANGED setup, Keepalive
  PROVE  WsInv'
<1>1. CASE KeepaliveSkip
  BY <1>1, Typed, TailPass DEF KeepaliveSkip
<1>2. CASE PongTimeout
  BY <1>2, TailTeardown DEF PongTimeout, Down
<1>3. CASE SendPing
  <2> DEFINE q == <<"pinged">> \o Tail(stk)
  <2>1. Head(stk) = "keepalive" /\ UNCHANGED autoReconnect /\ EnqueueFrame("ping", q)
    BY <1>3 DEF SendPing
  <2>2. Rest(Tail(stk)) /\ Elems(Tail(stk)) = {} /\ Elems(stk) = {"keepalive"}
    BY <2>1, PopFrame, FrameSets
  <2>3. Rest(q) /\ Elems(q) = {"pinged"}
    <3>1. "pinged" \in Frames /\ "pinged" \in Lower
      BY FrameSets
    <3> QED BY <2>2, <3>1, PushFrame
  <2> HIDE DEF q
  <2>4. /\ state = "Connecting" => pending = <<>>
        /\ NoReconnector => first # "none"
    BY <2>2 DEF WsInv, AgreeInv, Agrees, Late
  <2>5. Agrees(Elems(q), state, pending, recv, first, frag, NoReconnector)
    BY <2>3, <2>4 DEF Agrees, Late
  <2>6. "keepalive" \notin Elems(q) /\ "upgrade" \notin Elems(q)
    BY <2>3
  <2> QED BY <2>1, <2>3, <2>4, <2>5, <2>6, Typed, EnqueueKeeps, Zenon DEF Kinds
<1>4. CASE Pinged
  <2>1. awaiting' \in BOOLEAN
    BY <1>4, Zenon DEF Pinged
  <2>2. timer' \in Deadlines
    BY <1>4, Typed, Zenon DEF Pinged, Deadlines
  <2> QED BY <1>4, <2>1, <2>2, Typed, TailPass DEF Pinged
<1> QED BY <1>1, <1>2, <1>3, <1>4 DEF Keepalive

\* A callback calls the API, any number of times, and returns.
LEMMA CallbackKeeps ==
  ASSUME WsInv, stk # <<>>, UNCHANGED setup, CallbackCall \/ CallbackReturn
  PROVE  WsInv'
<1>1. CASE CallbackCall
  <2>1. PICK c \in Callbacks, op \in CallbackOps :
          Head(stk) \in {c, Called[c]} /\ Call(op, <<Called[c]>> \o Tail(stk))
    BY <1>1 DEF CallbackCall
  <2> DEFINE q == <<Called[c]>> \o Tail(stk)
  <2>2. Head(stk) # "consume"
    BY <2>1 DEF Callbacks, Called
  <2>3. Called[c] \in Upper /\ Called[c] \in Lower /\ Called[c] \in Neutral
    BY <2>1 DEF Upper, Neutral, Lower, Frames, Callbacks, Called
  <2>4. /\ Rest(Tail(stk)) /\ Elems(stk) = {Head(stk)} \cup Elems(Tail(stk))
    BY PopFrame
  <2>5. Rest(q) /\ Elems(q) = {Called[c]} \cup Elems(Tail(stk)) /\ Call(op, q)
    BY <2>1, <2>3, <2>4, PushUpper
  <2> HIDE DEF q
  <2>6. Elems(q) \subseteq Elems(stk) \cup Neutral
    BY <2>3, <2>4, <2>5
  <2>7. Agrees(Elems(q), state, pending, recv, first, frag, NoReconnector)
    <3>2. "consume" \in Elems(Tail(stk)) => "parse" \in Elems(Tail(stk))
      BY <2>2, TailAgrees DEF Agrees
    <3>3. Elems(q) \subseteq Elems(Tail(stk)) \cup Neutral
      BY <2>3, <2>5
    <3> QED BY <2>2, <2>3, <2>5, <3>2, <3>3, ParserNotNeutral, TailAgrees, SameAgrees
  <2>8. op = "connect" => ~NoReconnector
    BY <2>1 DEF NoReconnector
  <2> QED BY <2>1, <2>5, <2>6, <2>7, <2>8, CallKeeps, Zenon
<1>2. CASE CallbackReturn
  <2>1. Head(stk) # "consume"
    BY <1>2 DEF CallbackReturn, Callbacks, Called
  <2> QED BY <1>2, <2>1, Typed, TailPass DEF CallbackReturn
<1> QED BY <1>1, <1>2

\* The steps of the frame on top.
LEMMA StepKeeps ==
  ASSUME WsInv, Step
  PROVE  WsInv'
<1>1. stk # <<>> /\ UNCHANGED setup
  BY DEF Step
<1>2. CASE Closing
  BY <1>1, <1>2, ClosingKeeps
<1>3. CASE Register
  <2>1. registered' \in BOOLEAN
    BY <1>3, Zenon DEF Register
  <2> QED BY <1>1, <1>3, <2>1, Typed, TailPass DEF Register
<1>4. CASE MaybeReconnect \/ PollOpen \/ ReadyIo
  BY <1>1, <1>4, ReadyKeeps
<1>5. CASE UpgradeRequest
  BY <1>1, <1>5, UpgradeRequestKeeps
<1>6. CASE Flush
  BY <1>1, <1>6, FlushKeeps
<1>7. CASE Read
  BY <1>1, <1>7, ReadKeeps
<1>8. CASE Opened
  BY <1>1, <1>8, OpenedKeeps
<1>9. CASE Parse
  BY <1>1, <1>9, ParseKeeps
<1>10. CASE Keepalive
  BY <1>1, <1>10, KeepaliveKeeps
<1>11. CASE CallbackCall \/ CallbackReturn
  BY <1>1, <1>11, CallbackKeeps
<1> QED BY <1>2, <1>3, <1>4, <1>5, <1>6, <1>7, <1>8, <1>9, <1>10, <1>11 DEF Step

\* Every step keeps the invariant.
LEMMA WsStep == WsInv /\ [Next]_vars => WsInv'
<1> SUFFICES ASSUME WsInv, [Next]_vars PROVE WsInv'
  OBVIOUS
<1>1. CASE Step
  BY <1>1, StepKeeps
<1>2. CASE Api
  <2>1. PICK op \in Ops : Call(op, <<>>)
    BY <1>2 DEF Api
  <2>2. UNCHANGED setup
    BY <1>2 DEF Api
  <2>3. Agrees({}, state, pending, recv, first, frag, NoReconnector)
    BY DEF Agrees
  <2> QED BY <2>1, <2>2, <2>3, EmptyRest, CallKeeps
<1>3. CASE Destroy
  BY <1>3, DestroyKeeps
<1>4. CASE OnReady
  <2> DEFINE q == <<"ready">>
  <2>1. Rest(q) /\ Elems(q) = {"ready"}
    BY OnReadyFrame, Zenon
  <2>2. stk = <<>> /\ UNCHANGED setup /\ CheckTimeouts(q)
    BY <1>4 DEF OnReady, Idle
  <2> HIDE DEF q
  <2> QED BY <2>1, <2>2, CheckTimeoutsKeeps
<1>5. CASE PollTimeouts
  <2>1. Rest(<<>>) /\ Elems(<<>>) = {}
    BY EmptyRest
  <2>2. stk = <<>> /\ UNCHANGED setup /\ CheckTimeouts(<<>>)
    BY <1>5 DEF PollTimeouts, Idle
  <2> QED BY <2>1, <2>2, CheckTimeoutsKeeps
<1>6. CASE \E on \in BOOLEAN : SetAutoReconnect(on)
  <2>1. /\ autoReconnect' \in BOOLEAN
        /\ UNCHANGED <<setup, state, transport, recv, hasRecv, frag, pending, owned, first,
                       registered, delay, awaiting, timer, stk>>
    BY <1>6, Zenon DEF SetAutoReconnect
  <2>2. StackInv' /\ Agrees(Elems(stk'), state, pending, recv, first, frag, NoReconnector)
    BY <2>1 DEF WsInv, StackInv, AgreeInv
  <2> QED BY <2>1, <2>2, Typed, PassKeeps
<1>7. CASE \E d \in DOMAIN timer : Expire(d)
  <2>1. UNCHANGED <<setup, state, transport, recv, hasRecv, frag, pending, owned, first,
                    registered, autoReconnect, delay, awaiting, stk>>
    BY <1>7 DEF Expire
  <2>2. timer' \in Deadlines
    BY <1>7, Typed DEF Expire, Deadlines
  <2>3. StackInv' /\ Agrees(Elems(stk'), state, pending, recv, first, frag, NoReconnector)
    BY <2>1 DEF WsInv, StackInv, AgreeInv
  <2> QED BY <2>1, <2>2, <2>3, Typed, PassKeeps
<1>8. CASE UNCHANGED vars
  <2>1. StackInv' /\ Agrees(Elems(stk'), state, pending, recv, first, frag, NoReconnector)
    BY <1>8 DEF WsInv, StackInv, AgreeInv, vars
  <2> QED BY <1>8, <2>1, Typed, PassKeeps DEF vars
<1> QED BY <1>1, <1>2, <1>3, <1>4, <1>5, <1>6, <1>7, <1>8 DEF Next

\* The session's invariant, for every ring of two slots or more, every backoff,
\* both transports, every peer, and callbacks that call anything to any depth.
THEOREM SessionInvariant == Spec => []WsInv
  BY WsInit, WsStep, PTL DEF Spec

\* Every buffer the session took from the pool is in exactly one of its places:
\* recv_, frag_ or the ring. None is lost and none goes back
\* twice, whatever the callbacks do and wherever the connection breaks.
THEOREM SessionBufferBalance == Spec => []BufferBalance
<1>1. WsInv => BufferBalance
  BY DEF WsInv, DataInv, BufferBalance
<1> QED BY <1>1, SessionInvariant, PTL

\* Nothing is consumed from an empty receive buffer, as long as callbacks
\* only send and close.
THEOREM SessionNoUnderflow == Spec => []NoUnderflowUnlessReconnected
<1>1. WsInv => NoUnderflowUnlessReconnected
  <2> SUFFICES ASSUME WsInv, NoReconnector, recv # <<>>
               PROVE  Head(recv) # "junk"
    BY DEF NoUnderflowUnlessReconnected
  <2>1. "junk" \notin PeerFrames
    BY WsConstants DEF WsInv, TypeOK, PeerFrames, PeerKinds
  <2>2. recv \in Seq(PeerFrames \cup {"part", "full"})
    BY DEF WsInv, DataInv
  <2>3. Head(recv) \in PeerFrames \cup {"part", "full"}
    BY <2>2
  <2> QED BY <2>1, <2>3
<1> QED BY <1>1, SessionInvariant, PTL

\* The first bytes written to a connection are the upgrade request, as long as
\* callbacks only send and close.
THEOREM SessionUpgradeFirst == Spec => []UpgradeFirst
<1>1. WsInv => UpgradeFirst
  BY DEF WsInv, DataInv, UpgradeFirst
<1> QED BY <1>1, SessionInvariant, PTL

-----------------------------------------------------------------------------
(* The views that message callbacks are given *)

\* A callback with a view into recv_, and one with a view into frag_.
Whole == {"on_message", Called["on_message"]}
Parts == {"on_fragments", Called["on_fragments"]}

\* What release(frag_) after a delivery may run inside: the parser, and no
\* other delivery.
Under == [f \in Frames |-> IF f = "frag_done" THEN {"consume", "parse", "keepalive"}
                           ELSE Frames]

\* The frame a view shows is the first in recv_; frag_ is held for as long as
\* the connection lasts; and no delivery waits for another one's release.
ViewInv ==
  /\ Nested(stk, Under)
  /\ NoReconnector =>
       /\ Elems(stk) \cap Whole # {} => recv # <<>> /\ Head(recv) = "msg"
       /\ Elems(stk) \cap Parts # {} => frag \/ transport = "closed"

\* A stack with no delivery that is not on the present one.
NoNewView(q) ==
  /\ q \in Seq(Frames) /\ Nested(q, Under)
  /\ Elems(stk) \cap Whole = {} => Elems(q) \cap Whole = {}
  /\ Elems(stk) \cap Parts = {} => Elems(q) \cap Parts = {}

\* What the frames are.
LEMMA ViewFrames ==
  /\ Whole \subseteq Frames /\ Parts \subseteq Frames
  /\ "frag_done" \notin Whole \cup Parts
  /\ Whole \cap Parts = {}
  /\ \A f \in Frames \ {"frag_done"} : Under[f] = Frames
  /\ "frag_done" \in Frames /\ Under["frag_done"] = {"consume", "parse", "keepalive"}
  BY DEF Whole, Parts, Frames, Callbacks, Called, Under

\* The frames that the handlers push.
Plainly == {"ready", "flush", "read", "keepalive", "pinged", "parse", "consume", "opened",
            "upgrade", "register", "closing", "on_state"}

\* They are neither deliveries nor releases.
LEMMA PlainFrames ==
  \A f \in Plainly : f \in Frames /\ f \notin Whole \cup Parts /\ f # "frag_done"
  BY DEF Plainly, Frames, Whole, Parts, Called, Callbacks

\* Such a frame on top of a stack.
LEMMA PushPlain ==
  ASSUME NEW q, NoNewView(q), NEW f \in Plainly
  PROVE  NoNewView(<<f>> \o q)
<1>1. f \in Frames /\ f \notin Whole /\ f \notin Parts /\ f # "frag_done"
  BY PlainFrames
<1>2. Elems(q) \subseteq Under[f]
  <2>1. Under[f] = Frames
    BY <1>1, ViewFrames
  <2>2. \A i \in 1 .. Len(q) : q[i] \in Frames
    BY DEF NoNewView
  <2> QED BY <2>1, <2>2 DEF Elems
<1>3. /\ <<f>> \o q \in Seq(Frames) /\ Nested(<<f>> \o q, Under)
      /\ Elems(<<f>> \o q) = {f} \cup Elems(q)
  BY <1>1, <1>2, Push DEF NoNewView
<1> QED BY <1>1, <1>3 DEF NoNewView

\* The present stack, without its top and with nothing on it.
LEMMA OldViews ==
  ASSUME WsInv, ViewInv
  PROVE  /\ NoNewView(stk) /\ NoNewView(<<>>)
         /\ stk # <<>> => NoNewView(Tail(stk))
<1>1. stk \in Seq(Frames) /\ Nested(stk, Under)
  BY DEF WsInv, StackInv, ViewInv
<1>2. stk # <<>> => /\ Tail(stk) \in Seq(Frames) /\ Nested(Tail(stk), Under)
                    /\ Elems(Tail(stk)) \subseteq Elems(stk)
  BY <1>1, Pop
<1>3. NoNewView(<<>>)
  BY EmptyStack DEF NoNewView
<1> QED BY <1>1, <1>2, <1>3 DEF NoNewView

\* The helpers of the handlers deliver nothing.
LEMMA HelpersDeliverNothing ==
  ASSUME NEW r, NoNewView(r)
  PROVE  /\ \A s : SetState(s, r) => NoNewView(stk')
         /\ \A s : Teardown(s, r) => NoNewView(stk')
         /\ \A k : EnqueueFrame(k, r) => NoNewView(stk')
         /\ StartConnect(r) => NoNewView(stk')
<1>1. /\ NoNewView(<<"on_state">> \o r) /\ NoNewView(<<"flush">> \o r)
      /\ NoNewView(<<"register">> \o r)
  BY PushPlain DEF Plainly
<1>2. NoNewView(<<"on_state">> \o (<<"register">> \o r))
  BY <1>1, PushPlain DEF Plainly
<1>3. \A s : SetState(s, r) => NoNewView(stk')
  BY <1>1 DEF SetState
<1>4. \A s : Teardown(s, r) => NoNewView(stk')
  BY <1>3 DEF Teardown
<1>5. \A k : EnqueueFrame(k, r) => NoNewView(stk')
  BY <1>1 DEF EnqueueFrame
<1>6. SetState("Connecting", <<"register">> \o r) => NoNewView(stk')
  BY <1>1, <1>2 DEF SetState
<1>7. StartConnect(r) => SetState("Failed", r) \/ SetState("Connecting", <<"register">> \o r)
  BY DEF StartConnect
<1> QED BY <1>3, <1>4, <1>5, <1>6, <1>7

\* Nor do the calls of the API.
LEMMA CallsDeliverNothing ==
  ASSUME NEW op, NEW r, NoNewView(r), Call(op, r)
  PROVE  NoNewView(stk')
<1>1. NoNewView(<<"closing">> \o r)
  BY PushPlain DEF Plainly
<1>2. CASE Connect(r)
  BY <1>2, HelpersDeliverNothing DEF Connect
<1>3. CASE Send(r)
  BY <1>3, HelpersDeliverNothing DEF Send
<1>4. CASE Close(r)
  <2>1. CASE EnqueueFrame("close", <<"closing">> \o r)
    BY <1>1, <2>1, HelpersDeliverNothing
  <2>2. CASE Teardown("Disconnected", r)
    BY <2>2, HelpersDeliverNothing
  <2> QED BY <1>4, <2>1, <2>2 DEF Close
<1> QED BY <1>2, <1>3, <1>4 DEF Call

\* A step that delivers nothing, and leaves recv_ and frag_ alone, or ends the
\* connection, or has no delivery to disturb.
LEMMA ViewsKept ==
  ASSUME ViewInv, UNCHANGED setup, NoNewView(stk'),
         \/ ~NoReconnector
         \/ Elems(stk) \cap Whole = {} /\ Elems(stk) \cap Parts = {}
         \/ recv' = recv /\ ((frag' = frag /\ transport' = transport) \/ transport' = "closed")
  PROVE  ViewInv'
<1>1. NoReconnector' <=> NoReconnector
  BY DEF NoReconnector, CallbackOps
<1> QED BY <1>1 DEF ViewInv, NoNewView

\* Frames that run inside nothing, or inside the parser at most, have no
\* delivery below them.
LEMMA NoViewBelow ==
  ASSUME WsInv, stk # <<>>,
         Head(stk) \in {"ready", "upgrade", "read", "opened", "keepalive", "pinged",
                        "parse", "consume"}
  PROVE  /\ Elems(stk) \cap Whole = {} /\ Elems(stk) \cap Parts = {}
         /\ Elems(Tail(stk)) \subseteq {"parse", "keepalive"}
         /\ Head(stk) = "parse" => Elems(Tail(stk)) \subseteq {"keepalive"}
<1>1. /\ Elems(stk) = {Head(stk)} \cup Elems(Tail(stk))
      /\ Elems(Tail(stk)) \subseteq Below[Head(stk)]
  BY PopFrame
<1>2. Below[Head(stk)] \subseteq {"parse", "keepalive"}
      /\ (Head(stk) = "parse" => Below[Head(stk)] = {"keepalive"})
  BY FrameSets
<1>3. \A f \in Whole \cup Parts : f \notin Plainly
  BY PlainFrames
<1>4. Elems(stk) \subseteq Plainly
  BY <1>1, <1>2 DEF Plainly
<1> QED BY <1>1, <1>2, <1>3, <1>4

\* A delivery: the frame is the first in recv_, and frag_ is held.
LEMMA DeliveryKeepsViews ==
  ASSUME WsInv, ViewInv, stk # <<>>, UNCHANGED setup,
         DispatchMessage \/ \E fin \in BOOLEAN : AppendFragment(fin)
  PROVE  ViewInv'
<1>1. Head(stk) = "parse" /\ recv # <<>> /\ recv' = recv
  BY DEF DispatchMessage, AppendFragment, Parsing
<1>2. Elems(stk) \cap Whole = {} /\ Elems(stk) \cap Parts = {}
      /\ Elems(Tail(stk)) \subseteq {"keepalive"}
  BY <1>1, NoViewBelow
<1>3. Dispatched \in Seq(Frames) /\ Elems(Dispatched) \subseteq {"consume", "parse", "keepalive"}
  BY <1>1, <1>2, ParseFacts DEF Rest
<1>4. NoNewView(Dispatched)
  <2>1. NoNewView(<<"parse">> \o Tail(stk))
    BY OldViews, PushPlain DEF Plainly
  <2>2. NoNewView(<<"consume">> \o (<<"parse">> \o Tail(stk)))
    BY <2>1, PushPlain DEF Plainly
  <2>3. Dispatched = <<"consume">> \o (<<"parse">> \o Tail(stk))
    <3>1. "consume" \in Frames /\ "parse" \in Frames /\ Tail(stk) \in Seq(Frames)
      BY PopFrame, FrameSets DEF Rest
    <3> QED BY <3>1, Push2 DEF Dispatched
  <2> QED BY <2>2, <2>3
<1>5. NoReconnector' <=> NoReconnector
  BY DEF NoReconnector, CallbackOps
<1>6. CASE DispatchMessage
  <2>1. stk' = <<"on_message">> \o Dispatched /\ Head(recv) = "msg"
    BY <1>6 DEF DispatchMessage, Parsing
  <2>2. "on_message" \in Frames /\ Under["on_message"] = Frames
        /\ "on_message" \in Whole /\ "on_message" \notin Parts
    BY ViewFrames DEF Whole, Parts, Called, Frames, Callbacks
  <2>3. Elems(Dispatched) \subseteq Frames
    BY <1>3, FrameSets
  <2>4. Nested(stk', Under) /\ Elems(stk') = {"on_message"} \cup Elems(Dispatched)
    BY <1>3, <1>4, <2>1, <2>2, <2>3, Push DEF NoNewView
  <2> QED BY <1>1, <1>2, <1>4, <1>5, <2>1, <2>2, <2>4 DEF ViewInv, NoNewView
<1>7. ASSUME NEW fin \in BOOLEAN, AppendFragment(fin)
      PROVE  ViewInv'
  <2>1. CASE Teardown("Failed", Dispatched)
    <3>1. NoNewView(stk')
      BY <1>4, <2>1, HelpersDeliverNothing
    <3> QED BY <1>2, <3>1, ViewsKept
  <2>2. CASE stk' = Dispatched
    BY <1>2, <1>4, <2>2, ViewsKept
  <2>3. CASE /\ frag /\ stk' = <<"on_fragments", "frag_done">> \o Dispatched
             /\ UNCHANGED frag
    <3> DEFINE q == <<"frag_done">> \o Dispatched
    <3>1. /\ "frag_done" \in Frames /\ "on_fragments" \in Frames
          /\ Under["on_fragments"] = Frames /\ "on_fragments" \notin Whole
          /\ "frag_done" \notin Whole
      BY ViewFrames DEF Whole, Called, Frames, Callbacks
    <3>2. /\ q \in Seq(Frames) /\ Nested(q, Under)
          /\ Elems(q) = {"frag_done"} \cup Elems(Dispatched)
      BY <1>3, <1>4, <3>1, Push, ViewFrames DEF NoNewView
    <3>3. stk' = <<"on_fragments">> \o q
      BY <1>3, <2>3, <3>1, Push2
    <3> HIDE DEF q
    <3>4. Elems(q) \subseteq Frames
      BY <1>3, <3>1, <3>2, FrameSets
    <3>5. Nested(stk', Under) /\ Elems(stk') = {"on_fragments", "frag_done"} \cup Elems(Dispatched)
      BY <3>1, <3>2, <3>3, <3>4, Push
    <3>6. Elems(stk') \cap Whole = {}
      BY <1>2, <1>4, <3>1, <3>5 DEF NoNewView
    <3> QED BY <1>5, <2>3, <3>5, <3>6 DEF ViewInv
  <2> QED BY <1>7, <2>1, <2>2, <2>3 DEF AppendFragment
<1> QED BY <1>6, <1>7

\* The callbacks, which call what they like and return.
LEMMA CallbackKeepsViews ==
  ASSUME WsInv, ViewInv, stk # <<>>, UNCHANGED setup, CallbackCall \/ CallbackReturn
  PROVE  ViewInv'
<1>1. CASE CallbackReturn
  BY <1>1, OldViews, ViewsKept DEF CallbackReturn
<1>2. CASE CallbackCall
  <2>1. PICK c \in Callbacks, op \in CallbackOps :
          Head(stk) \in {c, Called[c]} /\ Call(op, <<Called[c]>> \o Tail(stk))
    BY <1>2 DEF CallbackCall
  <2> DEFINE q == <<Called[c]>> \o Tail(stk)
  <2>2. /\ Called[c] \in Frames /\ Called[c] # "frag_done"
        /\ Called[c] \in Whole => Head(stk) \in Whole
        /\ Called[c] \in Parts => Head(stk) \in Parts
    BY <2>1 DEF Whole, Parts, Called, Callbacks, Frames
  <2>3. /\ Tail(stk) \in Seq(Frames) /\ Nested(Tail(stk), Under)
        /\ Elems(stk) = {Head(stk)} \cup Elems(Tail(stk))
        /\ Elems(Tail(stk)) \subseteq Frames
    BY Pop, PopFrame DEF WsInv, StackInv, ViewInv, Rest, Lower
  <2>4. q \in Seq(Frames) /\ Nested(q, Under) /\ Elems(q) = {Called[c]} \cup Elems(Tail(stk))
    <3>1. Elems(Tail(stk)) \subseteq Under[Called[c]]
      BY <2>2, <2>3, ViewFrames
    <3> DEFINE x == Called[c]
               t == Tail(stk)
    <3>2. /\ x \in Frames /\ t \in Seq(Frames)
          /\ Nested(t, Under) /\ Elems(t) \subseteq Under[x]
      BY <2>2, <2>3, <3>1
    <3> HIDE DEF x, t
    <3>3. /\ <<x>> \o t \in Seq(Frames) /\ Nested(<<x>> \o t, Under)
          /\ Elems(<<x>> \o t) = {x} \cup Elems(t)
      BY <3>2, Push
    <3> QED BY <3>3 DEF x, t
  <2> HIDE DEF q
  <2>5. NoNewView(q)
    BY <2>2, <2>3, <2>4 DEF NoNewView
  <2>6. Call(op, q)
    BY <2>1 DEF q
  <2>7. NoNewView(stk')
    BY <2>5, <2>6, CallsDeliverNothing
  <2>8. CASE op = "connect"
    <3>1. ~NoReconnector
      BY <2>8, <2>1 DEF NoReconnector
    <3> QED BY <2>7, <3>1, ViewsKept
  <2>9. CASE Send(q) \/ Close(q)
    <3>1. recv' = recv /\ ((frag' = frag /\ transport' = transport) \/ transport' = "closed")
      BY <2>9 DEF Send, Close, EnqueueFrame, Teardown
    <3> QED BY <2>7, <3>1, ViewsKept
  <2> QED BY <2>6, <2>8, <2>9 DEF Call
<1> QED BY <1>1, <1>2

\* A frame with no delivery below it.
LEMMA OthersKeepViews ==
  ASSUME WsInv, ViewInv, stk # <<>>, UNCHANGED setup,
         \/ MaybeReconnect \/ PollOpen \/ ReadyIo \/ UpgradeRequest \/ Read \/ Opened
         \/ ParseEnd \/ ParseBad \/ ParseJunk \/ BeginFragment \/ DispatchPing \/ DispatchPong
         \/ DispatchClose \/ Consume \/ Keepalive
  PROVE  ViewInv'
<1>1. Head(stk) \in {"ready", "upgrade", "read", "opened", "keepalive", "pinged",
                     "parse", "consume"}
  BY DEF MaybeReconnect, PollOpen, ReadyIo, UpgradeRequest, Read, SkipRead, UpgradeReadNothing,
         UpgradeRead, FrameReadNothing, FrameRead, Opened, ParseEnd, ParseBad, ParseJunk,
         BeginFragment, DispatchPing, DispatchPong, DispatchClose, Parsing, Consume,
         Keepalive, KeepaliveSkip, PongTimeout, SendPing, Pinged
<1>2. Elems(stk) \cap Whole = {} /\ Elems(stk) \cap Parts = {}
  BY <1>1, NoViewBelow
<1>3. /\ NoNewView(stk) /\ NoNewView(Tail(stk)) /\ Tail(stk) \in Seq(Frames)
  BY OldViews DEF NoNewView
<1> SUFFICES NoNewView(stk')
  BY <1>2, ViewsKept
<1>4. \A f \in Plainly : NoNewView(<<f>> \o Tail(stk))
  BY <1>3, PushPlain
<1>5. \A f, g \in Plainly : NoNewView(<<f, g>> \o Tail(stk))
  <2> TAKE f \in Plainly, g \in Plainly
  <2>1. NoNewView(<<f>> \o (<<g>> \o Tail(stk)))
    BY <1>4, PushPlain
  <2>2. <<f, g>> \o Tail(stk) = <<f>> \o (<<g>> \o Tail(stk))
    BY <1>3, PlainFrames, Push2
  <2> QED BY <2>1, <2>2
<1>6. NoNewView(Dispatched)
  BY <1>5 DEF Dispatched, Plainly
<1>7. CASE MaybeReconnect
  BY <1>3, <1>7, HelpersDeliverNothing DEF MaybeReconnect
<1>8. CASE PollOpen
  <2>1. NoNewView(<<"upgrade">> \o Tail(stk))
    BY <1>4 DEF Plainly
  <2> QED BY <1>3, <1>8, <2>1, HelpersDeliverNothing DEF PollOpen
<1>9. CASE ReadyIo
  BY <1>5, <1>9 DEF ReadyIo, Plainly
<1>10. CASE UpgradeRequest
  <2>1. NoNewView(<<"flush">> \o Tail(stk))
    BY <1>4 DEF Plainly
  <2> QED BY <1>3, <1>10, <2>1, HelpersDeliverNothing DEF UpgradeRequest
<1>11. CASE Read
  <2>1. NoNewView(<<"opened">> \o Tail(stk)) /\ NoNewView(<<"keepalive">> \o Tail(stk))
        /\ NoNewView(<<"parse", "keepalive">> \o Tail(stk))
    BY <1>4, <1>5 DEF Plainly
  <2>2. \A r : NoNewView(r) /\ ReadNothing(r) => NoNewView(stk')
    BY HelpersDeliverNothing DEF ReadNothing
  <2>3. CASE SkipRead \/ UpgradeReadNothing \/ FrameReadNothing \/ FrameRead
    BY <1>3, <2>1, <2>2, <2>3 DEF SkipRead, UpgradeReadNothing, FrameReadNothing, FrameRead
  <2>4. CASE UpgradeRead
    BY <1>3, <2>1, <2>4, HelpersDeliverNothing DEF UpgradeRead
  <2> QED BY <1>11, <2>3, <2>4 DEF Read
<1>12. CASE Opened
  <2>1. NoNewView(<<"parse">> \o Tail(stk))
    BY <1>4 DEF Plainly
  <2> QED BY <1>3, <1>12, <2>1 DEF Opened
<1>13. CASE ParseEnd \/ ParseBad \/ ParseJunk
  BY <1>3, <1>13, HelpersDeliverNothing DEF ParseEnd, ParseBad, ParseJunk
<1>14. CASE BeginFragment \/ DispatchPing \/ DispatchPong \/ DispatchClose
  BY <1>6, <1>14, HelpersDeliverNothing DEF BeginFragment, DispatchPing, DispatchPong,
                                            DispatchClose
<1>15. CASE Consume
  <2>1. Tail(stk) # <<>> => NoNewView(Tail(Tail(stk)))
    <3>1. Tail(stk) # <<>> => /\ Tail(Tail(stk)) \in Seq(Frames)
                              /\ Nested(Tail(Tail(stk)), Under)
                              /\ Elems(Tail(Tail(stk))) \subseteq Elems(Tail(stk))
      <4> DEFINE t == Tail(stk)
      <4>1. t \in Seq(Frames) /\ Nested(t, Under)
        BY <1>3 DEF NoNewView
      <4> HIDE DEF t
      <4>2. t # <<>> => /\ Tail(t) \in Seq(Frames) /\ Nested(Tail(t), Under)
                        /\ Elems(Tail(t)) \subseteq Elems(t)
        BY <4>1, Pop
      <4> QED BY <4>2 DEF t
    <3> QED BY <1>2, <1>3, <3>1 DEF NoNewView
  <2>2. Tail(stk) # <<>>
    <3>1. Head(stk) = "consume"
      BY <1>15 DEF Consume
    <3>2. "parse" \in Elems(stk) /\ Elems(stk) = {"consume"} \cup Elems(Tail(stk))
      BY <3>1, PopFrame, NoElems DEF WsInv, AgreeInv, Agrees
    <3> QED BY <3>2, EmptyStack
  <2> QED BY <1>3, <1>15, <2>1, <2>2 DEF Consume
<1>16. CASE Keepalive
  <2>1. NoNewView(<<"pinged">> \o Tail(stk))
    BY <1>4 DEF Plainly
  <2> QED BY <1>3, <1>16, <2>1, HelpersDeliverNothing
          DEF Keepalive, KeepaliveSkip, PongTimeout, SendPing, Pinged
<1> QED BY <1>7, <1>8, <1>9, <1>10, <1>11, <1>12, <1>13, <1>14, <1>15, <1>16

\* Every step keeps the views of the deliveries that are running.
LEMMA ViewStep == WsInv /\ ViewInv /\ [Next]_vars => ViewInv'
<1> SUFFICES ASSUME WsInv, ViewInv, [Next]_vars PROVE ViewInv'
  OBVIOUS
<1>1. CASE Step
  <2>1. stk # <<>> /\ UNCHANGED setup /\ NoNewView(stk) /\ NoNewView(Tail(stk))
    BY <1>1, OldViews DEF Step
  <2>2. CASE Closing
    <3>1. NoNewView(stk')
      BY <2>1, <2>2, HelpersDeliverNothing DEF Closing
    <3> QED BY <2>1, <2>2, <3>1, ViewsKept DEF Closing
  <2>3. CASE Register
    BY <2>1, <2>3, ViewsKept DEF Register
  <2>4. CASE Flush
    <3>1. recv' = recv /\ ((frag' = frag /\ transport' = transport) \/ transport' = "closed")
      BY <2>4 DEF Flush, FlushDone, FlushError, FlushPart, FlushAll, Teardown
    <3>2. NoNewView(stk')
      BY <2>1, <2>4, HelpersDeliverNothing DEF Flush, FlushDone, FlushError, FlushPart, FlushAll
    <3> QED BY <2>1, <3>1, <3>2, ViewsKept
  <2>5. CASE FragDone
    <3>1. Head(stk) = "frag_done" /\ stk' = Tail(stk)
      BY <2>5 DEF FragDone
    <3>2. Elems(stk') \subseteq {"consume", "parse", "keepalive"}
      BY <2>1, <3>1, Pop, ViewFrames DEF WsInv, StackInv, ViewInv
    <3>3. Elems(stk') \cap Whole = {} /\ Elems(stk') \cap Parts = {}
      BY <3>2, PlainFrames DEF Plainly
    <3> QED BY <2>1, <3>1, <3>3 DEF ViewInv, NoNewView
  <2>6. CASE DispatchMessage \/ \E fin \in BOOLEAN : AppendFragment(fin)
    BY <2>1, <2>6, DeliveryKeepsViews
  <2>7. CASE CallbackCall \/ CallbackReturn
    BY <2>1, <2>7, CallbackKeepsViews
  <2>8. CASE \/ MaybeReconnect \/ PollOpen \/ ReadyIo \/ UpgradeRequest \/ Read \/ Opened
             \/ ParseEnd \/ ParseBad \/ ParseJunk \/ BeginFragment \/ DispatchPing
             \/ DispatchPong \/ DispatchClose \/ Consume \/ Keepalive
    BY <2>1, <2>8, OthersKeepViews
  <2> QED BY <1>1, <2>2, <2>3, <2>4, <2>5, <2>6, <2>7, <2>8, Zenon DEF Step, Parse
<1>2. CASE Idle /\ UNCHANGED setup /\ NoNewView(stk')
  <2>1. Elems(stk) = {}
    BY <1>2, EmptyStack DEF Idle
  <2> QED BY <1>2, <2>1, ViewsKept
<1>3. NoNewView(<<>>) /\ NoNewView(stk)
  BY OldViews
<1>4. CASE Api
  <2>1. NoNewView(stk')
    BY <1>3, <1>4, CallsDeliverNothing DEF Api
  <2> QED BY <1>2, <1>4, <2>1 DEF Api
<1>5. CASE Destroy
  BY <1>2, <1>3, <1>5 DEF Destroy
<1>6. CASE OnReady \/ PollTimeouts
  <2>1. NoNewView(<<"ready">>)
    <3>1. NoNewView(<<"ready">> \o <<>>)
      BY <1>3, PushPlain DEF Plainly
    <3>2. <<"ready">> \o <<>> = <<"ready">>
      OBVIOUS
    <3> QED BY <3>1, <3>2
  <2>2. \A r : NoNewView(r) /\ CheckTimeouts(r) => NoNewView(stk')
    BY HelpersDeliverNothing DEF CheckTimeouts
  <2>3. NoNewView(stk')
    BY <1>3, <1>6, <2>1, <2>2 DEF OnReady, PollTimeouts
  <2> QED BY <1>2, <1>6, <2>3 DEF OnReady, PollTimeouts
<1>7. CASE \/ \E on \in BOOLEAN : SetAutoReconnect(on)
           \/ \E d \in DOMAIN timer : Expire(d)
  BY <1>2, <1>3, <1>7 DEF SetAutoReconnect, Expire
<1>8. CASE UNCHANGED vars
  BY <1>3, <1>8, ViewsKept DEF vars
<1> QED BY <1>1, <1>4, <1>5, <1>6, <1>7, <1>8 DEF Next

\* Whatever on_message sends or closes, and whatever follows from it inside its
\* call, the frame it was given stays in recv_ until it returns, and a
\* reassembled message stays in frag_ until the connection has ended.
THEOREM SessionViewValid == Spec => []ViewValid
<1>1. Init => ViewInv
  BY EmptyStack DEF Init, ViewInv
<1>2. WsInv /\ ViewInv => ViewValid
  <2> SUFFICES ASSUME WsInv, ViewInv, NoReconnector, NEW i \in 1 .. Len(stk)
               PROVE  /\ stk[i] \in Whole => hasRecv /\ recv # <<>> /\ Head(recv) = "msg"
                      /\ stk[i] \in Parts => frag \/ transport = "closed"
    BY DEF ViewValid, Whole, Parts
  <2>1. stk[i] \in Elems(stk)
    BY DEF Elems
  <2> QED BY <2>1 DEF ViewInv, WsInv, DataInv
<1> QED BY <1>1, <1>2, ViewStep, SessionInvariant, PTL DEF Spec
=============================================================================
