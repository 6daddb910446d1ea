-------------------------- MODULE HttpClientProofs --------------------------
(***************************************************************************)
(* Theorems about HttpClient, for both transports, every peer, and         *)
(* callbacks that call anything to any depth.                              *)
(***************************************************************************)
EXTENDS HttpClient, SequenceLemmas

\* Callbacks that have made a call or more.
Callers == {"on_error_called", "on_response_called"}

\* The handlers, which run inside no other.
Bases  == {"ready", "flush", "recv", "completed"}

\* Everything that can be on the call stack.
Frames == Callbacks \cup Callers \cup Bases

\* What may be behind a frame: inside a handler nothing runs but callbacks, and
\* inside a callback what the API calls made there have called.
Below == [f \in Frames |-> IF f \in Bases THEN {} ELSE Callers \cup {"ready", "completed"}]

\* A handler or callback is running, at any depth.
On(f) == f \in Elems(stk)

\* The call stack is one the code can build.
StackInv == stk \in Seq(Frames) /\ Nested(stk, Below)

\* What the frames on the stack say of the state, and the state of them.
PlaceInv ==
  /\ state = "Idle" => Elems(stk) \subseteq {"ready"}
  /\ On("flush") => state = "Sending"
  /\ On("recv") => state = "Receiving"
  /\ On("completed") => state # "Sending"
  /\ state \in {"Destroyed", "Crashed"} => Elems(stk) = {}

\* The buffers the pool gave are those the client holds.
BooksInv ==
  /\ owned = Holdings
  /\ state \in {"Connecting", "Idle", "Sending", "Receiving"} => send # "none" /\ hasRecv
  /\ state = "Connecting" => recv = <<>>

\* Callbacks that can give try_complete() another recv_ than the one it parsed:
\* they connect over a request in flight, or close and connect again.
Reckless == setup.impatient \/ Reopens

\* A request is open from request() to its one outcome; only a
\* connect() with one in flight (impatient) drops it. Unless the callbacks are
\* reckless, all that on_response can do to the response is to close.
OutcomeInv ==
  /\ outcome # "twice"
  /\ outcome = "open" <=> InFlight /\ ~On("completed")
  /\ outcome = "dropped" => setup.impatient
  /\ state = "Crashed" => Reckless
  /\ On("completed") =>
       \/ Reckless
       \/ state = "Receiving" /\ recv # <<>>
       \/ state = "Disconnected" /\ "close" \in setup.calls

\* What the peer sent and was not read yet; without strays it is the answer to
\* the current request.
WireInv ==
  /\ Len(wire) <= IF state = "Receiving" /\ ~On("completed") THEN MaxStray + 1 ELSE MaxStray
  /\ ~setup.strays => wire = <<>> \/ (state = "Receiving" /\ ~On("completed") /\ wire = <<"cur">>)
  /\ ~setup.strays /\ On("on_response") => recv # <<>> /\ Head(recv) = "cur"

\* Interest in writing is registered while something is to be written.
WatchInv ==
  /\ armed => state \in {"Connecting", "Sending", "Destroyed", "Crashed"}
  /\ state = "Connecting" => armed
  /\ state = "Sending" /\ ~On("flush") => armed
  /\ watch # "none" => (watch = "write" <=> armed)

\* The invariant of the client, which is inductive.
HttpInv ==
  TypeOK /\ StackInv /\ PlaceInv /\ BooksInv /\ OutcomeInv /\ WireInv /\ WatchInv

\* Empty buffers.
LEMMA EmptyTypes ==
  /\ <<>> \in Seq({"cur", "old", "part", "full"}) /\ <<>> \in Seq({"cur", "old"})
  /\ Len(<<>>) <= MaxStray + 1 /\ Len(<<>>) <= MaxStray /\ MaxStray \in Nat
<1>1. MaxStray \in Nat
  BY HttpConstants
<1> QED BY <1>1

\* A new client.
LEMMA HttpInit == Init => HttpInv
<1>1. SUFFICES ASSUME Init PROVE HttpInv
  OBVIOUS
<1>2. StackInv /\ Elems(stk) = {}
  BY <1>1, EmptyStack DEF Init, StackInv
<1>3. TypeOK
  <2>1. recv \in Seq({"cur", "old", "part", "full"}) /\ wire \in Seq({"cur", "old"})
        /\ Len(wire) <= MaxStray + 1
    BY <1>1, EmptyTypes DEF Init
  <2>2. timer \in [{"connect", "request"} -> {"off", "armed", "due"}]
    BY <1>1 DEF Init
  <2>3. /\ setup \in Setups
        /\ state = "Disconnected" /\ transport = "closed" /\ send = "none"
        /\ owned \in 0 .. 2 /\ watch = "none" /\ outcome = "none"
    BY <1>1 DEF Init
  <2>4. hasRecv \in BOOLEAN /\ registered \in BOOLEAN /\ armed \in BOOLEAN
    BY <1>1, Zenon DEF Init
  <2> QED BY <2>1, <2>2, <2>3, <2>4 DEF TypeOK
<1> QED
  BY <1>1, <1>2, <1>3, HttpConstants DEF Init, HttpInv, PlaceInv, BooksInv, OutcomeInv, WireInv,
     WatchInv, On, Holdings, InFlight

\* Frames that can wait behind a callback.
Owed == Callers \cup {"ready", "completed"}

\* A stack a callback can be pushed on.
Proper(rest) == rest \in Seq(Frames) /\ Nested(rest, Below) /\ Elems(rest) \subseteq Owed

\* Pushing a callback.
LEMMA PushCallback ==
  ASSUME NEW rest, Proper(rest), NEW c \in Callbacks \cup Callers
  PROVE  /\ <<c>> \o rest \in Seq(Frames) /\ Nested(<<c>> \o rest, Below)
         /\ Elems(<<c>> \o rest) = {c} \cup Elems(rest)
<1>1. c \in Frames /\ Below[c] = Owed
  BY DEF Frames, Below, Owed, Callbacks, Callers, Bases
<1> QED
  BY <1>1, Push DEF Proper

\* A handler starts.
LEMMA PushBase ==
  ASSUME NEW f \in Bases, NEW rest, Proper(rest), Elems(rest) = {}
  PROVE  /\ <<f>> \o rest \in Seq(Frames) /\ Nested(<<f>> \o rest, Below)
         /\ Elems(<<f>> \o rest) = {f}
<1>1. f \in Frames
  BY DEF Frames
<1> QED
  BY <1>1, Push DEF Proper

\* The frame on top returns.
LEMMA PopFrame ==
  ASSUME StackInv, stk # <<>>
  PROVE  /\ Head(stk) \in Frames
         /\ Proper(Tail(stk))
         /\ Elems(stk) = {Head(stk)} \cup Elems(Tail(stk))
         /\ Head(stk) \in Bases => Tail(stk) = <<>> /\ Elems(Tail(stk)) = {}
<1>1. /\ Head(stk) \in Frames /\ Tail(stk) \in Seq(Frames) /\ Nested(Tail(stk), Below)
      /\ Elems(stk) = {Head(stk)} \cup Elems(Tail(stk))
      /\ Elems(Tail(stk)) \subseteq Below[Head(stk)]
  BY Pop DEF StackInv
<1>2. Below[Head(stk)] = IF Head(stk) \in Bases THEN {} ELSE Owed
  BY <1>1 DEF Below, Owed
<1>3. Tail(stk) = <<>> <=> Elems(Tail(stk)) = {}
  BY <1>1, NoElems, Zenon
<1> QED
  BY <1>1, <1>2, <1>3 DEF Proper

\* fail(): the buffers stay, and on_error is called last.
LEMMA FailKeeps ==
  ASSUME HttpInv, UNCHANGED setup, NEW rest, Proper(rest), Fail(rest),
         "completed" \in Elems(rest) => Reckless,
         send' \in {"none", "empty", "unsent", "sent"},
         recv' \in Seq({"cur", "old", "part", "full"}),
         hasRecv' \in BOOLEAN, registered' \in BOOLEAN,
         owned' = Holdings',
         timer' \in [{"connect", "request"} -> {"off", "armed", "due"}]
  PROVE  HttpInv'
<1>1. StackInv' /\ Elems(stk') = {"on_error"} \cup Elems(rest)
  <2>1. "on_error" \in Callbacks \cup Callers
    BY DEF Callbacks
  <2> QED BY <2>1, PushCallback DEF Fail, StackInv
<1>2. \A f \in Elems(rest) : f \in Owed
  BY DEF Proper
<1>3. TypeOK'
  <2>1. wire' \in Seq({"cur", "old"}) /\ Len(wire') <= MaxStray + 1
    BY EmptyTypes DEF Fail
  <2>2. owned' \in 0 .. 2
    BY DEF Holdings
  <2> QED BY <2>1, <2>2, Zenon DEF HttpInv, TypeOK, Fail
<1>4. PlaceInv'
  BY <1>1, <1>2, Zenon DEF PlaceInv, Fail, On, Owed, Callers
<1>5. BooksInv'
  BY DEF BooksInv, Fail
<1>6. OutcomeInv'
  <2>1. Reckless' = Reckless
    BY DEF Reckless, Reopens
  <2> QED BY <1>1, <1>2, <2>1 DEF HttpInv, TypeOK, OutcomeInv, InFlight, Fail, On, Owed, Callers
<1>7. WireInv'
  BY <1>1, <1>2, HttpConstants, SMTT(30) DEF WireInv, Fail, On, Owed, Callers
<1>8. WatchInv'
  BY DEF WatchInv, Fail
<1> QED BY <1>1, <1>3, <1>4, <1>5, <1>6, <1>7, <1>8 DEF HttpInv

\* What is known where the API is called with rest behind the call.
CallSite(rest) ==
  /\ Proper(rest)
  /\ On("completed") <=> "completed" \in Elems(rest)
  /\ "completed" \in Elems(rest) =>
       \/ Reckless
       \/ state = "Receiving" /\ recv # <<>>
       \/ state = "Disconnected" /\ "close" \in setup.calls
  /\ state = "Idle" => rest = <<>>
  /\ ~On("flush") /\ ~On("recv")
  /\ state \notin {"Destroyed", "Crashed"}

\* start_connect(), from connect() or from request().
LEMMA StartConnectKeeps ==
  ASSUME HttpInv, UNCHANGED setup, NEW rest, CallSite(rest),
         "completed" \in Elems(rest) => "connect" \in setup.calls,
         InFlight => setup.impatient, StartConnect(rest)
  PROVE  HttpInv'
<1> USE DEF HttpInv, CallSite
<1>1. owned - Holdings = 0 /\ recv' \in Seq({"cur", "old", "part", "full"})
      /\ registered \in BOOLEAN
      /\ timer \in [{"connect", "request"} -> {"off", "armed", "due"}]
      /\ timer' \in [{"connect", "request"} -> {"off", "armed", "due"}]
  <2>1. recv' \in Seq({"cur", "old", "part", "full"})
    BY EmptyTypes DEF StartConnect
  <2>2. owned - Holdings = 0
    BY DEF BooksInv, TypeOK
  <2>3. timer' \in [{"connect", "request"} -> {"off", "armed", "due"}]
    BY Zenon DEF StartConnect, TypeOK, Deadline
  <2> QED BY <2>1, <2>2, <2>3 DEF TypeOK
<1>2. "completed" \in Elems(rest) => Reckless
  BY DEF InFlight, Reckless, Reopens
<1>3. ASSUME NEW s \in {"none", "empty"}, NEW r \in BOOLEAN,
             send' = s, hasRecv' = r,
             owned' = owned - Holdings + (IF s = "empty" THEN 1 ELSE 0)
                        + (IF r THEN 1 ELSE 0),
             Fail(rest), UNCHANGED <<registered, timer>>
      PROVE  HttpInv'
  <2>1. owned' = Holdings'
    BY <1>1, <1>3 DEF Holdings
  <2> QED BY <1>1, <1>2, <1>3, <2>1, FailKeeps
<1>4. ASSUME send' = "empty", hasRecv' = TRUE, owned' = owned - Holdings + 2,
             Fail(rest), UNCHANGED registered
      PROVE  HttpInv'
  <2>1. owned' = Holdings'
    BY <1>1, <1>4 DEF Holdings
  <2> QED BY <1>1, <1>2, <1>4, <2>1, FailKeeps
<1>5. ASSUME recv' = <<>>, send' = "empty", hasRecv' = TRUE, owned' = owned - Holdings + 2,
             transport' = "opening", wire' = <<>>, armed' = TRUE, state' = "Connecting",
             registered' \in IF registered \/ ~setup.poll THEN {TRUE} ELSE BOOLEAN,
             watch' = IF setup.poll /\ ~registered /\ registered' THEN "write" ELSE "none",
             outcome' = IF outcome = "open" THEN "dropped" ELSE outcome,
             stk' = rest
      PROVE  HttpInv'
  <2>1. StackInv' /\ Elems(stk') = Elems(rest) /\ \A f \in Elems(rest) : f \in Owed
    BY <1>5 DEF Proper, StackInv
  <2>2. owned' = Holdings' /\ owned' = 2
    BY <1>1, <1>5 DEF Holdings
  <2>3. TypeOK'
    <3>1. wire' \in Seq({"cur", "old"}) /\ Len(wire') <= MaxStray + 1
      BY <1>5, EmptyTypes
    <3>2. registered' \in BOOLEAN /\ watch' \in {"none", "write"}
      BY <1>5, Zenon
    <3>3. outcome' \in {"none", "open", "answered", "failed", "closed", "dropped", "twice"}
      BY <1>5 DEF TypeOK
    <3>4. owned' \in 0 .. 2 /\ setup' \in Setups
      BY <2>2 DEF TypeOK
    <3> QED BY <1>1, <1>5, <3>1, <3>2, <3>3, <3>4 DEF TypeOK
  <2>4. PlaceInv'
    BY <1>5, <2>1 DEF PlaceInv, On, Owed, Callers
  <2>5. BooksInv'
    BY <1>5, <2>2 DEF BooksInv
  <2>6. OutcomeInv'
    <3>1. Reckless' = Reckless
      BY DEF Reckless, Reopens
    <3> QED BY <1>2, <1>5, <2>1, <3>1 DEF OutcomeInv, InFlight, On, Owed, Callers, TypeOK
  <2>7. WireInv' /\ WatchInv'
    BY <1>5, <2>1, HttpConstants DEF WireInv, WatchInv, On, Owed, Callers
  <2> QED BY <2>1, <2>3, <2>4, <2>5, <2>6, <2>7
<1> QED BY <1>3, <1>4, <1>5, Zenon DEF StartConnect

\* A call that changes nothing.
LEMMA PassKeeps ==
  ASSUME HttpInv, UNCHANGED setup, NEW rest, CallSite(rest), stk' = rest,
         UNCHANGED <<state, buffers, link, registered, outcome, timer>>
  PROVE  HttpInv'
<1> USE DEF HttpInv, CallSite, buffers, link
<1>1. StackInv' /\ Elems(stk') = Elems(rest) /\ \A f \in Elems(rest) : f \in Owed
  BY DEF Proper, StackInv
<1>2. state = "Idle" => Elems(rest) = {}
  BY EmptyStack
<1>3. TypeOK' /\ BooksInv'
  BY DEF TypeOK, BooksInv, Holdings
<1>4. PlaceInv'
  BY <1>1, <1>2 DEF PlaceInv, On, Owed, Callers
<1>5. OutcomeInv'
  <2>1. Reckless' = Reckless
    BY DEF Reckless, Reopens
  <2> QED BY <1>1, <2>1 DEF OutcomeInv, InFlight, On, Owed, Callers, Callbacks
<1>6. WireInv' /\ WatchInv'
  BY <1>1 DEF WireInv, WatchInv, On, Owed, Callers
<1> QED BY <1>1, <1>3, <1>4, <1>5, <1>6

\* request(), in every state.
LEMMA RequestKeeps ==
  ASSUME HttpInv, UNCHANGED setup, NEW rest, CallSite(rest), Request(rest)
  PROVE  HttpInv'
<1>1. CASE stk' = rest /\ UNCHANGED <<state, buffers, link, registered, outcome, timer>>
  BY <1>1, PassKeeps
<1>2. CASE ~(stk' = rest /\ UNCHANGED <<state, buffers, link, registered, outcome, timer>>)
  <2> USE DEF HttpInv
  <2>1. /\ state = "Idle" /\ rest = <<>>
        /\ send' = "unsent" /\ recv' = <<>>
        /\ state' = "Sending" /\ outcome' = "open"
        /\ wire' = [i \in DOMAIN wire |-> "old"]
        /\ timer' = [timer EXCEPT !.request = Deadline]
        /\ stk' = <<"flush">> \o rest
        /\ UNCHANGED <<transport, armed, watch, hasRecv, owned, registered>>
    BY <1>2 DEF Request, CallSite
  <2>2. StackInv' /\ Elems(stk') = {"flush"}
    <3>1. "flush" \in Bases BY DEF Bases
    <3>2. Elems(rest) = {} BY <2>1, EmptyStack
    <3> QED BY <2>1, <3>1, <3>2, PushBase, Zenon DEF StackInv, CallSite
  <2>3. /\ wire' \in Seq({"cur", "old"}) /\ Len(wire') = Len(wire)
        /\ wire = <<>> => wire' = <<>>
    <3>1. DOMAIN wire = 1 .. Len(wire) /\ Len(wire) \in Nat
      BY DEF TypeOK
    <3>2. wire' \in [1 .. Len(wire) -> {"cur", "old"}]
      BY <2>1, <3>1
    <3>3. wire' \in Seq({"cur", "old"}) /\ Len(wire') = Len(wire)
      BY <3>1, <3>2
    <3> QED BY <3>3, EmptySeq
  <2>4. TypeOK'
    BY <2>1, <2>3 DEF TypeOK, Deadline, Holdings
  <2>5. BooksInv'
    BY <2>1 DEF BooksInv, Holdings
  <2>6. PlaceInv' /\ OutcomeInv'
    <3>1. Reckless' = Reckless
      BY DEF Reckless, Reopens
    <3> QED BY <2>1, <2>2, <3>1 DEF PlaceInv, OutcomeInv, InFlight, On
  <2>7. WireInv' /\ WatchInv'
    BY <2>1, <2>2, <2>3, HttpConstants DEF WireInv, WatchInv, On, TypeOK
  <2> QED BY <2>2, <2>4, <2>5, <2>6, <2>7
<1> QED BY <1>1, <1>2

\* close(), in every state.
LEMMA CloseKeeps ==
  ASSUME HttpInv, UNCHANGED setup, NEW rest, CallSite(rest), Close(rest),
         "completed" \in Elems(rest) => "close" \in setup.calls
  PROVE  HttpInv'
<1> USE DEF HttpInv, CallSite, Close
<1>1. StackInv' /\ Elems(stk') = Elems(rest) /\ \A f \in Elems(rest) : f \in Owed
  BY DEF Proper, StackInv
<1>2. owned' = 0 /\ owned' = Holdings'
  BY DEF BooksInv, Holdings, TypeOK
<1>3. TypeOK' /\ BooksInv'
  <2>1. wire' \in Seq({"cur", "old"}) /\ Len(wire') <= MaxStray + 1
        /\ recv' \in Seq({"cur", "old", "part", "full"})
    BY EmptyTypes
  <2>2. outcome' \in {"none", "open", "answered", "failed", "closed", "dropped", "twice"}
    BY DEF TypeOK
  <2>3. owned' \in 0 .. 2
    BY <1>2
  <2> QED BY <1>2, <2>1, <2>2, <2>3, Zenon DEF TypeOK, BooksInv
<1>4. PlaceInv' /\ OutcomeInv'
  <2>1. Reckless' = Reckless
    BY DEF Reckless, Reopens
  <2> QED BY <1>1, <2>1 DEF PlaceInv, OutcomeInv, InFlight, On, Owed, Callers, Callbacks, TypeOK
<1>5. WireInv' /\ WatchInv'
  BY <1>1, HttpConstants DEF WireInv, WatchInv, On, Owed, Callers
<1> QED BY <1>1, <1>3, <1>4, <1>5

\* A call of the API.
LEMMA CallKeeps ==
  ASSUME HttpInv, UNCHANGED setup, NEW rest, CallSite(rest), NEW op, Call(op, rest),
         "completed" \in Elems(rest) => op \in setup.calls
  PROVE  HttpInv'
<1>1. CASE op = "connect" /\ Connect(rest)
  <2>1. CASE stk' = rest /\ UNCHANGED <<state, buffers, link, registered, outcome, timer>>
    BY <2>1, PassKeeps
  <2>2. CASE (InFlight => setup.impatient) /\ StartConnect(rest)
    BY <1>1, <2>2, StartConnectKeeps
  <2> QED BY <1>1, <2>1, <2>2 DEF Connect
<1>2. CASE Request(rest)
  BY <1>2, RequestKeeps
<1>3. CASE op = "close" /\ Close(rest)
  BY <1>3, CloseKeeps
<1> QED BY <1>1, <1>2, <1>3 DEF Call

\* Between the calls of the loop the stack is empty.
LEMMA QuietFacts ==
  ASSUME HttpInv, Quiet
  PROVE  Elems(stk) = {} /\ CallSite(<<>>)
<1>1. Elems(stk) = {} /\ Elems(<<>>) = {} /\ Proper(<<>>)
  BY EmptyStack DEF Quiet, Proper
<1> QED BY <1>1 DEF CallSite, On, Quiet

\* A callback is a place the API can be called from.
LEMMA CallbackSite ==
  ASSUME HttpInv, stk # <<>>, NEW c \in Callbacks, Head(stk) \in {c, Called[c]}
  PROVE  CallSite(<<Called[c]>> \o Tail(stk)) /\ CallSite(Tail(stk))
<1> DEFINE d == Called[c]
           rest == <<d>> \o Tail(stk)
<1>1. /\ Proper(Tail(stk)) /\ Elems(stk) = {Head(stk)} \cup Elems(Tail(stk))
      /\ \A f \in Elems(Tail(stk)) : f \in Owed
  BY PopFrame DEF HttpInv, Proper
<1>2. d \in Callers
  BY DEF Called, Callbacks, Callers
<1>3. Proper(rest) /\ Elems(rest) = {d} \cup Elems(Tail(stk))
  <2> HIDE DEF d
  <2>1. d \in Callbacks \cup Callers /\ d \in Owed
    BY <1>2 DEF Owed
  <2>2. rest \in Seq(Frames) /\ Nested(rest, Below) /\ Elems(rest) = {d} \cup Elems(Tail(stk))
    BY <1>1, <2>1, PushCallback, Zenon
  <2> QED BY <1>1, <2>1, <2>2 DEF Proper
<1> HIDE DEF d, rest
<1>4. Head(stk) \notin {"completed", "flush", "recv", "ready"}
  BY DEF Callbacks, Called
<1>5. On("completed") <=> "completed" \in Elems(Tail(stk))
  BY <1>1, <1>4 DEF On
<1>6. state # "Idle" /\ state \notin {"Destroyed", "Crashed"}
  BY <1>1, <1>4 DEF HttpInv, PlaceInv
<1>7. ~On("flush") /\ ~On("recv")
  BY <1>1, <1>4 DEF On, Owed, Callers
<1>8. "completed" \in Elems(Tail(stk)) =>
        \/ Reckless
        \/ state = "Receiving" /\ recv # <<>>
        \/ state = "Disconnected" /\ "close" \in setup.calls
  BY <1>1, <1>5 DEF HttpInv, OutcomeInv
<1>9. "completed" \in Elems(rest) <=> "completed" \in Elems(Tail(stk))
  BY <1>2, <1>3 DEF Callers
<1> QED BY <1>1, <1>3, <1>5, <1>6, <1>7, <1>8, <1>9 DEF CallSite, rest, d

\* A callback returns.
LEMMA CallbackReturnKeeps ==
  ASSUME HttpInv, UNCHANGED setup, stk # <<>>, CallbackReturn
  PROVE  HttpInv'
<1>1. /\ stk' = Tail(stk)
      /\ UNCHANGED <<state, buffers, link, registered, outcome, timer>>
  BY DEF CallbackReturn
<1>2. PICK c \in Callbacks : Head(stk) \in {c, Called[c]}
  BY DEF CallbackReturn
<1> QED BY <1>1, <1>2, CallbackSite, PassKeeps, Zenon

\* check_timeouts(): the deadlines of connecting and of the request.
LEMMA CheckTimeoutsKeeps ==
  ASSUME HttpInv, UNCHANGED setup, Quiet, NEW rest \in {<<>>, <<"ready">>},
         CheckTimeouts(rest)
  PROVE  HttpInv'
<1> USE DEF HttpInv
<1>1. Elems(stk) = {} /\ CallSite(<<>>)
  BY QuietFacts
<1>2. Proper(rest) /\ Elems(rest) \subseteq {"ready"}
  <2>1. CASE rest = <<>>
    BY <2>1, EmptyStack DEF Proper
  <2>2. CASE rest = <<"ready">>
    <3>1. rest \in Seq(Frames)
      BY <2>2 DEF Frames, Bases
    <3>2. Len(rest) = 1 /\ rest[1] = "ready"
      BY <2>2
    <3>3. Elems(rest) = {"ready"} /\ Nested(rest, Below)
      BY <3>2 DEF Elems, Nested
    <3> QED BY <3>1, <3>3 DEF Proper, Owed
  <2> QED BY <2>1, <2>2
<1>3. CASE Fail(rest)
  <2>1. owned' = Holdings'
    BY DEF CheckTimeouts, BooksInv, Holdings, buffers
  <2> QED BY <1>2, <1>3, <2>1, FailKeeps DEF CheckTimeouts, TypeOK, buffers
<1>4. CASE stk' = rest /\ UNCHANGED <<state, link, outcome>>
  <2> USE DEF CheckTimeouts, buffers, link
  <2>1. StackInv'
    BY <1>2, <1>4 DEF StackInv, Proper
  <2>2. TypeOK' /\ BooksInv'
    BY <1>4 DEF TypeOK, BooksInv, Holdings
  <2>3. \A f \in Elems(stk') : f = "ready"
    BY <1>2, <1>4
  <2>4. PlaceInv' /\ WireInv' /\ WatchInv'
    BY <1>1, <1>4, <2>3 DEF PlaceInv, WireInv, WatchInv, On, Quiet
  <2>5. OutcomeInv'
    BY <1>1, <1>4, <2>3 DEF OutcomeInv, On, InFlight, Reckless, Reopens
  <2> QED BY <2>1, <2>2, <2>4, <2>5
<1> QED BY <1>3, <1>4 DEF CheckTimeouts

\* What the user, the loop, the peer and the clock do between calls.
LEMMA OutsideKeeps ==
  ASSUME HttpInv,
         \/ Api \/ Destroy \/ OnReady \/ PollTimeouts \/ Stray
         \/ \E d \in DOMAIN timer : Expire(d)
  PROVE  HttpInv'
<1>1. Elems(stk) = {} /\ CallSite(<<>>) /\ Quiet
  <2>1. Quiet
    BY DEF Api, Destroy, OnReady, PollTimeouts, Stray, Expire
  <2> QED BY <2>1, QuietFacts
<1>2. CASE Api
  <2>1. "completed" \notin Elems(<<>>)
    BY <1>1 DEF CallSite, On
  <2> QED BY <1>1, <1>2, <2>1, CallKeeps DEF Api
<1>3. CASE OnReady
  BY <1>3, CheckTimeoutsKeeps DEF OnReady
<1>4. CASE PollTimeouts
  BY <1>4, CheckTimeoutsKeeps DEF PollTimeouts
<1>5. CASE Destroy
  <2> USE <1>5 DEF HttpInv, Destroy
  <2>1. owned' = 0 /\ owned' = Holdings'
    BY DEF BooksInv, Holdings, TypeOK
  <2>2. wire' \in Seq({"cur", "old"}) /\ Len(wire') <= MaxStray + 1
        /\ recv' \in Seq({"cur", "old", "part", "full"})
    BY EmptyTypes
  <2>3. outcome' \in {"none", "open", "answered", "failed", "closed", "dropped", "twice"}
        /\ owned' \in 0 .. 2
    BY <2>1 DEF TypeOK
  <2>4. registered' \in BOOLEAN /\ hasRecv' \in BOOLEAN
    BY Zenon
  <2>5. TypeOK' /\ BooksInv'
    BY <2>1, <2>2, <2>3, <2>4 DEF TypeOK, BooksInv
  <2>6. StackInv' /\ Elems(stk') = {}
    BY <1>1 DEF StackInv
  <2>7. PlaceInv' /\ OutcomeInv'
    BY <2>6 DEF PlaceInv, OutcomeInv, InFlight, Reckless, Reopens, On, TypeOK
  <2>8. WireInv' /\ WatchInv'
    BY <2>6, EmptyTypes DEF WireInv, WatchInv, On
  <2> QED BY <2>5, <2>6, <2>7, <2>8
<1>6. CASE Stray
  <2> USE <1>6 DEF HttpInv, Stray, buffers
  <2>1. wire' \in Seq({"cur", "old"}) /\ Len(wire') = Len(wire) + 1 /\ Len(wire) \in Nat
    BY DEF TypeOK
  <2>2. TypeOK' /\ BooksInv'
    BY <2>1, EmptyTypes DEF TypeOK, BooksInv, Holdings
  <2>3. StackInv' /\ PlaceInv' /\ OutcomeInv' /\ WatchInv'
    BY DEF StackInv, PlaceInv, OutcomeInv, InFlight, Reckless, Reopens, On, WatchInv
  <2>4. WireInv'
    BY <1>1, <2>1, EmptyTypes DEF WireInv, On
  <2> QED BY <2>2, <2>3, <2>4
<1>7. ASSUME NEW d \in DOMAIN timer, Expire(d) PROVE HttpInv'
  <2> USE <1>7 DEF HttpInv, Expire, buffers, link
  <2>1. TypeOK' /\ BooksInv'
    BY DEF TypeOK, BooksInv, Holdings
  <2>2. StackInv' /\ PlaceInv' /\ OutcomeInv' /\ WatchInv' /\ WireInv'
    BY DEF StackInv, PlaceInv, OutcomeInv, InFlight, Reckless, Reopens, On, WatchInv, WireInv
  <2> QED BY <2>1, <2>2
<1> QED BY <1>2, <1>3, <1>4, <1>5, <1>6, <1>7

\* A handler on top is alone on the stack.
LEMMA BaseFacts ==
  ASSUME HttpInv, stk # <<>>, Head(stk) \in Bases
  PROVE  /\ Tail(stk) = <<>> /\ Proper(Tail(stk)) /\ Elems(Tail(stk)) = {}
         /\ Elems(stk) = {Head(stk)}
         /\ \A f \in Bases :
              <<f>> \o Tail(stk) \in Seq(Frames) /\ Nested(<<f>> \o Tail(stk), Below)
              /\ Elems(<<f>> \o Tail(stk)) = {f}
<1>1. /\ Tail(stk) = <<>> /\ Proper(Tail(stk)) /\ Elems(Tail(stk)) = {}
      /\ Elems(stk) = {Head(stk)}
  BY PopFrame DEF HttpInv
<1> QED BY <1>1, PushBase, Zenon

\* A handler that fails.
LEMMA HandlerFails ==
  ASSUME HttpInv, UNCHANGED setup, stk # <<>>, Head(stk) \in Bases,
         UNCHANGED <<buffers, registered, timer>>, Fail(Tail(stk))
  PROVE  HttpInv'
<1>1. Proper(Tail(stk)) /\ "completed" \notin Elems(Tail(stk))
  BY BaseFacts
<1>2. owned' = Holdings'
  BY DEF HttpInv, BooksInv, Holdings, buffers
<1> QED BY <1>1, <1>2, FailKeeps DEF HttpInv, TypeOK, buffers

\* on_ready(): the transport opens, or is written to or read from.
LEMMA ReadyKeeps ==
  ASSUME HttpInv, UNCHANGED setup, stk # <<>>, Ready \/ PollOpen
  PROVE  HttpInv'
<1> USE DEF HttpInv, buffers, link
<1>1. /\ Head(stk) = "ready" /\ Tail(stk) = <<>> /\ Elems(stk) = {"ready"}
      /\ Proper(Tail(stk)) /\ Elems(Tail(stk)) = {}
      /\ \A f \in Bases :
           <<f>> \o Tail(stk) \in Seq(Frames) /\ Nested(<<f>> \o Tail(stk), Below)
           /\ Elems(<<f>> \o Tail(stk)) = {f}
  <2>1. Head(stk) = "ready" BY DEF Ready, PollOpen
  <2> QED BY <2>1, BaseFacts DEF Bases
<1>2. CASE Ready
  <2>1. StackInv' /\ Elems(stk') = IF state = "Sending" THEN {"flush"}
                                   ELSE IF state = "Receiving" THEN {"recv"} ELSE {}
    <3>1. CASE state = "Sending"
      <4>1. stk' = <<"flush">> \o Tail(stk)
        BY <1>2, <3>1 DEF Ready
      <4> QED BY <4>1, <3>1, <1>1 DEF StackInv, Bases
    <3>2. CASE state = "Receiving"
      <4>1. stk' = <<"recv">> \o Tail(stk)
        BY <1>2, <3>2 DEF Ready
      <4> QED BY <4>1, <3>2, <1>1 DEF StackInv, Bases
    <3>3. CASE state \notin {"Sending", "Receiving"}
      <4>1. stk' = <<>> \o Tail(stk)
        BY <1>2, <3>3 DEF Ready
      <4>2. stk' = <<>>
        BY <4>1, <1>1
      <4> QED BY <4>2, <3>3, EmptyStack DEF StackInv
    <3> QED BY <3>1, <3>2, <3>3
  <2>2. TypeOK' /\ BooksInv'
    BY <1>2 DEF Ready, TypeOK, BooksInv, Holdings
  <2>3. PlaceInv' /\ WireInv' /\ WatchInv'
    BY <1>1, <1>2, <2>1 DEF Ready, PlaceInv, WireInv, WatchInv, On
  <2>4. OutcomeInv'
    BY <1>1, <1>2, <2>1 DEF Ready, OutcomeInv, InFlight, Reckless, Reopens, On
  <2> QED BY <2>1, <2>2, <2>3, <2>4
<1>3. CASE PollOpen
  <2>1. CASE Fail(Tail(stk))
    <3>1. Head(stk) \in Bases BY <1>1 DEF Bases
    <3> QED BY <1>3, <2>1, <3>1, HandlerFails DEF PollOpen
  <2>2. CASE stk' = Tail(stk)
    <3>1. StackInv' /\ Elems(stk') = {}
      BY <1>1, <2>2 DEF StackInv, Proper
    <3>2. CASE UNCHANGED <<state, link, outcome>>
      <4>1. TypeOK' /\ BooksInv'
        BY <1>3, <3>2 DEF PollOpen, TypeOK, BooksInv, Holdings
      <4>2. PlaceInv' /\ WireInv' /\ WatchInv' /\ OutcomeInv'
        BY <1>1, <1>3, <3>1, <3>2
           DEF PollOpen, PlaceInv, WireInv, WatchInv, OutcomeInv, InFlight, Reckless, Reopens, On
      <4> QED BY <3>1, <4>1, <4>2
    <3>3. CASE /\ transport' = "open" /\ state' = "Idle" /\ armed' = FALSE
               /\ watch' = IF armed THEN Interest("read") ELSE watch
               /\ UNCHANGED <<wire, outcome>>
      <4>1. TypeOK' /\ BooksInv'
        BY <1>3, <3>3, Zenon DEF PollOpen, TypeOK, BooksInv, Holdings, Interest
      <4>2. PlaceInv' /\ WireInv' /\ OutcomeInv'
        BY <1>1, <1>3, <3>1, <3>3 DEF PollOpen, PlaceInv, WireInv, OutcomeInv, InFlight, Reckless, Reopens, On
      <4>3. WatchInv'
        BY <1>3, <3>3 DEF PollOpen, WatchInv, Interest, TypeOK
      <4> QED BY <3>1, <4>1, <4>2, <4>3
    <3> QED BY <1>3, <2>2, <3>2, <3>3, <2>1, Zenon DEF PollOpen
  <2> QED BY <1>3, <2>1, <2>2 DEF PollOpen
<1> QED BY <1>2, <1>3

\* The request is written: in full, in part, or not.
LEMMA FlushKeeps ==
  ASSUME HttpInv, UNCHANGED setup, stk # <<>>, FlushBlocked \/ FlushError \/ FlushAll
  PROVE  HttpInv'
<1> USE DEF HttpInv, buffers, link
<1>1. /\ Head(stk) = "flush" /\ Elems(stk) = {"flush"} /\ state = "Sending"
      /\ Proper(Tail(stk)) /\ Elems(Tail(stk)) = {}
      /\ <<"recv">> \o Tail(stk) \in Seq(Frames) /\ Nested(<<"recv">> \o Tail(stk), Below)
      /\ Elems(<<"recv">> \o Tail(stk)) = {"recv"}
  <2>1. Head(stk) = "flush" /\ "recv" \in Bases /\ "flush" \in Bases
    BY DEF FlushBlocked, FlushError, FlushAll, Bases
  <2> QED BY <2>1, BaseFacts DEF PlaceInv, On
<1>2. CASE FlushBlocked
  <2>1. StackInv' /\ Elems(stk') = {}
    BY <1>1, <1>2 DEF FlushBlocked, StackInv, Proper
  <2>2. TypeOK' /\ BooksInv'
    BY <1>2 DEF FlushBlocked, TypeOK, BooksInv, Holdings, Interest
  <2>3. PlaceInv' /\ WireInv' /\ OutcomeInv'
    BY <1>1, <1>2, <2>1 DEF FlushBlocked, PlaceInv, WireInv, OutcomeInv, InFlight, Reckless, Reopens, On
  <2>4. WatchInv'
    BY <1>1, <1>2, <2>1 DEF FlushBlocked, WatchInv, Interest, TypeOK, On
  <2> QED BY <2>1, <2>2, <2>3, <2>4
<1>3. CASE FlushError
  <2>1. Head(stk) \in Bases BY <1>1 DEF Bases
  <2> QED BY <1>3, <2>1, HandlerFails DEF FlushError
<1>4. CASE FlushAll
  <2>1. StackInv' /\ Elems(stk') = {"recv"}
    BY <1>1, <1>4 DEF FlushAll, StackInv
  <2>2. /\ wire' \in Seq({"cur", "old"}) /\ Len(wire') = Len(wire) + 1 /\ Len(wire) \in Nat
        /\ wire = <<>> => wire' = <<"cur">>
    <3>1. wire' = Append(wire, "cur") /\ wire \in Seq({"cur", "old"})
      BY <1>4 DEF FlushAll, TypeOK
    <3>2. Append(<<>>, "cur") = <<"cur">>
      OBVIOUS
    <3>3. wire' \in Seq({"cur", "old"}) /\ Len(wire') = Len(wire) + 1 /\ Len(wire) \in Nat
      BY <3>1
    <3> QED BY <3>1, <3>2, <3>3, Zenon
  <2>3. Len(wire) <= MaxStray
    BY <1>1 DEF WireInv
  <2>4. TypeOK'
    <3>1. Len(wire') <= MaxStray + 1
      BY <2>2, <2>3, EmptyTypes
    <3>2. watch' \in {"none", "read", "write"}
      BY <1>4 DEF FlushAll, TypeOK, Interest
    <3>3. armed' \in BOOLEAN
      BY <1>4, Zenon DEF FlushAll
    <3> QED BY <1>4, <2>2, <3>1, <3>2, <3>3 DEF FlushAll, TypeOK
  <2>5. BooksInv'
    BY <1>1, <1>4 DEF FlushAll, BooksInv, Holdings
  <2>6. PlaceInv' /\ OutcomeInv'
    BY <1>1, <1>4, <2>1 DEF FlushAll, PlaceInv, OutcomeInv, InFlight, Reckless, Reopens, On
  <2>7. WireInv'
    BY <1>1, <1>4, <2>1, <2>2, <2>3, EmptyTypes DEF FlushAll, WireInv, On
  <2>8. WatchInv'
    BY <1>1, <1>4 DEF FlushAll, WatchInv, Interest, TypeOK
  <2> QED BY <2>1, <2>4, <2>5, <2>6, <2>7, <2>8
<1> QED BY <1>2, <1>3, <1>4

\* What a read moves from the wire to the receive buffer.
LEMMA Received ==
  ASSUME NEW w \in Seq({"cur", "old"}), NEW n \in 0 .. Len(w),
         NEW more \in {<<>>, <<"part">>, <<"full">>}, n = 0 => more # <<>>
  PROVE  LET r == SubSeq(w, 1, n) \o more
             u == SubSeq(w, n + 1, Len(w))
         IN  /\ r \in Seq({"cur", "old", "part", "full"}) /\ r # <<>>
             /\ u \in Seq({"cur", "old"}) /\ Len(u) = Len(w) - n
             /\ n = 0 => u = w /\ Head(r) \in {"part", "full"}
             /\ n > 0 => Head(r) = w[1] /\ w[1] \in {"cur", "old"}
<1> DEFINE All == {"cur", "old", "part", "full"}
           a == SubSeq(w, 1, n)
           r == a \o more
           u == SubSeq(w, n + 1, Len(w))
<1>1. Len(w) \in Nat /\ w \in Seq(All)
  OBVIOUS
<1>2. a \in Seq(All) /\ Len(a) = n /\ (n > 0 => a[1] = w[1])
  BY <1>1, SubSeqProperties
<1>3. u \in Seq({"cur", "old"}) /\ Len(u) = Len(w) - n
      /\ \A i \in 1 .. Len(w) - n : u[i] = w[i + n]
  BY <1>1, SubSeqProperties
<1>4. more \in Seq(All) /\ Len(more) \in {0, 1}
      /\ (more # <<>> => Len(more) = 1 /\ more[1] \in {"part", "full"})
  <2>1. CASE more = <<>>
    BY <2>1
  <2>2. CASE more = <<"part">>
    BY <2>2
  <2>3. CASE more = <<"full">>
    BY <2>3
  <2> QED BY <2>1, <2>2, <2>3
<1>5. r \in Seq(All) /\ Len(r) = n + Len(more)
      /\ (n > 0 => r[1] = w[1]) /\ (n = 0 => r[1] = more[1])
  BY <1>2, <1>4, ConcatProperties
<1>6. r # <<>> /\ Head(r) = r[1]
  BY <1>4, <1>5
<1>7. n = 0 => u = w
  <2>1. SUFFICES ASSUME n = 0 PROVE u = w
    OBVIOUS
  <2>2. Len(u) = Len(w) /\ \A i \in 1 .. Len(w) : u[i] = w[i]
    BY <1>1, <1>3, <2>1
  <2> HIDE DEF u
  <2> QED BY <1>3, <2>2, SeqEqual
<1> QED BY <1>1, <1>3, <1>4, <1>5, <1>6, <1>7, SMTT(30)

\* The response is read: bytes, none, or an error.
LEMMA RecvKeeps ==
  ASSUME HttpInv, UNCHANGED setup, stk # <<>>, RecvFails \/ RecvBlocked \/ RecvBytes
  PROVE  HttpInv'
<1> USE DEF HttpInv, buffers, link
<1>1. /\ Head(stk) = "recv" /\ Elems(stk) = {"recv"} /\ state = "Receiving"
      /\ Proper(Tail(stk)) /\ Elems(Tail(stk)) = {}
      /\ outcome = "open" /\ "recv" \in Bases
  <2>1. Head(stk) = "recv" /\ "recv" \in Bases
    BY DEF RecvFails, RecvBlocked, RecvBytes, Bases
  <2> QED BY <2>1, BaseFacts DEF PlaceInv, On, OutcomeInv, InFlight, Reckless, Reopens
<1>2. CASE RecvFails
  BY <1>1, <1>2, HandlerFails DEF RecvFails
<1>3. CASE RecvBlocked
  <2>1. StackInv' /\ Elems(stk') = {}
    BY <1>1, <1>3 DEF RecvBlocked, StackInv, Proper
  <2>2. TypeOK' /\ BooksInv'
    BY <1>3 DEF RecvBlocked, TypeOK, BooksInv, Holdings
  <2>3. PlaceInv' /\ WireInv' /\ WatchInv' /\ OutcomeInv'
    BY <1>1, <1>3, <2>1
       DEF RecvBlocked, PlaceInv, WireInv, WatchInv, OutcomeInv, InFlight, Reckless, Reopens, On
  <2> QED BY <2>1, <2>2, <2>3
<1>4. CASE RecvBytes
  <2>1. PICK n \in 0 .. Len(wire), more \in {<<>>, <<"part">>, <<"full">>} :
          /\ more # <<>> => n < Len(wire)
          /\ n = 0 => more # <<>>
          /\ recv' = SubSeq(wire, 1, n) \o more
          /\ wire' = SubSeq(wire, n + 1, Len(wire))
    BY <1>4, Zenon DEF RecvBytes
  <2>2. wire \in Seq({"cur", "old"}) /\ Len(wire) \in Nat
    BY DEF TypeOK
  <2>3. /\ recv' \in Seq({"cur", "old", "part", "full"}) /\ recv' # <<>>
        /\ wire' \in Seq({"cur", "old"}) /\ Len(wire') = Len(wire) - n
        /\ n = 0 => wire' = wire /\ Head(recv') \in {"part", "full"}
        /\ n > 0 => Head(recv') = wire[1] /\ wire[1] \in {"cur", "old"}
    BY <2>1, <2>2, Received, Zenon
  <2>4. Complete(recv') <=> n > 0
    BY <2>1, <2>3, SMTT(30) DEF Complete
  <2>5. Len(wire) <= MaxStray + 1
    BY DEF TypeOK
  <2>6. TypeOK' /\ BooksInv'
    <3>1. Len(wire') <= MaxStray + 1
      BY <2>1, <2>2, <2>3, <2>5, EmptyTypes
    <3>2. outcome' \in {"open", "answered"} /\ UNCHANGED <<state, transport, armed, watch>>
      BY <1>1, <1>4, Zenon DEF RecvBytes, TryComplete
    <3>3. UNCHANGED <<send, hasRecv, owned, registered, timer>>
      BY <1>4 DEF RecvBytes
    <3>4. TypeOK'
      BY <2>3, <3>1, <3>2, <3>3 DEF TypeOK
    <3>5. BooksInv'
      BY <1>1, <3>2, <3>3 DEF BooksInv, Holdings
    <3> QED BY <3>4, <3>5
  <2>7. CASE n = 0
    <3>1. UNCHANGED <<state, transport, armed, watch, outcome, stk>> /\ wire' = wire
      BY <1>4, <2>3, <2>4, <2>7, Zenon DEF RecvBytes, TryComplete
    <3>2. StackInv' /\ PlaceInv' /\ WatchInv'
      BY <3>1 DEF StackInv, PlaceInv, WatchInv, On
    <3>3. OutcomeInv' /\ WireInv'
      BY <1>1, <3>1 DEF OutcomeInv, WireInv, InFlight, On
    <3> QED BY <2>6, <3>2, <3>3
  <2>8. CASE n > 0
    <3>1. /\ outcome' = "answered"
          /\ stk' = <<"on_response", "completed">> \o Tail(stk)
          /\ UNCHANGED <<state, transport, armed, watch>>
      BY <1>1, <1>4, <2>4, <2>8, Zenon DEF RecvBytes, TryComplete
    <3>2. StackInv' /\ Elems(stk') = {"on_response", "completed"}
      <4> DEFINE b == <<"completed">> \o Tail(stk)
      <4>1. b \in Seq(Frames) /\ Nested(b, Below) /\ Elems(b) = {"completed"}
        <5>1. "completed" \in Bases BY DEF Bases
        <5> QED BY <1>1, <5>1, PushBase, Zenon
      <4>2. stk' = <<"on_response">> \o b
        <5>1. "on_response" \in Frames /\ "completed" \in Frames /\ Tail(stk) \in Seq(Frames)
          BY <1>1 DEF Frames, Callbacks, Bases, Proper
        <5> QED BY <3>1, <5>1, Push2
      <4> HIDE DEF b
      <4>3. Proper(b) /\ "on_response" \in Callbacks \cup Callers
        BY <4>1 DEF Proper, Owed, Callbacks
      <4> QED BY <4>1, <4>2, <4>3, PushCallback DEF StackInv
    <3>3. Len(wire') <= MaxStray
      BY <2>2, <2>3, <2>5, <2>8, EmptyTypes
    <3>4. ~setup.strays => Head(recv') = "cur" /\ wire' = <<>>
      <4>1. SUFFICES ASSUME ~setup.strays PROVE Head(recv') = "cur" /\ wire' = <<>>
        OBVIOUS
      <4>2. wire = <<"cur">>
        BY <1>4, <4>1 DEF WireInv, RecvBytes
      <4>3. Len(wire) = 1 /\ wire[1] = "cur" /\ n = 1
        BY <4>2, <2>8
      <4> QED BY <2>3, <4>3, EmptySeq
    <3>5. PlaceInv' /\ WatchInv'
      BY <1>1, <3>1, <3>2 DEF PlaceInv, WatchInv, On
    <3>6. OutcomeInv'
      BY <1>1, <2>3, <3>1, <3>2 DEF OutcomeInv, InFlight, Reckless, Reopens, On
    <3>7. WireInv'
      BY <2>3, <3>1, <3>2, <3>3, <3>4 DEF WireInv, On
    <3> QED BY <2>6, <3>2, <3>5, <3>6, <3>7
  <2> QED BY <2>1, <2>7, <2>8
<1> QED BY <1>2, <1>3, <1>4

\* The end of complete(), after the callback.
LEMMA CompletedKeeps ==
  ASSUME HttpInv, UNCHANGED setup, stk # <<>>, Completed
  PROVE  HttpInv'
<1> USE DEF HttpInv, Completed, link
<1>1. /\ Elems(stk) = {"completed"} /\ Proper(Tail(stk)) /\ Elems(Tail(stk)) = {}
  <2>1. Head(stk) = "completed" /\ "completed" \in Bases
    BY DEF Bases
  <2> QED BY <2>1, BaseFacts
<1>2. StackInv' /\ Elems(stk') = {}
  <2>1. CASE stk' = Tail(stk)
    BY <1>1, <2>1 DEF StackInv, Proper
  <2>2. CASE stk' = <<>>
    BY <2>2, EmptyStack DEF StackInv
  <2> QED BY <2>1, <2>2
<1>3. outcome # "open" /\ state \notin {"Idle", "Sending", "Destroyed", "Crashed"}
  BY <1>1 DEF OutcomeInv, PlaceInv, On
<1>4. CASE state \in {"Failed", "Disconnected"} /\ UNCHANGED <<state, send, recv>>
  <2>1. TypeOK' /\ BooksInv'
    BY <1>4 DEF TypeOK, BooksInv, Holdings
  <2>2. PlaceInv' /\ WireInv' /\ WatchInv' /\ OutcomeInv'
    BY <1>1, <1>2, <1>4, Zenon DEF PlaceInv, WireInv, WatchInv, OutcomeInv, InFlight, Reckless, Reopens, On
  <2> QED BY <1>2, <2>1, <2>2
<1>5. CASE /\ state \notin {"Failed", "Disconnected"} /\ recv # <<>>
           /\ recv' = Tail(recv) /\ send' = "empty" /\ state' = "Idle"
  <2>1. state = "Receiving"
    BY <1>3, <1>5 DEF TypeOK, BooksInv
  <2>2. recv' \in Seq({"cur", "old", "part", "full"})
    BY <1>5 DEF TypeOK
  <2>3. TypeOK' /\ BooksInv'
    BY <1>5, <2>1, <2>2 DEF TypeOK, BooksInv, Holdings
  <2>4. PlaceInv' /\ OutcomeInv'
    BY <1>1, <1>2, <1>3, <1>5 DEF PlaceInv, OutcomeInv, InFlight, Reckless, Reopens, On
  <2>5. WireInv'
    BY <1>1, <1>2, <1>5 DEF WireInv, On
  <2>6. WatchInv'
    BY <1>2, <1>5, <2>1 DEF WatchInv, On
  <2> QED BY <1>2, <2>3, <2>4, <2>5, <2>6
<1>6. CASE /\ state \notin {"Failed", "Disconnected"} /\ recv = <<>>
           /\ state' = "Crashed" /\ UNCHANGED <<send, recv>>
  <2>1. TypeOK' /\ BooksInv'
    BY <1>6 DEF TypeOK, BooksInv, Holdings
  <2>2. Reckless /\ Reckless' = Reckless
    BY <1>1, <1>6 DEF OutcomeInv, On, Reckless, Reopens
  <2>3. PlaceInv' /\ WireInv' /\ WatchInv' /\ OutcomeInv'
    BY <1>1, <1>2, <1>3, <1>6, <2>2, Zenon
       DEF PlaceInv, WireInv, WatchInv, OutcomeInv, InFlight, Reckless, Reopens, On
  <2> QED BY <1>2, <2>1, <2>3
<1> QED BY <1>4, <1>5, <1>6

\* Every step keeps the invariant.
LEMMA HttpStep == HttpInv /\ [Next]_vars => HttpInv'
<1>1. SUFFICES ASSUME HttpInv, [Next]_vars PROVE HttpInv'
  OBVIOUS
<1>2. CASE UNCHANGED vars
  <2> USE <1>1, <1>2 DEF HttpInv, vars
  <2>1. TypeOK' /\ StackInv' /\ PlaceInv' /\ BooksInv'
    BY DEF TypeOK, StackInv, PlaceInv, BooksInv, Holdings, On
  <2>2. OutcomeInv' /\ WireInv' /\ WatchInv'
    BY DEF OutcomeInv, WireInv, WatchInv, On, InFlight, Reckless, Reopens
  <2> QED BY <2>1, <2>2
<1>3. CASE Step
  <2>1. stk # <<>> /\ UNCHANGED setup
    BY <1>3 DEF Step
  <2>2. CASE Ready \/ PollOpen
    BY <1>1, <2>1, <2>2, ReadyKeeps
  <2>3. CASE FlushBlocked \/ FlushError \/ FlushAll
    BY <1>1, <2>1, <2>3, FlushKeeps
  <2>4. CASE RecvFails \/ RecvBlocked \/ RecvBytes
    BY <1>1, <2>1, <2>4, RecvKeeps
  <2>5. CASE Completed
    BY <1>1, <2>1, <2>5, CompletedKeeps
  <2>6. CASE CallbackCall
    <3>1. PICK c \in Callbacks, op \in setup.calls :
            Head(stk) \in {c, Called[c]} /\ Call(op, <<Called[c]>> \o Tail(stk))
      BY <2>6 DEF CallbackCall
    <3>2. CallSite(<<Called[c]>> \o Tail(stk))
      BY <1>1, <2>1, <3>1, CallbackSite
    <3> QED BY <1>1, <2>1, <3>1, <3>2, CallKeeps
  <2>7. CASE CallbackReturn
    BY <1>1, <2>1, <2>7, CallbackReturnKeeps
  <2> QED BY <1>3, <2>2, <2>3, <2>4, <2>5, <2>6, <2>7 DEF Step
<1>4. CASE \/ Api \/ Destroy \/ OnReady \/ PollTimeouts \/ Stray
           \/ \E d \in DOMAIN timer : Expire(d)
  BY <1>1, <1>4, OutsideKeeps
<1> QED BY <1>1, <1>2, <1>3, <1>4 DEF Next

\* The client's invariant, for every peer and callbacks that call anything.
THEOREM HttpInvariant == Spec => []HttpInv
  BY HttpInit, HttpStep, PTL DEF Spec

\* Every buffer the client took from the pool is in send_ or recv_, on every
\* path: no error, timeout or close() loses one or gives one back twice.
THEOREM HttpBufferBalance == Spec => []BufferBalance
<1>1. HttpInv => BufferBalance
  BY DEF HttpInv, BooksInv, BufferBalance
<1> QED BY <1>1, HttpInvariant, PTL

\* The response a callback is shown is the one to the request in flight, if the
\* peer sends nothing unasked for.
THEOREM HttpResponseMatches == Spec => []ResponseMatches
<1>1. HttpInv => ResponseMatches
  BY PopFrame DEF HttpInv, WireInv, On, ResponseMatches
<1> QED BY <1>1, HttpInvariant, PTL

\* Every accepted request comes to exactly one end: one response, one error, or
\* a close() or destructor. Only connect() with a request in flight drops it, and
\* try_complete() consumes from the recv_ it parsed, however many calls the
\* callbacks make, unless they connect over a request in flight, or close and
\* connect again.
THEOREM HttpOneOutcome == Spec => []OneOutcome
<1>1. HttpInv => OneOutcome
  BY QuietFacts DEF HttpInv, OutcomeInv, On, OneOutcome, Reckless
<1> QED BY <1>1, HttpInvariant, PTL

\* In poller mode the loop waits for writing exactly while the client connects
\* or has something to send, so that a blocked request is resumed and an idle
\* socket wakes nobody.
THEOREM HttpInterestExact == Spec => []InterestExact
<1>1. HttpInv => InterestExact
  <2>1. SUFFICES ASSUME HttpInv, Quiet, watch # "none"
                 PROVE  watch = "write" <=> state \in {"Connecting", "Sending"}
    BY DEF InterestExact
  <2>2. ~On("flush") /\ state \notin {"Destroyed", "Crashed"}
    BY <2>1, QuietFacts DEF On, Quiet
  <2> QED BY <2>1, <2>2 DEF HttpInv, WatchInv
<1> QED BY <1>1, HttpInvariant, PTL
=============================================================================
