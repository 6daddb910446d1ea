------------------------------ MODULE Pipeline ------------------------------
(***************************************************************************)
(* The programs the repository gives as the way to use it: a reactor that  *)
(* receives messages and hands them to another core through an SpscRing,   *)
(* and a logger on a core of its own (examples/best_practice_example.cpp,  *)
(* multi_threaded_busy_poll_example.cpp, fstack_busy_poll_example.cpp).    *)
(* They differ in who runs the reactor, who ends the run, and in what      *)
(* order the threads are stopped.                                          *)
(***************************************************************************)
EXTENDS SpscRing, Logger, FiniteSets

CONSTANTS
  Examples,   \* the programs considered
  MaxMessages \* most messages the peer sends

ASSUME MessageBound == MaxMessages \in Nat

VARIABLES
  example,    \* which program this is
  pc,         \* where each thread is: "off" before it is spawned, "done" after
  joined,     \* the std::threads that were joined
  gRunning,   \* g_running
  stopping,   \* the loop's running_ is false again
  timeUp,     \* the time the program gives itself has passed
  alive,      \* which of the session and its pool exist
  reported,   \* the latency report was printed
  recvd       \* messages received so far, and the number of the last one

progVars == <<joined, gRunning, stopping, timeUp, alive, reported, recvd>>
vars == <<example, pc, progVars, ringVars, logVars>>

Threads == {"main", "md", "core", "log"}
Reactor == IF example = "multi" THEN "md" ELSE "main"
Ended   == pc["main"] \in {"done", "aborted", "terminated"}

\* std::threads, whose destructor ends the program unless they were joined.
Joinable == {t \in {"md", "core"} : pc[t] # "off"} \ joined

Init ==
  /\ example \in Examples
  /\ pc = [t \in Threads |-> IF t = "main" THEN "start" ELSE "off"]
  /\ joined = {} /\ gRunning = TRUE /\ stopping = FALSE /\ timeUp = FALSE
  /\ alive = {} /\ reported = FALSE /\ recvd = 0
  /\ RingInit /\ LoggerInit

Goto(t, from, to) == ~Ended /\ pc[t] = from /\ pc' = [pc EXCEPT ![t] = to]

Spawn(t, from, to, new) ==
  ~Ended /\ pc[t] = from /\ pc' = [pc EXCEPT ![t] = to, ![new] = IF new = "md" THEN "init" ELSE "pin"]

Join(t, from, to, other) ==
  /\ Goto(t, from, to) /\ pc[other] \in {"off", "done"}
  /\ joined' = joined \cup {other}
  /\ UNCHANGED <<gRunning, stopping, timeUp, alive, reported, recvd, ringVars, logVars>>

-----------------------------------------------------------------------------
(* Main threads *)

\* Mutant: main does not wait for the consumer after a failed init().
BestMain_NoJoin ==
  \/ /\ Spawn("main", "start", "resolve", "log")
     /\ InitLogger({"console", "file"}) /\ UNCHANGED <<progVars, ringVars>>
  \/ Goto("main", "resolve", "unwind") /\ Log /\ UNCHANGED <<progVars, ringVars>>
  \/ Spawn("main", "resolve", "init", "core") /\ UNCHANGED <<progVars, ringVars, logVars>>
  \/ /\ Goto("main", "init", "unwind") /\ Log
     /\ gRunning' = FALSE /\ UNCHANGED <<joined, stopping, timeUp, alive, reported, recvd, ringVars>>

\* Logger, endpoint, consumer, then the reactor on this thread. A failed init()
\* stops and joins the consumer.
BestMain ==
  \/ /\ Spawn("main", "start", "resolve", "log")
     /\ InitLogger({"console", "file"}) /\ UNCHANGED <<progVars, ringVars>>
  \/ Goto("main", "resolve", "unwind") /\ Log /\ UNCHANGED <<progVars, ringVars>>
  \/ Spawn("main", "resolve", "init", "core") /\ UNCHANGED <<progVars, ringVars, logVars>>
  \/ /\ Goto("main", "init", "ran") /\ Log
     /\ gRunning' = FALSE /\ UNCHANGED <<joined, stopping, timeUp, alive, reported, recvd, ringVars>>
  \/ /\ Goto("main", "init", "top") /\ Log
     /\ alive' = {"ws", "pool"} /\ UNCHANGED <<joined, gRunning, stopping, timeUp, reported, recvd, ringVars>>
  \/ Join("main", "ran", "unwind", "core")

\* Logger and endpoint; the reactor is md_thread.
MultiStart ==
  \/ /\ Spawn("main", "start", "resolve", "log")
     /\ InitLogger({"console", "file"}) /\ UNCHANGED <<progVars, ringVars>>
  \/ Goto("main", "resolve", "unwind") /\ Log /\ UNCHANGED <<progVars, ringVars>>
  \/ Spawn("main", "resolve", "spawn", "md") /\ UNCHANGED <<progVars, ringVars, logVars>>

\* Main sleeps, then stops both threads and reports.
MultiMain ==
  \/ Spawn("main", "spawn", "sleep", "core") /\ Log /\ UNCHANGED <<progVars, ringVars>>
  \/ /\ timeUp /\ Goto("main", "sleep", "join_md")
     /\ gRunning' = FALSE
     /\ UNCHANGED <<joined, stopping, timeUp, alive, reported, recvd, ringVars, logVars>>
  \/ Join("main", "join_md", "join_core", "md")
  \/ Join("main", "join_core", "report", "core")
  \/ /\ Goto("main", "report", "unwind")
     /\ reported' = TRUE
     /\ UNCHANGED <<joined, gRunning, stopping, timeUp, alive, recvd, ringVars, logVars>>

\* A failed init() ends the run early; connect() may report a state.
MultiReactor ==
  \/ /\ Goto("md", "init", "done") /\ Log
     /\ gRunning' = FALSE /\ UNCHANGED <<joined, stopping, timeUp, alive, reported, recvd, ringVars>>
  \/ /\ Goto("md", "init", "top") /\ MaybeLog
     /\ alive' = {"ws", "pool"} /\ UNCHANGED <<joined, gRunning, stopping, timeUp, reported, recvd, ringVars>>
  \/ Goto("md", "ran", "done") /\ UNCHANGED <<progVars, ringVars, logVars>>

\* The reactor on this thread; the other two are spawned last, so that early
\* returns find no logger.
FstackStart ==
  \/ Goto("main", "start", "init") /\ InitLogger({"console", "file"}) /\ UNCHANGED <<progVars, ringVars>>
  \/ Goto("main", "init", "unwind") /\ Log /\ UNCHANGED <<progVars, ringVars>>
  \/ /\ Goto("main", "init", "resolve") /\ alive' = {"pool"}
     /\ UNCHANGED <<joined, gRunning, stopping, timeUp, reported, recvd, ringVars, logVars>>
  \/ Goto("main", "resolve", "unwind") /\ Log /\ UNCHANGED <<progVars, ringVars>>
  \/ /\ Spawn("main", "resolve", "spawn", "log") /\ MaybeLog
     /\ alive' = {"ws", "pool"} /\ UNCHANGED <<joined, gRunning, stopping, timeUp, reported, recvd, ringVars>>

FstackMain ==
  \/ Spawn("main", "spawn", "top", "core") /\ Log /\ UNCHANGED <<progVars, ringVars>>
  \/ Goto("main", "ran", "unwind") /\ Log /\ UNCHANGED <<progVars, ringVars>>

\* Destructors at the end of main: a std::thread still joinable terminates the
\* program; the logger's jthread is asked to stop and joined.
Unwind ==
  /\ pc["main"] = "unwind"
  /\ \/ Joinable # {} /\ Goto("main", "unwind", "terminated") /\ UNCHANGED alive
     \/ Joinable = {} /\ pc["log"] \in {"off", "done"} /\ Goto("main", "unwind", "done") /\ alive' = {}
  /\ UNCHANGED <<joined, gRunning, stopping, timeUp, reported, recvd, ringVars, logVars>>

-----------------------------------------------------------------------------
(* The reactor: EventLoop::run() with each program's hooks and callbacks *)

Hooked == Goto(Reactor, "top", "poll") /\ ~stopping

Stops(b) == stopping' = b /\ UNCHANGED <<joined, gRunning, timeUp, alive, reported, recvd, ringVars>>

BestHook == Hooked /\ MaybeLog /\ Stops(timeUp)

MultiHook == Hooked /\ Stops(~gRunning) /\ IF gRunning THEN MaybeLog ELSE UNCHANGED logVars

FstackHook == Hooked /\ Stops(timeUp) /\ IF timeUp THEN Log ELSE MaybeLog

\* The session had nothing (more) for the callbacks, or changed its state.
PollDone == Goto(Reactor, "poll", "top") /\ MaybeLog /\ UNCHANGED <<progVars, ringVars>>

Receive == recvd < MaxMessages /\ recvd' = recvd + 1

\* on_message: a message that finds the ring full is dropped.
BestOnMessage ==
  /\ Receive /\ UNCHANGED <<joined, gRunning, stopping, timeUp, alive, reported, logVars>>
  /\ \/ Goto(Reactor, "poll", "fill") /\ AllocSlot
     \/ Goto(Reactor, "poll", "poll") /\ AllocFull(recvd')

\* on_message of the other two: some messages are of no interest.
TickOnMessage ==
  \/ BestOnMessage
  \/ /\ Goto(Reactor, "poll", "poll") /\ Receive
     /\ UNCHANGED <<joined, gRunning, stopping, timeUp, alive, reported, ringVars, logVars>>

\* Mutant: the slot is published before it is filled.
Publish_Early ==
  /\ UNCHANGED <<progVars, logVars>>
  /\ \/ Goto(Reactor, "fill", "commit") /\ Commit
     \/ /\ Goto(Reactor, "commit", "poll")
        /\ data' = [data EXCEPT ![Slot(Minus(w, 1))] = recvd]
        /\ UNCHANGED <<w, r, rCache, wCache, seen, refused>>

Publish ==
  /\ UNCHANGED <<progVars, logVars>>
  /\ \/ Goto(Reactor, "fill", "commit") /\ Fill(recvd)
     \/ Goto(Reactor, "commit", "poll") /\ Commit

\* Where run() returns, or the process dies in the teardown of the stack under
\* it, which the examples expect of F-Stack.
RunEnds(from) ==
  /\ UNCHANGED <<progVars, ringVars, logVars>>
  /\ \/ Goto(Reactor, from, "ran")
     \/ ~Ended /\ pc[Reactor] = from /\ pc' = [pc EXCEPT !["main"] = "aborted"]

\* The shutdown hook lets go of the session or of the pool.
Reset(from, to, what) ==
  /\ Goto(Reactor, from, to)
  /\ alive' = alive \ {what}
  /\ UNCHANGED <<joined, gRunning, stopping, timeUp, reported, recvd, ringVars>>

\* Mutant: the report does not wait for the consumer.
BestShutdown_NoJoin ==
  \/ /\ stopping /\ Goto("main", "top", "hook_report")
     /\ gRunning' = FALSE
     /\ UNCHANGED <<joined, stopping, timeUp, alive, reported, recvd, ringVars, logVars>>
  \/ /\ Goto("main", "hook_report", "hook_free")
     /\ reported' = TRUE
     /\ UNCHANGED <<joined, gRunning, stopping, timeUp, alive, recvd, ringVars, logVars>>
  \/ Reset("hook_free", "hook_pool", "ws") /\ UNCHANGED logVars
  \/ Reset("hook_pool", "hook_end", "pool") /\ Log
  \/ RunEnds("hook_end")

\* The shutdown hook: stop and join the consumer, report, release.
BestShutdown ==
  \/ /\ stopping /\ Goto("main", "top", "hook_join")
     /\ gRunning' = FALSE
     /\ UNCHANGED <<joined, stopping, timeUp, alive, reported, recvd, ringVars, logVars>>
  \/ Join("main", "hook_join", "hook_report", "core")
  \/ /\ Goto("main", "hook_report", "hook_free")
     /\ reported' = TRUE
     /\ UNCHANGED <<joined, gRunning, stopping, timeUp, alive, recvd, ringVars, logVars>>
  \/ Reset("hook_free", "hook_pool", "ws") /\ UNCHANGED logVars
  \/ Reset("hook_pool", "hook_end", "pool") /\ Log
  \/ RunEnds("hook_end")

\* close() may report a state.
MultiShutdown ==
  \/ stopping /\ Reset("top", "hook_pool", "ws") /\ MaybeLog
  \/ Reset("hook_pool", "hook_end", "pool") /\ UNCHANGED logVars
  \/ RunEnds("hook_end")

\* As BestShutdown, but nothing is logged at its end.
FstackShutdown ==
  \/ /\ stopping /\ Goto("main", "top", "hook_join")
     /\ gRunning' = FALSE
     /\ UNCHANGED <<joined, stopping, timeUp, alive, reported, recvd, ringVars, logVars>>
  \/ Join("main", "hook_join", "hook_report", "core")
  \/ /\ Goto("main", "hook_report", "hook_free")
     /\ reported' = TRUE
     /\ UNCHANGED <<joined, gRunning, stopping, timeUp, alive, recvd, ringVars, logVars>>
  \/ Reset("hook_free", "hook_pool", "ws") /\ UNCHANGED logVars
  \/ Reset("hook_pool", "hook_end", "pool") /\ UNCHANGED logVars
  \/ RunEnds("hook_end")

-----------------------------------------------------------------------------
(* The consumer and the logger *)

\* Mutant: the consumer waits for a message without looking at g_running.
Consumer_Waits ==
  /\ UNCHANGED progVars
  /\ \/ Goto("core", "pin", "loop") /\ MaybeLog /\ UNCHANGED ringVars
     \/ Goto("core", "loop", IF gRunning THEN "peek" ELSE "done") /\ UNCHANGED <<ringVars, logVars>>
     \/ Goto("core", "peek", "peek") /\ PeekEmpty /\ UNCHANGED logVars
     \/ Goto("core", "peek", "use") /\ PeekSlot /\ UNCHANGED logVars
     \/ Goto("core", "use", "release") /\ Use /\ MaybeLog
     \/ Goto("core", "release", "loop") /\ Release /\ UNCHANGED logVars

\* g_running is looked at before every message; what is left is not consumed.
Consumer ==
  /\ UNCHANGED progVars
  /\ \/ Goto("core", "pin", "loop") /\ MaybeLog /\ UNCHANGED ringVars
     \/ Goto("core", "loop", IF gRunning THEN "peek" ELSE "done") /\ UNCHANGED <<ringVars, logVars>>
     \/ Goto("core", "peek", "loop") /\ PeekEmpty /\ UNCHANGED logVars
     \/ Goto("core", "peek", "use") /\ PeekSlot /\ UNCHANGED logVars
     \/ Goto("core", "use", "release") /\ Use /\ MaybeLog
     \/ Goto("core", "release", "loop") /\ Release /\ UNCHANGED logVars

\* The other two also keep their samples by channel.
TickConsumer == Consumer

StopRequested == pc["main"] = "unwind" /\ Joinable = {}

\* pin_to_core(), PollLoggerScope, and polling until told to stop.
LoggerThread(stop) ==
  /\ UNCHANGED <<progVars, ringVars>>
  /\ \/ Goto("log", "pin", "bind") /\ MaybeLog
     \/ Goto("log", "bind", "drain") /\ StartLogger
     \/ stop /\ Goto("log", "drain", "flush") /\ UNCHANGED logVars
     \/ ~stop /\ Goto("log", "drain", "drain") /\ PollLogger
     \/ Goto("log", "flush", "done") /\ StopLogger

\* This one also ends with g_running.
FstackLogger == LoggerThread(StopRequested \/ ~gRunning)

-----------------------------------------------------------------------------
Main ==
  \/ example = "best"   /\ BestMain
  \/ example = "multi"  /\ (MultiStart \/ MultiMain)
  \/ example = "fstack" /\ (FstackStart \/ FstackMain)
  \/ Unwind

React ==
  \/ example = "best"   /\ (BestHook \/ BestShutdown)
  \/ example = "multi"  /\ (MultiHook \/ MultiShutdown \/ MultiReactor)
  \/ example = "fstack" /\ (FstackHook \/ FstackShutdown)
  \/ PollDone \/ Publish

Deliver == IF example = "best" THEN BestOnMessage ELSE TickOnMessage

Collect == IF example = "best" THEN Consumer ELSE TickConsumer

LoggerRun == IF example = "fstack" THEN FstackLogger ELSE LoggerThread(StopRequested)

Clock ==
  /\ ~Ended /\ ~timeUp /\ timeUp' = TRUE
  /\ UNCHANGED <<pc, joined, gRunning, stopping, alive, reported, recvd, ringVars, logVars>>

Finished == Ended /\ UNCHANGED vars

Next == UNCHANGED example /\ (Main \/ React \/ Deliver \/ Collect \/ LoggerRun \/ Clock \/ Finished)

\* Every thread keeps its core, and time passes. Nothing is assumed of the peer.
Fairness ==
  /\ WF_vars(UNCHANGED example /\ Main)     /\ WF_vars(UNCHANGED example /\ React)
  /\ WF_vars(UNCHANGED example /\ Collect)  /\ WF_vars(UNCHANGED example /\ LoggerRun)
  /\ WF_vars(UNCHANGED example /\ Clock)

Spec == Init /\ [][Next]_vars /\ Fairness

-----------------------------------------------------------------------------
(* Properties *)

\* While the reactor fills a slot the consumer is not looking at that slot, and
\* the ring never holds more than N messages, whatever copies of the indices
\* the two sides go by and however often these wrap.
SlotExclusive ==
  /\ Minus(w, r) <= N
  /\ pc[Reactor] = "fill" /\ pc["core"] \in {"use", "release"} => Slot(w) # Slot(r)

\* What the reactor hands over reaches the consumer whole, once and in order,
\* and a message is dropped only when N of them are waiting.
Queue == INSTANCE Fifo WITH queue <- Held, Message <- 1 .. MaxMessages
ImplementsFifo == Queue!Spec

\* The report is made of samples nobody adds to any more, and a program that
\* prints it from the shutdown hook has printed it even if it then dies in the
\* teardown of the stack ("the statistics have already been printed").
ReportFinal ==
  /\ reported => pc["core"] = "done"
  /\ pc["main"] = "aborted" /\ example # "multi" => reported

\* No path to the end of main leaves a thread to terminate the program. The
\* session goes before the pool its buffers return to ("session first, then
\* pool", best_practice_example.cpp:319), and both before run() returns into the
\* teardown of the stack.
CleanExit ==
  /\ pc["main"] # "terminated"
  /\ "ws" \in alive => "pool" \in alive
  /\ pc[Reactor] = "ran" \/ Ended => alive = {}

\* Everything logged on any thread is written when main returns, also after an
\* early return. The F-Stack example's logger goes before its other threads.
LogsWritten == pc["main"] = "done" /\ example # "fstack" => ~unwritten

\* Every program ends: no thread waits for one that waits for it.
Terminates == <>Ended
=============================================================================
