--------------------------- MODULE EventLoopThread ---------------------------
(***************************************************************************)
(* lepton::net::EventLoopThread (event_loop_thread.h, event_loop_thread.cpp)*)
(* with the run/stop life cycle of the EventLoop it owns (event_loop.h).   *)
(*                                                                         *)
(* Two threads: the owner, which calls start() and stop() any number of    *)
(* times, and the loop thread, which start() spawns. They meet in          *)
(* init_state, an atomic on the stack of start(), in running_ of both      *)
(* classes, and in thread_.                                                *)
(***************************************************************************)
EXTENDS Naturals

CONSTANTS
  FStack,      \* LEPTON_USE_FSTACK
  MaxSessions, \* most sessions the application has at once
  Stops        \* other ways to stop the application uses: get_loop()->stop()
               \* from the step hook ("hook") or the owner ("owner"), or stop()
               \* from the step hook ("self")

ASSUME ThreadConstants ==
  /\ FStack \in BOOLEAN /\ MaxSessions \in Nat
  /\ Stops \subseteq {"hook", "owner", "self"}

VARIABLES
  opc,       \* what the owner does next
  lpc,       \* what the loop thread does next
  running,   \* EventLoopThread::running_
  looping,   \* EventLoop::running_
  joinable,  \* thread_.joinable()
  loop,      \* loop_ is set
  pool,      \* pool_ is set
  init,      \* init_state: 0, 1 or 2
  alive,     \* whether init_state's stack frame exists
  told,      \* status->done
  hook,      \* shutdown_hook_ of the loop is set
  sessions,  \* the application's sessions, each holding pool buffers
  eal,       \* the F-Stack environment: "down", "up" or, after ff_run, "gone"
  shut       \* history: runs of the shutdown hook in this thread's life

vars == <<opc, lpc, running, looping, joinable, loop, pool, init, alive, told, hook,
          sessions, eal, shut>>

Init ==
  /\ opc = "idle" /\ lpc = "none"
  /\ running = FALSE /\ looping = FALSE /\ joinable = FALSE
  /\ loop = FALSE /\ pool = FALSE
  /\ init = 0 /\ alive = FALSE /\ told = FALSE /\ hook = FALSE
  /\ sessions = 0 /\ eal = "down" /\ shut = 0

-----------------------------------------------------------------------------
(* start(), on the owner *)

StartCall ==
  /\ opc = "idle"
  /\ running' = TRUE
  /\ IF running THEN UNCHANGED <<opc, init, alive>>       \* returns false
     ELSE opc' = "spawn" /\ init' = 0 /\ alive' = TRUE
  /\ UNCHANGED <<lpc, looping, joinable, loop, pool, told, hook, sessions, eal, shut>>

\* The thread runs from here on, before thread_ knows it.
Spawn ==
  /\ opc = "spawn"
  /\ opc' = "assign" /\ lpc' = "init"
  /\ told' = FALSE /\ shut' = 0
  /\ UNCHANGED <<running, looping, joinable, loop, pool, init, alive, hook, sessions,
                 eal>>

\* thread_ = std::thread(...) terminates the process if thread_ is joinable.
Assign ==
  /\ opc = "assign"
  /\ joinable' = TRUE
  /\ opc' = IF joinable THEN "terminated" ELSE "wait"
  /\ UNCHANGED <<lpc, running, looping, loop, pool, init, alive, told, hook, sessions,
                 eal, shut>>

\* Mutant: start() does not wait for the first step.
StartDone_NoWait ==
  /\ opc = "wait" /\ init # 2
  /\ opc' = "idle"
  /\ alive' = FALSE
  /\ UNCHANGED <<lpc, running, looping, joinable, loop, pool, init, told, hook, sessions,
                 eal, shut>>

\* init_state.wait(0), then the load that decides; start() returns true.
StartDone ==
  /\ opc = "wait" /\ init = 1
  /\ opc' = "idle"
  /\ alive' = FALSE
  /\ UNCHANGED <<lpc, running, looping, joinable, loop, pool, init, told, hook,
                 sessions, eal, shut>>

\* start() joins the thread that failed, and returns false.
StartFailed ==
  /\ opc = "wait" /\ init = 2 /\ lpc = "done"
  /\ opc' = "idle"
  /\ alive' = FALSE /\ joinable' = FALSE
  /\ UNCHANGED <<lpc, running, looping, loop, pool, init, told, hook, sessions, eal,
                 shut>>

(* stop(), on the owner; the destructor is the same *)

\* Mutant: stop() joins without telling the loop.
StopCall_NoFlag ==
  /\ opc = "idle"
  /\ opc' = IF joinable THEN "join" ELSE "idle"
  /\ UNCHANGED <<lpc, running, looping, joinable, loop, pool, init, alive, told, hook,
                 sessions, eal, shut>>

StopCall ==
  /\ opc = "idle"
  /\ looping' = IF loop THEN FALSE ELSE looping
  /\ opc' = IF joinable THEN "join" ELSE "idle"
  /\ UNCHANGED <<lpc, running, joinable, loop, pool, init, alive, told, hook, sessions,
                 eal, shut>>

\* get_loop()->stop() by the owner, without waiting.
LoopStop ==
  /\ opc = "idle" /\ loop /\ "owner" \in Stops
  /\ looping' = FALSE
  /\ UNCHANGED <<opc, lpc, running, joinable, loop, pool, init, alive, told, hook,
                 sessions, eal, shut>>

StopJoin ==
  /\ opc = "join" /\ lpc = "done"
  /\ joinable' = FALSE
  /\ opc' = "idle"
  /\ UNCHANGED <<lpc, running, looping, loop, pool, init, alive, told, hook, sessions,
                 eal, shut>>

-----------------------------------------------------------------------------
(* The loop thread *)

\* Under F-Stack lepton::init sets up the environment the first time only;
\* then it returns 0 at once. A failure is stored, notified, and the thread ends.
InitEnv ==
  /\ lpc = "init"
  /\ \/ /\ FStack /\ eal = "down"
        /\ init' = 2 /\ lpc' = "fail_notify"
        /\ UNCHANGED eal
     \/ /\ lpc' = "build"
        /\ eal' = IF FStack /\ eal = "down" THEN "up" ELSE eal
        /\ UNCHANGED init
  /\ UNCHANGED <<opc, running, looping, joinable, loop, pool, alive, told, hook,
                 sessions, shut>>

FailNotify ==
  /\ lpc = "fail_notify"
  /\ lpc' = "exit"
  /\ UNCHANGED <<opc, running, looping, joinable, loop, pool, init, alive, told, hook,
                 sessions, eal, shut>>

\* loop_ and pool_ are made anew and the hooks bound.
Build ==
  /\ lpc = "build"
  /\ loop' = TRUE /\ looping' = FALSE /\ pool' = TRUE /\ hook' = TRUE
  /\ lpc' = "run"
  /\ UNCHANGED <<opc, running, joinable, init, alive, told, sessions, eal, shut>>

\* EventLoop::run() begins.
Run ==
  /\ lpc = "run"
  /\ looping' = TRUE
  /\ lpc' = "check"
  /\ UNCHANGED <<opc, running, joinable, loop, pool, init, alive, told, hook, sessions,
                 eal, shut>>

\* while (running_)
Check ==
  /\ lpc = "check"
  /\ lpc' = IF ~looping THEN "shutdown" ELSE IF told THEN "hook" ELSE "store"
  /\ UNCHANGED <<opc, running, looping, joinable, loop, pool, init, alive, told, hook,
                 sessions, eal, shut>>

\* The first step: status->state.store(1), notify_one(), done.
StepStore ==
  /\ lpc = "store"
  /\ init' = 1
  /\ lpc' = "notify"
  /\ UNCHANGED <<opc, running, looping, joinable, loop, pool, alive, told, hook,
                 sessions, eal, shut>>

StepNotify ==
  /\ lpc = "notify"
  /\ told' = TRUE
  /\ lpc' = "hook"
  /\ UNCHANGED <<opc, running, looping, joinable, loop, pool, init, alive, hook,
                 sessions, eal, shut>>

\* The application's step hook, then the sockets. A thread that joins itself
\* throws, and nothing catches it.
StepHook ==
  /\ lpc = "hook"
  /\ \/ lpc' = "check" /\ sessions' \in 0 .. MaxSessions /\ UNCHANGED looping
     \/ /\ "hook" \in Stops
        /\ looping' = FALSE /\ lpc' = "check" /\ UNCHANGED sessions
     \/ /\ "self" \in Stops
        /\ looping' = FALSE /\ UNCHANGED sessions
        /\ lpc' = IF joinable THEN "terminated" ELSE "check"
  /\ UNCHANGED <<opc, running, joinable, loop, pool, init, alive, told, hook, eal, shut>>

AfterShutdown == IF FStack THEN "unwind" ELSE "exit"

\* Mutant: the pool goes first.
ShutdownHook_Late ==
  /\ lpc = "shutdown"
  /\ IF hook THEN shut' = shut + 1 /\ pool' = FALSE /\ lpc' = "reset"
     ELSE lpc' = AfterShutdown /\ UNCHANGED <<shut, pool>>
  /\ UNCHANGED <<opc, running, looping, joinable, loop, init, alive, told, hook,
                 sessions, eal>>

\* run_shutdown_hook_once(): the application's hook destroys its sessions,
ShutdownHook ==
  /\ lpc = "shutdown"
  /\ IF hook THEN shut' = shut + 1 /\ sessions' = 0 /\ lpc' = "reset"
     ELSE lpc' = AfterShutdown /\ UNCHANGED <<shut, sessions>>
  /\ UNCHANGED <<opc, running, looping, joinable, loop, pool, init, alive, told, hook,
                 eal>>

\* then pool_.reset(), and the hook is gone.
ShutdownPool ==
  /\ lpc = "reset"
  /\ pool' = FALSE
  /\ hook' = FALSE
  /\ lpc' = AfterShutdown
  /\ UNCHANGED <<opc, running, looping, joinable, loop, init, alive, told, sessions,
                 eal, shut>>

\* After ff_stop_run(), ff_run may call the trampoline again before it cleans
\* up and returns.
Unwind ==
  /\ lpc = "unwind"
  /\ \/ lpc' = "shutdown" /\ UNCHANGED eal
     \/ lpc' = "exit" /\ eal' = "gone"
  /\ UNCHANGED <<opc, running, looping, joinable, loop, pool, init, alive, told, hook,
                 sessions, shut>>

Exit ==
  /\ lpc = "exit"
  /\ running' = FALSE
  /\ lpc' = "done"
  /\ UNCHANGED <<opc, looping, joinable, loop, pool, init, alive, told, hook, sessions,
                 eal, shut>>

-----------------------------------------------------------------------------

Terminated == opc = "terminated" \/ lpc = "terminated"

OwnerStep == ~Terminated /\ (Spawn \/ Assign \/ StartDone \/ StartFailed \/ StopJoin)

LoopStep ==
  /\ ~Terminated
  /\ \/ InitEnv \/ FailNotify \/ Build \/ Run \/ Check \/ StepStore \/ StepNotify
     \/ StepHook \/ ShutdownHook \/ ShutdownPool \/ Unwind \/ Exit

Next == (~Terminated /\ (StartCall \/ StopCall \/ LoopStop)) \/ OwnerStep \/ LoopStep

Spec == Init /\ [][Next]_vars

\* Both threads are scheduled, the owner finishes a call it has begun, and
\* ff_run does return after ff_stop_run().
FairSpec ==
  /\ Spec
  /\ WF_vars(OwnerStep) /\ WF_vars(LoopStep)
  /\ SF_vars(LoopStep /\ Unwind /\ lpc' = "exit")

-----------------------------------------------------------------------------
(* Properties *)

OwnerPCs == {"idle", "spawn", "assign", "wait", "join", "terminated"}
LoopPCs == {"none", "init", "fail_notify", "build", "run", "check", "store", "notify",
            "hook", "shutdown", "reset", "unwind", "exit", "done", "terminated"}

Flags ==
  /\ running \in BOOLEAN /\ looping \in BOOLEAN /\ joinable \in BOOLEAN
  /\ loop \in BOOLEAN /\ pool \in BOOLEAN /\ alive \in BOOLEAN
  /\ told \in BOOLEAN /\ hook \in BOOLEAN

Places ==
  /\ opc \in OwnerPCs /\ lpc \in LoopPCs
  /\ eal \in {"down", "up", "gone"}
  /\ init \in 0 .. 2 /\ shut \in 0 .. 1 /\ sessions \in 0 .. MaxSessions

\* Every variable keeps its type; init_state has three values and the shutdown
\* hook runs at most once.
TypeOK == Flags /\ Places

\* start() is still in its frame when the loop thread stores into init_state. The
\* notify_one() that follows the store has no such promise.
StoreAlive == lpc \in {"init", "fail_notify", "build", "run", "store"} => alive

\* A stop() that waits for the thread has been heard: run(), which sets the
\* flag, is always behind the stop() that clears it.
StopHeard == opc = "join" => ~looping

\* Hooks run on a loop and a pool that exist, and no session outlives the pool
\* its buffers belong to ("this is where sessions holding pool buffers must be
\* destroyed", event_loop_thread.h:57).
HookHasPool ==
  /\ lpc \in {"run", "check", "store", "notify", "hook", "shutdown"} /\ hook => loop /\ pool
  /\ sessions > 0 => pool

\* The shutdown hook "runs exactly once on the loop thread when the loop is
\* stopping, AFTER the last step()" (event_loop.h:59), also if ff_run calls the
\* trampoline again.
ShutdownOnce ==
  /\ lpc \in {"init", "build", "run", "check", "store", "notify", "hook"} => shut = 0
  /\ shut <= 1
  /\ lpc \in {"exit", "done"} /\ init = 1 => shut = 1

\* The loop thread takes down what it made in order and once.
TeardownOrder == TypeOK /\ HookHasPool /\ ShutdownOnce

\* When no thread is joinable and the owner is in no call, nothing runs:
\* is_running() is false and the pool is gone (test_event_loop_thread.cpp).
Quiesced ==
  opc = "idle" /\ ~joinable => ~running /\ ~pool /\ lpc \in {"none", "done"}

\* Neither start() nor stop() ends the process: start() "returns true on
\* success" (event_loop_thread.h:40).
NoTerminate == ~Terminated

Starting == {"assign", "wait", "terminated"}   \* the owner is inside start()
Gone     == {"none", "done"}                   \* there is no loop thread

\* Who may be where: until its first step the loop thread has the owner inside
\* start(), and a loop thread that exists is running_ and, for all but start()
\* itself, in thread_.
Handshake ==
  /\ opc \in {"spawn", "assign", "wait"} => alive
  /\ lpc \in {"init", "build", "run", "store"} \/ (lpc = "check" /\ ~told) =>
       opc \in Starting /\ alive /\ init = 0 /\ ~told
  /\ lpc \in {"fail_notify"} => opc \in Starting /\ alive /\ init = 2
  /\ lpc \in {"notify", "hook", "shutdown", "reset", "unwind"} \/ (lpc = "check" /\ told) =>
       init = 1
  /\ lpc = "check" /\ ~told => looping
  /\ lpc = "hook" => told
  /\ lpc = "exit" => init \in {1, 2}
  /\ lpc \notin Gone => running /\ (joinable \/ opc = "assign")
  /\ lpc \in Gone /\ running => opc = "spawn"
  /\ opc = "spawn" => running /\ lpc \in Gone /\ init = 0
  /\ opc \in {"wait", "join"} => joinable
  /\ ~loop => ~looping

\* Where the loop thread is decides what it has made and not yet torn down.
Owned ==
  /\ lpc \in {"run", "check", "store", "notify", "hook"} => loop /\ pool /\ hook
  /\ lpc = "shutdown" => loop /\ (hook <=> pool) /\ (hook <=> shut = 0)
  /\ lpc = "reset" => loop /\ shut = 1 /\ sessions = 0
  /\ lpc = "unwind" => loop /\ shut = 1 /\ ~hook
  /\ lpc \in Gone \cup {"init", "fail_notify", "build", "unwind", "exit"} => ~pool
  /\ sessions > 0 => pool

\* The inductive invariant behind the theorems of EventLoopThreadProofs.
IInv == TypeOK /\ Handshake /\ Owned /\ StopHeard /\ ShutdownOnce

\* start() returns, whether the loop comes up or not, unless the process ends:
\* the wait on init_state is never left alone.
StartReturns == opc = "wait" ~> opc = "idle" \/ Terminated

\* stop() returns, unless the process ends: the thread it joins has heard it,
\* or has ended or is about to end by itself.
StopReturns == opc = "join" ~> opc = "idle" \/ Terminated

\* Neither call waits for a thread that waits for it or has gone.
CallsReturn == StartReturns /\ StopReturns
=============================================================================
