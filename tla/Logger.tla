------------------------------- MODULE Logger -------------------------------
(***************************************************************************)
(* lepton's logger (include/lepton/base/logger.h, src/base/logger.cpp).    *)
(* Any thread logs by queueing a record; the one backend of the process    *)
(* writes records out only while a thread drives it, between start_logger  *)
(* and stop_logger. Records differ in nothing here, so it is enough to     *)
(* know whether some are still queued.                                     *)
(***************************************************************************)
VARIABLES
  root,      \* lepton_root_logger is set
  worker,    \* lepton_manual_worker: "none", "acquired", "bound" to the polling
             \* thread, or "released"
  unwritten  \* some record is queued and not written

logVars == <<root, worker, unwritten>>

LoggerInit == root = FALSE /\ worker = "none" /\ unwritten = FALSE

\* Acquire the worker, then make the root logger on the sinks asked for. The
\* worker stays acquired if there is none, which throws.
InitLogger(sinks) ==
  /\ UNCHANGED unwritten
  /\ IF root THEN UNCHANGED <<root, worker>> ELSE worker' = "acquired" /\ root' = (sinks # {})

StartLogger ==
  /\ worker' = IF worker = "none" THEN worker ELSE "bound"
  /\ UNCHANGED <<root, unwritten>>

\* poll_logger_for() may run out of time, poll_logger_once() takes one record.
PollLogger ==
  /\ unwritten' \in IF worker = "bound" THEN {unwritten, FALSE} ELSE {unwritten}
  /\ UNCHANGED <<root, worker>>

\* Mutant: the worker is released with records still queued.
StopLogger_NoDrain ==
  /\ worker' = IF worker = "none" THEN worker ELSE "released"
  /\ UNCHANGED <<root, unwritten>>

StopLogger ==
  /\ unwritten' = (unwritten /\ worker # "bound")
  /\ worker' = IF worker = "none" THEN worker ELSE "released"
  /\ UNCHANGED root

\* A LEPTON_LOG_* statement, and one that is not always reached.
Log      == unwritten' = TRUE /\ UNCHANGED <<root, worker>>
MaybeLog == Log \/ UNCHANGED logVars
=============================================================================
