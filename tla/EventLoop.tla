------------------------------ MODULE EventLoop ------------------------------
(***************************************************************************)
(* lepton::net::EventLoop::step() and the registration table it walks      *)
(* (include/lepton/net/event_loop.h), in both modes: busy polling calls    *)
(* every slot of the table, poller mode a batch of events.                 *)
(*                                                                         *)
(* What makes it hard is that the step hook and every on_ready() may add,  *)
(* remove, destroy and create pollables, the one being called included,    *)
(* while the walk is under way. A pollable here is an address: after a     *)
(* destruction another object may live there.                              *)
(***************************************************************************)
EXTENDS Naturals, Sequences, FiniteSets, Erase

CONSTANTS
  Pollables,   \* addresses
  Null,        \* nullptr
  MaxEvents,   \* most events one wait() returns
  MaxSlots     \* bound on the length of the table

ASSUME LoopConstants ==
  /\ Null \notin Pollables
  /\ MaxEvents \in Nat /\ MaxSlots \in Nat

VARIABLES
  busyPoll,    \* cfg_.busy_poll, chosen once
  sessions,    \* sessions_, with its nulled slots
  watched,     \* tokens registered with the poller
  alive,       \* addresses at which an object exists
  registered,  \* those whose add() succeeded, with no remove() since
  events,      \* tokens of the current batch
  pos,         \* index of the walk; 0 outside it (current_event_idx_ = -1)
  limit,       \* where the walk ends: size, or current_event_count_
  pc,          \* "hook", "walk" or, inside an on_ready(), "call"
  callee,      \* the pollable whose on_ready() runs
  fresh        \* history: registered since this walk began

vars == <<busyPoll, sessions, watched, alive, registered, events, pos, limit, pc, callee,
          fresh>>

Init ==
  /\ busyPoll \in BOOLEAN
  /\ sessions = <<>> /\ watched = {} /\ alive = Pollables /\ registered = {}
  /\ events = <<>> /\ pos = 0 /\ limit = 0
  /\ pc = "hook" /\ callee = Null /\ fresh = {}

-----------------------------------------------------------------------------
(* What the step hook and on_ready() may do *)

User == pc \in {"hook", "call"}

\* In poller mode the kernel may refuse, and then nothing changes.
Add(p) ==
  /\ User /\ p \in alive \ registered
  /\ Len(sessions) < MaxSlots
  /\ watched' = IF busyPoll THEN watched ELSE watched \cup {p}
  /\ sessions' = Append(sessions, p)
  /\ registered' = registered \cup {p}
  /\ fresh' = IF pos > 0 THEN fresh \cup {p} ELSE fresh
  /\ UNCHANGED <<busyPoll, alive, events, pos, limit, pc, callee>>

\* Mutants of remove()'s parts.
Scrubbed_None(p) == events
Nulled_Erase(p)  == Erase(sessions, p)

\* The tokens of p in the rest of the batch are cleared,
Scrubbed(p) == [j \in DOMAIN events |-> IF pos > 0 /\ j > pos /\ events[j] = p
                                        THEN Null ELSE events[j]]

\* and its slot is nulled, not erased.
Nulled(p) ==
  LET at == {i \in DOMAIN sessions : sessions[i] = p}
  IN  [i \in DOMAIN sessions |->
         IF i \in at /\ \A j \in at : i <= j THEN Null ELSE sessions[i]]

Unregister(p) ==
  /\ watched' = watched \ {p}
  /\ events' = Scrubbed(p)
  /\ sessions' = Nulled(p)
  /\ registered' = registered \ {p}

Remove(p) ==
  /\ User /\ p \in registered
  /\ Unregister(p)
  /\ UNCHANGED <<busyPoll, alive, pos, limit, pc, callee, fresh>>

\* A session's destructor removes it if it is registered.
Destroy(p) ==
  /\ User /\ p \in alive
  /\ alive' = alive \ {p}
  /\ \/ p \in registered /\ Unregister(p)
     \/ p \notin registered /\ UNCHANGED <<watched, events, sessions, registered>>
  /\ UNCHANGED <<busyPoll, pos, limit, pc, callee, fresh>>

Create(p) ==
  /\ User /\ p \notin alive
  /\ alive' = alive \cup {p}
  /\ UNCHANGED <<busyPoll, sessions, watched, registered, events,
                 pos, limit, pc, callee, fresh>>

-----------------------------------------------------------------------------
(* step() *)

\* The hook has returned. The size is read once, or the poller is asked: any
\* watched tokens, F-Stack's kqueue possibly one twice.
BeginWalk ==
  /\ pc = "hook"
  /\ pc' = "walk" /\ pos' = 1
  /\ \/ busyPoll /\ limit' = Len(sessions) /\ UNCHANGED events
     \/ /\ ~busyPoll
        /\ events' \in UNION {[1 .. n -> watched] : n \in 0 .. MaxEvents}
        /\ limit' = Len(events')
  /\ UNCHANGED <<busyPoll, sessions, watched, alive, registered, callee, fresh>>

Slot(i) == IF busyPoll THEN sessions[i] ELSE events[i]

SkipSlot ==
  /\ pc = "walk" /\ pos <= limit /\ Slot(pos) = Null
  /\ pos' = pos + 1
  /\ UNCHANGED <<busyPoll, sessions, watched, alive, registered,
                 events, limit, pc, callee, fresh>>

CallSlot ==
  /\ pc = "walk" /\ pos <= limit /\ Slot(pos) # Null
  /\ pc' = "call" /\ callee' = Slot(pos)
  /\ UNCHANGED <<busyPoll, sessions, watched, alive, registered, events, pos, limit, fresh>>

\* Mutants: the walk also covers what was added meanwhile; it skips a slot.
Return_Grow ==
  /\ pc = "call"
  /\ pc' = "walk" /\ callee' = Null /\ pos' = pos + 1
  /\ limit' = IF busyPoll THEN Len(sessions) ELSE limit
  /\ UNCHANGED <<busyPoll, sessions, watched, alive, registered, events, fresh>>

Return_Skip ==
  /\ pc = "call"
  /\ pc' = "walk" /\ callee' = Null /\ pos' = pos + 2
  /\ UNCHANGED <<busyPoll, sessions, watched, alive, registered,
                 events, limit, fresh>>

Return ==
  /\ pc = "call"
  /\ pc' = "walk" /\ callee' = Null /\ pos' = pos + 1
  /\ UNCHANGED <<busyPoll, sessions, watched, alive, registered,
                 events, limit, fresh>>

\* Busy polling sweeps the nulled slots; poller mode leaves them.
EndWalk ==
  /\ pc = "walk" /\ pos > limit
  /\ sessions' = IF busyPoll THEN Erase(sessions, Null) ELSE sessions
  /\ pc' = "hook" /\ pos' = 0 /\ limit' = 0 /\ events' = <<>>
  /\ fresh' = {}
  /\ UNCHANGED <<busyPoll, watched, alive, registered, callee>>

Step == BeginWalk \/ SkipSlot \/ CallSlot \/ Return \/ EndWalk

Next ==
  \/ Step
  \/ \E p \in Pollables : Add(p) \/ Remove(p) \/ Destroy(p) \/ Create(p)

Spec == Init /\ [][Next]_vars

\* The loop runs, and hooks and callbacks return.
FairSpec == Spec /\ WF_vars(BeginWalk \/ Return) /\ WF_vars(SkipSlot \/ CallSlot \/ EndWalk)

-----------------------------------------------------------------------------
(* Properties *)

Slots == Pollables \cup {Null}

\* Types of all variables; the walk never leaves the table or the batch by
\* more than one position.
TypeOK ==
  /\ busyPoll \in BOOLEAN
  /\ sessions \in Seq(Slots) /\ Len(sessions) <= MaxSlots
  /\ events \in Seq(Slots) /\ Len(events) <= MaxEvents
  /\ watched \subseteq Pollables /\ alive \subseteq Pollables
  /\ registered \subseteq Pollables
  /\ fresh \subseteq Pollables
  /\ pos \in 0 .. MaxSlots + MaxEvents + 1 /\ limit \in 0 .. MaxSlots + MaxEvents
  /\ pc \in {"hook", "walk", "call"} /\ callee \in Slots

\* The walk stays inside the table and the batch, whatever is added or removed
\* under way, and all variables keep their types.
InBounds == TypeOK /\ (pos > 0 => limit <= Len(IF busyPoll THEN sessions ELSE events))

\* What the loop may still call exists and is registered: every slot of the
\* table, and every token in the rest of the batch ("prevent UAF",
\* event_loop.h:94).
NoDangling ==
  /\ \A i \in DOMAIN sessions : sessions[i] # Null => sessions[i] \in registered \cap alive
  /\ \A j \in DOMAIN events : j > pos /\ events[j] # Null => events[j] \in registered \cap alive

\* An object that was registered during a walk is not called before the next
\* one, in particular not for an event of the object that lived there before.
FreshWaits == [][pc = "walk" /\ pc' = "call" => callee' \notin fresh]_vars

\* In a busy-polling loop every registered pollable is called again and again
\* as long as it stays registered.
EveryoneServed ==
  \A p \in Pollables : busyPoll /\ p \in registered ~> callee = p \/ p \notin registered
=============================================================================
