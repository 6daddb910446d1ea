-------------------------------- MODULE Fifo --------------------------------
(***************************************************************************)
(* What one thread that hands messages to another may rely on: a bounded   *)
(* first-in first-out queue that refuses a message only when it is full.   *)
(***************************************************************************)
EXTENDS Naturals, Sequences

CONSTANTS N, Message

VARIABLES
  queue,    \* messages handed over and not yet given back
  seen,     \* the last message the receiver looked at, 0 before the first
  refused   \* messages the queue had no room for

fifoVars == <<queue, seen, refused>>

Init == queue = <<>> /\ seen = 0 /\ refused = {}

Put(m) == Len(queue) < N /\ queue' = Append(queue, m) /\ UNCHANGED <<seen, refused>>

Refuse(m) == Len(queue) = N /\ refused' = refused \cup {m} /\ UNCHANGED <<queue, seen>>

Look == queue # <<>> /\ seen' = Head(queue) /\ UNCHANGED <<queue, refused>>

Take == queue # <<>> /\ seen = Head(queue) /\ queue' = Tail(queue) /\ UNCHANGED <<seen, refused>>

Next == Look \/ Take \/ \E m \in Message : Put(m) \/ Refuse(m)

Spec == Init /\ [][Next]_fifoVars
=============================================================================
