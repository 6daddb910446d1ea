-------------------------- MODULE EventLoopProofs ---------------------------
(***************************************************************************)
(* Theorems about EventLoop, for any number of objects, batches of any     *)
(* size, and callbacks that add, remove or destroy any object.             *)
(***************************************************************************)
EXTENDS EventLoop, SequenceLemmas

\* Where step() is: pos counts through the batch or the table, limit is what
\* it was told to stop at.
Control ==
  /\ pc = "hook" <=> pos = 0
  /\ pos = 0 => limit = 0 /\ events = <<>> /\ fresh = {}
  /\ busyPoll => events = <<>>
  /\ pos <= limit + 1 /\ (pc = "call" => pos <= limit)
  /\ pos > 0 => limit <= Len(IF busyPoll THEN sessions ELSE events)

\* sessions_ holds registered objects, each once, and nulls; in busy-poll mode
\* what was registered during a pass lies behind the pass's limit.
Table ==
  /\ watched \subseteq registered /\ registered \subseteq alive
  /\ \A i \in 1 .. Len(sessions) : sessions[i] # Null => sessions[i] \in registered
  /\ \A i, j \in 1 .. Len(sessions) :
       sessions[i] # Null /\ sessions[i] = sessions[j] => i = j
  /\ busyPoll => \A i \in 1 .. Len(sessions) : sessions[i] \in fresh => i > limit

\* The entries of the batch that are still to be dispatched.
Rest(j) == j > pos \/ (pc = "walk" /\ j = pos)

\* None of them is gone, or was registered after the batch was taken.
Batch ==
  \A j \in 1 .. Len(events) :
    Rest(j) /\ events[j] # Null => events[j] \in registered /\ events[j] \notin fresh

\* The invariant of the loop, which is inductive.
LoopInv == TypeOK /\ Control /\ Table /\ Batch

\* A function on 1 .. n is a sequence.
LEMMA FcnSeq ==
  ASSUME NEW S, NEW n \in Nat, NEW f \in [1 .. n -> S]
  PROVE  f \in Seq(S) /\ Len(f) = n /\ \A i \in 1 .. n : f[i] \in S
  OBVIOUS

\* A new loop.
LEMMA LoopInit == Init => LoopInv
  BY LoopConstants DEF Init, LoopInv, TypeOK, Control, Table, Batch, Slots

\* add(): the object goes to the end of the table and, with a poller, to it.
LEMMA AddKeeps ==
  ASSUME LoopInv, NEW p \in Pollables, Add(p)
  PROVE  LoopInv'
<1> USE DEF LoopInv, Add, User
<1>1. /\ Len(sessions') = Len(sessions) + 1 /\ sessions' \in Seq(Slots)
      /\ sessions'[Len(sessions) + 1] = p
      /\ \A i \in 1 .. Len(sessions) : sessions'[i] = sessions[i]
  BY DEF TypeOK, Slots
<1>2. \A i \in 1 .. Len(sessions') : i \in 1 .. Len(sessions) \/ i = Len(sessions) + 1
  BY <1>1 DEF TypeOK
<1>3. TypeOK'
  BY <1>1, LoopConstants DEF TypeOK, Slots
<1>4. Control'
  BY <1>1, LoopConstants DEF TypeOK, Control
<1>5. Table'
  <2>1. watched' \subseteq registered' /\ registered' \subseteq alive'
    BY DEF Table
  <2>2. \A i \in 1 .. Len(sessions') : sessions'[i] # Null => sessions'[i] \in registered'
    BY <1>1, <1>2 DEF Table
  <2>3. \A i, j \in 1 .. Len(sessions') :
          sessions'[i] # Null /\ sessions'[i] = sessions'[j] => i = j
    BY <1>1, <1>2, LoopConstants DEF Table
  <2>4. busyPoll' => \A i \in 1 .. Len(sessions') : sessions'[i] \in fresh' => i > limit'
    BY <1>1, <1>2, LoopConstants DEF TypeOK, Control, Table
  <2> QED BY <2>1, <2>2, <2>3, <2>4 DEF Table
<1>6. Batch'
  BY DEF TypeOK, Control, Table, Batch, Rest
<1> QED BY <1>3, <1>4, <1>5, <1>6

\* remove(): the object's slot in the table and its tokens in the rest of the
\* batch become null.
LEMMA UnregisterKeeps ==
  ASSUME LoopInv, NEW p \in registered, User, Unregister(p),
         alive' = alive \/ alive' = alive \ {p},
         UNCHANGED <<busyPoll, pos, limit, pc, callee, fresh>>
  PROVE  LoopInv'
<1> USE DEF LoopInv, Unregister
<1>1. /\ sessions' \in Seq(Slots) /\ Len(sessions') = Len(sessions)
      /\ \A i \in 1 .. Len(sessions) :
           sessions'[i] = IF sessions[i] = p THEN Null ELSE sessions[i]
  <2>1. \A i \in 1 .. Len(sessions) :
          Nulled(p)[i] = IF sessions[i] = p THEN Null ELSE sessions[i]
    BY LoopConstants DEF Nulled, TypeOK, Table
  <2>2. Nulled(p) \in [1 .. Len(sessions) -> Slots]
    BY DEF Nulled, TypeOK, Slots
  <2> QED BY <2>1, <2>2, FcnSeq, SMTT(30) DEF TypeOK
<1>2. /\ events' \in Seq(Slots) /\ Len(events') = Len(events)
      /\ \A j \in 1 .. Len(events) :
           events'[j] = IF pos > 0 /\ j > pos /\ events[j] = p THEN Null ELSE events[j]
  <2>1. Scrubbed(p) \in [1 .. Len(events) -> Slots]
    BY DEF Scrubbed, TypeOK, Slots
  <2>2. \A j \in 1 .. Len(events) :
           Scrubbed(p)[j] = IF pos > 0 /\ j > pos /\ events[j] = p THEN Null ELSE events[j]
    BY DEF Scrubbed, TypeOK
  <2> QED BY <2>1, <2>2, FcnSeq, SMTT(30) DEF TypeOK
<1>3. TypeOK'
  BY <1>1, <1>2, LoopConstants DEF TypeOK, Slots
<1>4. Control'
  BY <1>1, <1>2, LoopConstants DEF TypeOK, Control
<1>5. Table'
  <2>1. watched' \subseteq registered' /\ registered' \subseteq alive'
    BY DEF Table
  <2>2. \A i \in 1 .. Len(sessions') : sessions'[i] # Null => sessions'[i] \in registered'
    BY <1>1 DEF Table
  <2>3. \A i, j \in 1 .. Len(sessions') :
          sessions'[i] # Null /\ sessions'[i] = sessions'[j] => i = j
    BY <1>1 DEF Table
  <2>4. busyPoll' => \A i \in 1 .. Len(sessions') : sessions'[i] \in fresh' => i > limit'
    BY <1>1, LoopConstants DEF TypeOK, Table
  <2> QED BY <2>1, <2>2, <2>3, <2>4 DEF Table
<1>6. Batch'
  BY <1>2, LoopConstants DEF TypeOK, Control, Table, Batch, Rest, User
<1> QED BY <1>3, <1>4, <1>5, <1>6

\* The destructor of a registered object removes it.
LEMMA DestroyKeeps ==
  ASSUME LoopInv, NEW p \in Pollables, Destroy(p)
  PROVE  LoopInv'
<1>1. CASE p \in registered /\ Unregister(p)
  BY <1>1, UnregisterKeeps DEF Destroy
<1>2. CASE p \notin registered /\ UNCHANGED <<watched, events, sessions, registered>>
  BY <1>2 DEF Destroy, LoopInv, TypeOK, Control, Table, Batch, Rest
<1> QED BY <1>1, <1>2 DEF Destroy

\* The start of a pass: the batch comes from the backend, or the pass is bounded
\* by the table's size.
LEMMA BeginWalkKeeps ==
  ASSUME LoopInv, BeginWalk
  PROVE  LoopInv'
<1> USE DEF LoopInv, BeginWalk
<1>1. CASE busyPoll /\ limit' = Len(sessions) /\ UNCHANGED events
  BY <1>1, LoopConstants DEF TypeOK, Control, Table, Batch, Rest
<1>2. CASE /\ ~busyPoll
           /\ events' \in UNION {[1 .. n -> watched] : n \in 0 .. MaxEvents}
           /\ limit' = Len(events')
  <2>1. PICK n \in 0 .. MaxEvents : events' \in [1 .. n -> watched]
    BY <1>2
  <2>2. n \in Nat /\ events' \in Seq(watched) /\ Len(events') = n
    BY <2>1, LoopConstants, FcnSeq
  <2>3. \A i \in 1 .. n : events'[i] \in watched
    BY <2>1
  <2>4. events' \in Seq(Slots)
    BY <2>2, <2>3 DEF TypeOK, Slots
  <2>5. TypeOK'
    BY <1>2, <2>1, <2>2, <2>4, LoopConstants DEF TypeOK
  <2>6. Control' /\ Table'
    BY <1>2, <2>2, LoopConstants DEF TypeOK, Control, Table
  <2>7. Batch'
    BY <1>2, <2>2, <2>3, LoopConstants DEF TypeOK, Control, Table, Batch, Rest
  <2> QED BY <2>5, <2>6, <2>7
<1> QED BY <1>1, <1>2

\* The end of a pass: the nulls leave the table.
LEMMA EndWalkKeeps ==
  ASSUME LoopInv, EndWalk
  PROVE  LoopInv'
<1> USE DEF LoopInv, EndWalk
<1>1. CASE ~busyPoll
  BY <1>1, LoopConstants DEF TypeOK, Control, Table, Batch, Rest
<1>2. CASE busyPoll
  <2>1. sessions' = Erase(sessions, Null)
    BY <1>2
  <2>2. /\ sessions' \in Seq(Slots)
        /\ Thinned(sessions', sessions, Null, Len(sessions))
    BY <2>1, EraseProperties DEF TypeOK
  <2>3. Len(sessions') <= Len(sessions)
    BY <2>2, ThinnedLen DEF TypeOK
  <2>4. PICK m \in [1 .. Len(sessions') -> 1 .. Len(sessions)] :
     /\ \A a, b \in 1 .. Len(sessions') : a < b => m[a] < m[b]
     /\ \A a \in 1 .. Len(sessions') :
          sessions'[a] = sessions[m[a]] /\ sessions[m[a]] # Null
    BY <2>2 DEF Thinned
  <2>5. \A a, b \in 1 .. Len(sessions') : m[a] = m[b] => a = b
    BY <2>2, <2>4
  <2>6. TypeOK'
    BY <2>2, <2>3, LoopConstants DEF TypeOK
  <2>7. Control'
    BY <1>2, LoopConstants DEF TypeOK, Control
  <2>8. Table'
    <3>1. \A a \in 1 .. Len(sessions') : m[a] \in 1 .. Len(sessions)
      BY <2>4
    <3>2. \A i \in 1 .. Len(sessions') : sessions'[i] \in registered
      BY <2>4, <3>1 DEF Table
    <3>3. \A i, j \in 1 .. Len(sessions') : sessions'[i] = sessions'[j] => i = j
      BY <2>4, <2>5, <3>1 DEF Table
    <3> QED BY <3>2, <3>3 DEF Table
  <2>9. Batch'
    BY DEF TypeOK, Control, Batch
  <2> QED BY <2>6, <2>7, <2>8, <2>9
<1> QED BY <1>1, <1>2

\* Every step keeps the invariant.
LEMMA LoopStep == LoopInv /\ [Next]_vars => LoopInv'
<1>1. SUFFICES ASSUME LoopInv, [Next]_vars PROVE LoopInv'
  OBVIOUS
<1>2. CASE UNCHANGED vars
  BY <1>1, <1>2 DEF vars, LoopInv, TypeOK, Control, Table, Batch, Rest, Slots
<1>3. ASSUME NEW p \in Pollables, Add(p) PROVE LoopInv'
  BY <1>1, <1>3, AddKeeps
<1>4. ASSUME NEW p \in Pollables, Remove(p) PROVE LoopInv'
  BY <1>1, <1>4, UnregisterKeeps DEF Remove
<1>5. ASSUME NEW p \in Pollables, Destroy(p) PROVE LoopInv'
  BY <1>1, <1>5, DestroyKeeps
<1>6. ASSUME NEW p \in Pollables, Create(p) PROVE LoopInv'
  BY <1>1, <1>6 DEF Create, User, LoopInv, TypeOK, Control, Table, Batch, Rest
<1>7. CASE BeginWalk
  BY <1>1, <1>7, BeginWalkKeeps
<1>8. CASE SkipSlot
  <2> USE <1>1, <1>8, LoopConstants DEF SkipSlot, LoopInv
  <2>1. TypeOK'
    BY DEF TypeOK, Control
  <2>2. Control'
    BY DEF TypeOK, Control
  <2>3. Table' /\ Batch'
    BY DEF TypeOK, Control, Table, Batch, Rest
  <2> QED BY <2>1, <2>2, <2>3
<1>9. CASE CallSlot
  <2>1. Slot(pos) \in Slots
    BY <1>1, <1>9 DEF CallSlot, LoopInv, TypeOK, Control, Slot
  <2> QED
    BY <1>1, <1>9, <2>1 DEF CallSlot, LoopInv, TypeOK, Control, Table, Batch, Rest
<1>10. CASE Return
  <2> USE <1>1, <1>10, LoopConstants DEF Return, LoopInv
  <2>1. TypeOK'
    BY DEF TypeOK, Control, Slots
  <2>2. Control'
    BY DEF TypeOK, Control
  <2>3. Table' /\ Batch'
    BY DEF TypeOK, Control, Table, Batch, Rest
  <2> QED BY <2>1, <2>2, <2>3
<1>11. CASE EndWalk
  BY <1>1, <1>11, EndWalkKeeps
<1> QED
  BY <1>1, <1>2, <1>3, <1>4, <1>5, <1>6, <1>7, <1>8, <1>9, <1>10, <1>11 DEF Next, Step

\* The loop's invariant, for any number of objects, batches of any size, both
\* modes, and callbacks that add, remove and destroy anything at any time.
THEOREM LoopInvariant == Spec => []LoopInv
  BY LoopInit, LoopStep, PTL DEF Spec

\* The loop indexes neither the table nor the batch outside its bounds, although
\* callbacks grow the table while it is walked.
THEOREM LoopInBounds == Spec => []InBounds
<1>1. LoopInv => InBounds
  BY DEF LoopInv, Control, InBounds
<1> QED BY <1>1, LoopInvariant, PTL

\* What the loop may still call exists and is registered, also when an earlier
\* callback of the same pass removed or destroyed any of the others.
THEOREM LoopNoDangling == Spec => []NoDangling
<1>1. LoopInv => NoDangling
  BY DEF LoopInv, TypeOK, Table, Batch, Rest, NoDangling
<1> QED BY <1>1, LoopInvariant, PTL

\* An object registered during a pass is not called before the next one.
THEOREM LoopFreshWaits == Spec => FreshWaits
<1>1. LoopInv /\ [Next]_vars => [pc = "walk" /\ pc' = "call" => callee' \notin fresh]_vars
  <2>1. SUFFICES ASSUME LoopInv, Next, pc = "walk", pc' = "call"
                 PROVE  callee' \notin fresh
    BY DEF vars
  <2>2. CallSlot
    BY <2>1 DEF Next, Step, Add, Remove, Destroy, Create, BeginWalk, SkipSlot, Return,
                EndWalk
  <2> QED
    BY <2>1, <2>2 DEF CallSlot, Slot, LoopInv, TypeOK, Control, Table, Batch, Rest
<1> QED BY <1>1, LoopInvariant, PTL DEF Spec, FreshWaits
=============================================================================
