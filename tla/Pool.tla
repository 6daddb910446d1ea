-------------------------------- MODULE Pool --------------------------------
(***************************************************************************)
(* What BufferPool promises its callers: a LIFO stack of free buffers from *)
(* which a thread takes one atomically, or learns that there is none, and  *)
(* to which a live buffer is given back atomically.                        *)
(***************************************************************************)
EXTENDS Naturals, Sequences

CONSTANTS Threads, Buffers, NoBuffer, Empty

VARIABLES
  free,    \* the free buffers; the last element is the top of the stack
  out,     \* the buffers callers own, or that are on their way to a caller
  result   \* what an acquire() that has not returned yet will return

poolVars == <<free, out, result>>

Top(s) == s[Len(s)]
Pop(s) == [i \in 1 .. Len(s) - 1 |-> s[i]]

\* A new pool owns some buffers, each once, and nobody has one yet.
PoolInit ==
  /\ free \in Seq(Buffers)
  /\ \A i, j \in 1 .. Len(free) : free[i] = free[j] => i = j
  /\ out = {}
  /\ result = [t \in Threads |-> NoBuffer]

Get(t) ==
  /\ result[t] = NoBuffer
  /\ \/ /\ free # <<>>
        /\ result' = [result EXCEPT ![t] = Top(free)]
        /\ free' = Pop(free)
        /\ out' = out \cup {Top(free)}
     \/ /\ free = <<>>
        /\ result' = [result EXCEPT ![t] = Empty]
        /\ UNCHANGED <<free, out>>

Return(t) ==
  /\ result[t] # NoBuffer
  /\ result' = [result EXCEPT ![t] = NoBuffer]
  /\ UNCHANGED <<free, out>>

Put(b) ==
  /\ b \in out
  /\ out' = out \ {b}
  /\ free' = Append(free, b)
  /\ UNCHANGED result

PoolNext ==
  \/ \E t \in Threads : Get(t) \/ Return(t)
  \/ \E b \in Buffers : Put(b)

PoolSpec == PoolInit /\ [][PoolNext]_poolVars
=============================================================================
