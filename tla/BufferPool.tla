----------------------------- MODULE BufferPool -----------------------------
(***************************************************************************)
(* lepton::BufferPool, POSIX backend (include/lepton/base/buffer_pool.h):  *)
(* a Treiber stack whose head word packs a version and the index of the    *)
(* top free buffer, and whose links are intrusive: a free buffer's first   *)
(* word is the index of the next one, and belongs to the caller as soon as *)
(* the buffer is handed out.                                               *)
(*                                                                         *)
(* A step is one access to shared memory: a load of the head, a read or a  *)
(* write of a link, a compare-and-swap, an update of the counter.          *)
(***************************************************************************)
EXTENDS Integers, Sequences, FiniteSets

CONSTANTS
  Threads,      \* threads that call acquire() and release()
  Count,        \* count_, the number of buffers
  VerMod,       \* number of versions; 2^32 in the code
  SizeMod,      \* number of values of available_; 2^64 in the code
  MaxOvertake   \* most successful swaps between a load of the head and the
                \* swap that uses what was loaded

ASSUME ConstantsOK ==
  /\ IsFiniteSet(Threads)
  /\ Count \in Nat \ {0}
  /\ VerMod \in Nat
  /\ SizeMod \in Nat
  /\ MaxOvertake \in Nat

\* The version tells two head words apart only while it has not gone once
\* around during one thread's load-to-swap window.
ASSUME NoFullTurn == MaxOvertake < VerMod

\* The counter can represent every number of free buffers.
ASSUME CounterWide == Count < SizeMod

Buffers == 0 .. Count - 1
Nil     == -1            \* index -1 in the head, UINT32_MAX in a link
Index   == Buffers \cup {Nil}
Heads   == [ver : 0 .. VerMod - 1, idx : Index]

NoHead  == [ver |-> 0, idx |-> Nil]   \* version 0, index -1

VARIABLES
  head,       \* head_free_val_
  next,       \* next[b]: the first word of b, its next_idx while it is free
  available,  \* available_
  held,       \* buffers with a live IOBuffer handle outside the pool
  pc,         \* pc[t]: the shared access thread t makes next
  old,        \* old[t]: old_val, the head word t works from
  link,       \* link[t]: next_idx as t's acquire() read it
  buf,        \* buf[t]: the buffer t's release() gives back
  stack,      \* history: the free buffers, the last one on top
  age         \* history: successful swaps since t obtained old[t]

vars == <<head, next, available, held, pc, old, link, buf, stack, age>>

\* Mutant: there is no version.
NextVer_None(v) == v

NextVer(v) == IF v + 1 = VerMod THEN 0 ELSE v + 1

InWindow(t) == pc[t] \in {"acq_read", "acq_cas", "rel_link", "rel_cas"}

\* The window of thread t is open while it has a head word to compare with.
MayOvertake(t) == \A u \in Threads \ {t} : InWindow(u) => age[u] < MaxOvertake

Init ==
  /\ \/ /\ head = [ver |-> 0, idx |-> 0]
        /\ next = [b \in Buffers |-> IF b = Count - 1 THEN Nil ELSE b + 1]
        /\ available = Count
        /\ stack = [i \in 1 .. Count |-> Count - i]
     \/ \* no arena: both mmap calls failed
        /\ head = NoHead
        /\ next = [b \in Buffers |-> Nil]
        /\ available = 0
        /\ stack = <<>>
  /\ held = {}
  /\ pc = [t \in Threads |-> "idle"]
  /\ old = [t \in Threads |-> NoHead]
  /\ link = [t \in Threads |-> Nil]
  /\ buf = [t \in Threads |-> Nil]
  /\ age = [t \in Threads |-> 0]

-----------------------------------------------------------------------------
(* acquire() *)

\* The call of thread t returns and its locals are gone.
Done(t) ==
  /\ pc' = [pc EXCEPT ![t] = "idle"]
  /\ old' = [old EXCEPT ![t] = NoHead]
  /\ link' = [link EXCEPT ![t] = Nil]
  /\ buf' = [buf EXCEPT ![t] = Nil]
  /\ age' = [age EXCEPT ![t] = 0]

\* The value a failed compare_exchange_weak, or the first load, leaves in
\* old_val, and where the retry loop goes from there.
Reload(t, nonempty, empty) ==
  /\ old' = [old EXCEPT ![t] = head]
  /\ age' = [age EXCEPT ![t] = 0]
  /\ pc' = [pc EXCEPT ![t] = IF head.idx = Nil THEN empty ELSE nonempty]

\* A successful swap is a step of every other thread's window.
Swap(t, idx) ==
  /\ head = old[t]
  /\ MayOvertake(t)
  /\ head' = [ver |-> NextVer(old[t].ver), idx |-> idx]
  /\ age' = [u \in Threads |-> IF InWindow(u) /\ u # t THEN age[u] + 1 ELSE 0]

AcquireLoad(t) ==
  /\ pc[t] = "idle"
  /\ Reload(t, "acq_read", "acq_empty")
  /\ UNCHANGED <<head, next, available, held, link, buf, stack>>

\* A plain read of a word that may belong to another thread's caller by now.
AcquireRead(t) ==
  /\ pc[t] = "acq_read"
  /\ link' = [link EXCEPT ![t] = next[old[t].idx]]
  /\ pc' = [pc EXCEPT ![t] = "acq_cas"]
  /\ UNCHANGED <<head, next, available, held, old, buf, stack, age>>

AcquireCas(t) ==
  /\ pc[t] = "acq_cas"
  /\ Swap(t, link[t])
  /\ pc' = [pc EXCEPT ![t] = "acq_count"]
  /\ stack' = [i \in 1 .. Len(stack) - 1 |-> stack[i]]
  /\ UNCHANGED <<next, available, held, old, link, buf>>

\* Mutants: a lost race is taken for an empty pool; the retry keeps the head
\* word it has.
AcquireCasFail_Empty(t) ==
  /\ pc[t] = "acq_cas"
  /\ Reload(t, "acq_empty", "acq_empty")
  /\ UNCHANGED <<head, next, available, held, link, buf, stack>>

AcquireCasFail_Stale(t) ==
  /\ pc[t] = "acq_cas"
  /\ pc' = [pc EXCEPT ![t] = "acq_read"]
  /\ UNCHANGED <<head, next, available, held, old, link, buf, stack, age>>

\* The head has changed, or the weak form failed for no reason.
AcquireCasFail(t) ==
  /\ pc[t] = "acq_cas"
  /\ Reload(t, "acq_read", "acq_empty")
  /\ UNCHANGED <<head, next, available, held, link, buf, stack>>

AcquireCount(t) ==
  /\ pc[t] = "acq_count"
  /\ available' = (available - 1) % SizeMod
  /\ held' = held \cup {old[t].idx}
  /\ Done(t)
  /\ UNCHANGED <<head, next, stack>>

\* Mutant: the counter also goes down when there was nothing to take.
AcquireEmpty_Count(t) ==
  /\ pc[t] = "acq_empty"
  /\ available' = (available - 1) % SizeMod
  /\ Done(t)
  /\ UNCHANGED <<head, next, held, stack>>

AcquireEmpty(t) ==
  /\ pc[t] = "acq_empty"
  /\ Done(t)
  /\ UNCHANGED <<head, next, available, held, stack>>

-----------------------------------------------------------------------------
(* release() of a handle that is not null *)

ReleaseLoad(t, b) ==
  /\ pc[t] = "idle"
  /\ b \in held
  /\ held' = held \ {b}
  /\ buf' = [buf EXCEPT ![t] = b]
  /\ Reload(t, "rel_link", "rel_link")
  /\ UNCHANGED <<head, next, available, link, stack>>

ReleaseLink(t) ==
  /\ pc[t] = "rel_link"
  /\ next' = [next EXCEPT ![buf[t]] = old[t].idx]
  /\ pc' = [pc EXCEPT ![t] = "rel_cas"]
  /\ UNCHANGED <<head, available, held, old, link, buf, stack, age>>

ReleaseCas(t) ==
  /\ pc[t] = "rel_cas"
  /\ Swap(t, buf[t])
  /\ pc' = [pc EXCEPT ![t] = "rel_count"]
  /\ stack' = Append(stack, buf[t])
  /\ UNCHANGED <<next, available, held, old, link, buf>>

ReleaseCasFail(t) ==
  /\ pc[t] = "rel_cas"
  /\ Reload(t, "rel_link", "rel_link")
  /\ UNCHANGED <<head, next, available, held, link, buf, stack>>

ReleaseCount(t) ==
  /\ pc[t] = "rel_count"
  /\ available' = (available + 1) % SizeMod
  /\ Done(t)
  /\ UNCHANGED <<head, next, held, stack>>

\* The owner of a buffer overwrites its first word with data.
UserWrite(b, v) ==
  /\ b \in held
  /\ next' = [next EXCEPT ![b] = v]
  /\ UNCHANGED <<head, available, held, pc, old, link, buf, stack, age>>

-----------------------------------------------------------------------------

Acquire(t) ==
  \/ AcquireLoad(t) \/ AcquireRead(t) \/ AcquireCas(t) \/ AcquireCasFail(t)
  \/ AcquireCount(t) \/ AcquireEmpty(t)

Release(t) ==
  \/ \E b \in Buffers : ReleaseLoad(t, b)
  \/ ReleaseLink(t) \/ ReleaseCas(t) \/ ReleaseCasFail(t) \/ ReleaseCount(t)

Next ==
  \/ \E t \in Threads : Acquire(t) \/ Release(t)
  \/ \E b \in Buffers, v \in Index : UserWrite(b, v)

Spec == Init /\ [][Next]_vars

\* A thread inside acquire() or release() keeps running; and a weak swap
\* that could succeed over and over does not fail for ever for no reason.
Fairness ==
  \A t \in Threads :
    /\ WF_vars(AcquireRead(t) \/ AcquireCount(t) \/ AcquireEmpty(t))
    /\ WF_vars(ReleaseLink(t) \/ ReleaseCount(t))
    /\ WF_vars(AcquireCas(t) \/ AcquireCasFail(t))
    /\ WF_vars(ReleaseCas(t) \/ ReleaseCasFail(t))
    /\ SF_vars(AcquireCas(t))
    /\ SF_vars(ReleaseCas(t))

FairSpec == Spec /\ Fairness

-----------------------------------------------------------------------------
(* Properties *)

PCs == {"idle", "acq_read", "acq_cas", "acq_count", "acq_empty",
        "rel_link", "rel_cas", "rel_count"}

\* Every variable keeps its type; in particular the version and the counter
\* stay within their words and a head index never leaves the arena.
TypeOK ==
  /\ head \in Heads
  /\ next \in [Buffers -> Index]
  /\ available \in 0 .. SizeMod - 1
  /\ held \subseteq Buffers
  /\ pc \in [Threads -> PCs]
  /\ old \in [Threads -> Heads]
  /\ link \in [Threads -> Index]
  /\ buf \in [Threads -> Index]
  /\ stack \in Seq(Buffers)
  /\ age \in [Threads -> Nat]

Acquired(t)  == pc[t] = "acq_count"              \* off the list, not returned
Releasing(t) == pc[t] \in {"rel_link", "rel_cas"} \* given back, not on the list

Free == {stack[i] : i \in 1 .. Len(stack)}

\* No buffer is handed out twice: one that acquire() has just taken is not
\* free, has no live handle, is not being released, and was taken by no other
\* thread (test_buffer_pool.cpp asserts it by writing thread ids into buffers).
Exclusive ==
  \A t \in Threads : Acquired(t) =>
    /\ old[t].idx \notin held \cup Free
    /\ \A u \in Threads : Acquired(u) /\ old[u].idx = old[t].idx => u = t
    /\ \A u \in Threads : Releasing(u) => buf[u] # old[t].idx

\* A buffer that has been given back is free exactly once or still with the
\* thread that releases it; it is never both free and owned.
FreeOnce ==
  /\ Free \cap held = {}
  /\ \A i, j \in 1 .. Len(stack) : stack[i] = stack[j] => i = j
  /\ \A t \in Threads : Releasing(t) => buf[t] \notin Free \cup held
  /\ \A t, u \in Threads : Releasing(t) /\ Releasing(u) /\ buf[t] = buf[u] => t = u

\* The links in memory thread exactly the free buffers, top to bottom: the
\* head names the top, every free buffer's first word names the one below.
LinksOK ==
  /\ head.idx = (IF stack = <<>> THEN Nil ELSE stack[Len(stack)])
  /\ \A i \in 1 .. Len(stack) :
       next[stack[i]] = IF i = 1 THEN Nil ELSE stack[i - 1]

WindowOf(t) ==
  /\ pc[t] \in {"acq_read", "acq_cas", "acq_count"} => old[t].idx # Nil
  /\ pc[t] \in {"rel_link", "rel_cas", "rel_count"} => buf[t] # Nil
  /\ pc[t] = "rel_cas" => next[buf[t]] = old[t].idx
  /\ InWindow(t) =>
       /\ age[t] <= MaxOvertake
       /\ \/ head.ver = old[t].ver + age[t]
          \/ head.ver = old[t].ver + age[t] - VerMod
       /\ age[t] = 0 => head = old[t]
       /\ age[t] = 0 /\ pc[t] = "acq_cas" => link[t] = next[old[t].idx]

\* No ABA: the head equals the word a thread loaded only if no swap has
\* happened since, and then the link acquire() read is still the right one,
\* although it was read from a buffer that others may have taken, overwritten
\* and given back in the meantime.
WindowOK == \A t \in Threads : WindowOf(t)

\* All of it together: types, one owner per buffer, a free list that is the
\* stack, and no ABA. This is the inductive invariant behind the theorems of
\* BufferPoolProofs.
IInv == TypeOK /\ Exclusive /\ FreeOnce /\ LinksOK /\ WindowOK

InFlight == {old[t].idx : t \in {u \in Threads : Acquired(u)}}
              \cup {buf[t] : t \in {u \in Threads : Releasing(u)}}

Outside == held \cup InFlight      \* the buffers that are not free

Owned == Free \cup Outside

\* No step loses a buffer or makes one up: what is free, owned by a caller or
\* on its way between the two stays the same set ("no leaks or duplicates",
\* test_buffer_pool.cpp).
NoLeak == [][Owned' = Owned]_vars

\* available_ is the number of free buffers, corrected for the threads that
\* have swapped the head and not yet updated the counter; so it is exact when
\* no call is in progress (test_buffer_pool.cpp joins its threads and compares
\* it with the pool size). In between it may wrap below zero.
AvailableExact ==
  available = (Len(stack)
                 + Cardinality({t \in Threads : pc[t] = "acq_count"})
                 - Cardinality({t \in Threads : pc[t] = "rel_count"})) % SizeMod

\* What an acquire() that has swapped or seen an empty pool will return.
Result == [t \in Threads |-> CASE pc[t] = "acq_count" -> old[t].idx
                               [] pc[t] = "acq_empty" -> Nil
                               [] OTHER -> Nil - 1]

Atomic == INSTANCE Pool WITH NoBuffer <- Nil - 1, Empty <- Nil,
                             free <- stack, out <- Outside, result <- Result

\* acquire() and release() take effect atomically at one of their steps: the
\* pool is a LIFO stack, and acquire() reports an empty pool only if the pool
\* was empty during the call.
ImplementsPool == Atomic!PoolSpec

\* Lock-freedom: a thread leaves its retry loop, or others complete swaps
\* over and over; the loop alone never keeps everybody from progressing.
LockFree ==
  \A t \in Threads :
    \/ []<>(~InWindow(t))
    \/ []<><<head' # head>>_vars
=============================================================================
