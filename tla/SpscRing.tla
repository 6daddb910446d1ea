------------------------------ MODULE SpscRing ------------------------------
(***************************************************************************)
(* SpscRing<T, N>, through which the reactor hands messages to another     *)
(* core (examples/best_practice_example.cpp; the other two examples have   *)
(* the same class as SPSCQueue). The indices are free-running 32-bit       *)
(* counters, here modulo Wrap, and each side keeps a copy of the other's   *)
(* that may be old. Each operator is what one access to shared memory      *)
(* separates from the next; the threads that take these steps are those of *)
(* the module that extends this one.                                       *)
(***************************************************************************)
EXTENDS Naturals, Sequences

CONSTANTS
  N,        \* slots, a power of two
  Wrap      \* stands for 2^32, a multiple of N

ASSUME RingConstants == N \in Nat \ {0} /\ Wrap \in Nat /\ Wrap % N = 0 /\ Wrap > N

VARIABLES
  w, r,     \* w_ and r_
  rCache,   \* r_cache_, of the producer
  wCache,   \* w_cache_, of the consumer
  data,     \* data_, by slot; 0 where nothing was ever written
  seen,     \* history: the message the consumer last read out of its slot
  refused   \* history: the messages that found the ring full

ringVars == <<w, r, rCache, wCache, data, seen, refused>>

Minus(a, b) == (a + Wrap - b) % Wrap
Slot(i)     == i % N

RingInit ==
  /\ w = 0 /\ r = 0 /\ rCache = 0 /\ wCache = 0
  /\ data = [s \in 0 .. N - 1 |-> 0]
  /\ seen = 0 /\ refused = {}

\* Mutant: the reload is compared with the index plus one.
AllocSlot_OffByOne ==
  /\ IF Minus(w, rCache) > N THEN rCache' = r /\ Minus(w, r) <= N ELSE UNCHANGED rCache
  /\ UNCHANGED <<w, r, wCache, data, seen, refused>>

\* alloc() returns a slot, with the index it remembers or after a reload.
AllocSlot ==
  /\ IF Minus(w, rCache) >= N THEN rCache' = r /\ Minus(w, r) < N ELSE UNCHANGED rCache
  /\ UNCHANGED <<w, r, wCache, data, seen, refused>>

\* alloc() returns nullptr: full even after a reload.
AllocFull(m) ==
  /\ Minus(w, rCache) >= N /\ Minus(w, r) >= N
  /\ rCache' = r
  /\ refused' = refused \cup {m}
  /\ UNCHANGED <<w, r, wCache, data, seen>>

Fill(m) == data' = [data EXCEPT ![Slot(w)] = m] /\ UNCHANGED <<w, r, rCache, wCache, seen, refused>>

Commit == w' = (w + 1) % Wrap /\ UNCHANGED <<r, rCache, wCache, data, seen, refused>>

\* peek() returns a slot.
PeekSlot ==
  /\ IF r = wCache THEN wCache' = w /\ r # w ELSE UNCHANGED wCache
  /\ UNCHANGED <<w, r, rCache, data, seen, refused>>

PeekEmpty == r = wCache /\ r = w /\ UNCHANGED ringVars

Use == seen' = data[Slot(r)] /\ UNCHANGED <<w, r, rCache, wCache, data, refused>>

Release == r' = (r + 1) % Wrap /\ UNCHANGED <<w, rCache, wCache, data, seen, refused>>

Held == [i \in 1 .. Minus(w, r) |-> data[Slot(r + i - 1)]]
=============================================================================
