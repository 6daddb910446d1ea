--------------------------- MODULE PipelineProofs ---------------------------
(***************************************************************************)
(* Theorems about the programs of Pipeline: the ring between the reactor   *)
(* and the consumer, for every number of slots, every wrap of the indices  *)
(* it divides and every number of messages, and how the programs end.      *)
(***************************************************************************)
EXTENDS Pipeline, Integers, SequenceTheorems, TLAPS

\* The values of w_, r_ and of the copies of them.
Index == 0 .. Wrap - 1

\* Subtraction of two indices, as unsigned arithmetic does it: they wrap.
LEMMA MinusIs ==
  ASSUME NEW a \in Index, NEW b \in Index
  PROVE  Minus(a, b) = IF a >= b THEN a - b ELSE a + Wrap - b
BY RingConstants, Z3 DEF Minus, Index

\* commit() and release() add one to an index, which may wrap to zero.
LEMMA NextIndex ==
  ASSUME NEW a \in Index
  PROVE  (a + 1) % Wrap = IF a + 1 = Wrap THEN 0 ELSE a + 1
BY RingConstants, Z3 DEF Index

\* The distance of two indices is zero just when they are equal.
LEMMA MinusNat ==
  ASSUME NEW a \in Index, NEW b \in Index
  PROVE  Minus(a, b) \in Nat /\ (Minus(a, b) = 0 <=> a = b)
BY MinusIs, RingConstants DEF Index

\* commit() adds one to the distance of w_ to any index less than N behind it,
\* also when w_ wraps.
LEMMA MinusAhead ==
  ASSUME NEW a \in Index, NEW b \in Index, Minus(a, b) < N
  PROVE  (a + 1) % Wrap \in Index /\ Minus((a + 1) % Wrap, b) = Minus(a, b) + 1
<1> DEFINE c == IF a + 1 = Wrap THEN 0 ELSE a + 1
<1>1. (a + 1) % Wrap = c
  BY NextIndex
<1>2. c \in Index
  BY RingConstants DEF Index
<1>3. Minus(c, b) = IF c >= b THEN c - b ELSE c + Wrap - b
  BY <1>2, MinusIs
<1>4. Minus(a, b) = IF a >= b THEN a - b ELSE a + Wrap - b
  BY MinusIs
<1>5. Minus(c, b) = Minus(a, b) + 1
  BY <1>3, <1>4, RingConstants DEF Index
<1> QED
  BY <1>1, <1>2, <1>5

\* release() takes one off the distance of any other index to r_, also when r_
\* wraps.
LEMMA MinusBehind ==
  ASSUME NEW a \in Index, NEW b \in Index, a # b
  PROVE  (b + 1) % Wrap \in Index /\ Minus(a, (b + 1) % Wrap) = Minus(a, b) - 1
<1> DEFINE c == IF b + 1 = Wrap THEN 0 ELSE b + 1
<1>1. (b + 1) % Wrap = c
  BY NextIndex
<1>2. c \in Index
  BY RingConstants DEF Index
<1>3. Minus(a, c) = IF a >= c THEN a - c ELSE a + Wrap - c
  BY <1>2, MinusIs
<1>4. Minus(a, b) = IF a >= b THEN a - b ELSE a + Wrap - b
  BY MinusIs
<1>5. Minus(a, c) = Minus(a, b) - 1
  BY <1>3, <1>4, RingConstants DEF Index
<1> QED
  BY <1>1, <1>2, <1>5

\* Division with remainder, which gives a slot its index.
LEMMA DivMod ==
  ASSUME NEW a \in Int, NEW n \in Int, n > 0
  PROVE  /\ (a % n) \in 0 .. n - 1
         /\ \E q \in Int : a = n * q + (a % n)
<1>1. (a \div n) \in Int /\ a = n * (a \div n) + (a % n)
  BY SMT
<1>2. (a % n) \in 0 .. n - 1
  BY SMT
<1> QED
  BY <1>1, <1>2

\* No multiple of the number of slots lies strictly between zero and it.
LEMMA NoMultiple ==
  ASSUME NEW n \in Int, NEW q \in Int, n * q > 0, n * q < n
  PROVE  FALSE
<1>1. CASE q >= 1
  <2>1. n * q = n * (q - 1) + n
    BY Z3
  <2>2. n * (q - 1) >= 0
    BY <1>1, Z3
  <2> QED
    BY <2>1, <2>2, Z3
<1>2. CASE q <= 0
  BY <1>2, Z3
<1> QED
  BY <1>1, <1>2

\* Masking an index gives a slot of data_.
LEMMA SlotInData == ASSUME NEW a \in Int PROVE Slot(a) \in 0 .. N - 1
  BY DivMod, RingConstants DEF Slot

\* Indices less than N apart fall into different slots of data_.
LEMMA SlotsDiffer ==
  ASSUME NEW a \in Int, NEW b \in Int, NEW d \in 1 .. N - 1, a = b + d
  PROVE  Slot(a) # Slot(b)
<1> SUFFICES ASSUME (a % N) = (b % N) PROVE FALSE
  BY DEF Slot
<1>0. N \in Int /\ N > 0
  BY RingConstants
<1>1. PICK p \in Int : a = N * p + (a % N)
  BY <1>0, DivMod, Zenon
<1>2. PICK q \in Int : b = N * q + (b % N)
  BY <1>0, DivMod, Zenon
<1>3. (a % N) \in Int
  BY <1>0, DivMod
<1>4. a - b = N * (p - q)
  BY <1>0, <1>1, <1>2, <1>3, Z3
<1>5. a - b > 0 /\ a - b < N
  BY <1>0
<1> QED
  BY <1>0, <1>4, <1>5, NoMultiple

\* Slots follow on each other across the wrap of the index, since the number of
\* slots divides it.
LEMMA SlotWraps == ASSUME NEW a \in Int PROVE Slot(a + Wrap) = Slot(a)
<1> DEFINE b == a + Wrap
<1>0. N \in Int /\ N > 0 /\ Wrap \in Int /\ (Wrap % N) = 0 /\ b \in Int
  BY RingConstants
<1>1. PICK p \in Int : a = N * p + (a % N)
  BY <1>0, DivMod
<1>2. PICK q \in Int : b = N * q + (b % N)
  BY <1>0, DivMod
<1>3. PICK k \in Int : Wrap = N * k + (Wrap % N)
  BY <1>0, DivMod
<1>4. (a % N) \in 0 .. N - 1 /\ (b % N) \in 0 .. N - 1
  BY <1>0, DivMod
<1>5. /\ (b % N) - (a % N) = N * (p + k - q)
      /\ (a % N) - (b % N) = N * (q - p - k)
  BY <1>0, <1>1, <1>2, <1>3, <1>4, Z3
<1>6. /\ ~((b % N) - (a % N) > 0 /\ (b % N) - (a % N) < N)
      /\ ~((a % N) - (b % N) > 0 /\ (a % N) - (b % N) < N)
  BY <1>0, <1>5, NoMultiple
<1> QED
  BY <1>0, <1>4, <1>6 DEF Slot

\* The slot after the last one held is the one alloc() gives out.
LEMMA SlotBeyond ==
  ASSUME NEW a \in Index, NEW b \in Index
  PROVE  Slot(b + Minus(a, b)) = Slot(a)
<1>1. CASE a >= b
  BY <1>1, MinusIs, RingConstants DEF Index
<1>2. CASE ~(a >= b)
  <2>1. b + Minus(a, b) = a + Wrap
    BY <1>2, MinusIs, RingConstants DEF Index
  <2> QED
    BY <2>1, SlotWraps DEF Index
<1> QED
  BY <1>1, <1>2

\* That slot is none of those held, while there are fewer than N of them.
LEMMA SlotFree ==
  ASSUME NEW a \in Index, NEW b \in Index, Minus(a, b) < N, NEW j \in 0 .. Minus(a, b) - 1
  PROVE  Slot(b + j) # Slot(a)
<1>1. Minus(a, b) \in Nat
  BY MinusNat
<1> DEFINE d == Minus(a, b) - j
<1>2. /\ d \in 1 .. N - 1 /\ b + Minus(a, b) \in Int /\ b + j \in Int
      /\ b + Minus(a, b) = (b + j) + d
  BY <1>1, RingConstants DEF Index
<1>3. Slot(b + Minus(a, b)) # Slot(b + j)
  BY ONLY <1>2, SlotsDiffer
<1> QED
  BY <1>3, SlotBeyond

\* The reactor has a slot from alloc(); the consumer has one from peek().
Filling == pc[Reactor] \in {"fill", "commit"}
Reading == pc["core"] \in {"use", "release"}

\* The order of the indices: r_cache_ is behind r_, r_ behind w_cache_ and this
\* behind w_, all within N slots. Each side holds a slot only if its own copy
\* shows it. SlotExclusive alone is not inductive: the copies, which are what
\* alloc() and peek() go by, could be anything.
RingInv ==
  /\ w \in Index /\ r \in Index /\ rCache \in Index /\ wCache \in Index
  /\ DOMAIN pc = Threads
  /\ Minus(w, rCache) <= N
  /\ Minus(w, r) <= Minus(w, rCache)
  /\ Minus(wCache, r) <= Minus(w, r)
  /\ Filling => Minus(w, rCache) < N
  /\ Reading => r # wCache

\* What every step but those of alloc(), commit(), peek() and release() leaves
\* alone: the ring, and where the reactor and the consumer are in using it.
Aside ==
  /\ UNCHANGED <<example, recvd, ringVars>>
  /\ DOMAIN pc' = DOMAIN pc
  /\ Filling' => pc'[Reactor] = pc[Reactor]
  /\ Reading' => pc'["core"] = pc["core"]

\* In that order of the indices the two sides never have the same slot.
LEMMA RingExclusive == RingInv => SlotExclusive
<1> SUFFICES ASSUME RingInv PROVE SlotExclusive
  OBVIOUS
<1>1. Minus(w, r) <= N
  BY RingConstants, MinusIs DEF RingInv, Index
<1>2. ASSUME Filling, Reading PROVE Slot(w) # Slot(r)
  <2>1. Minus(w, r) # 0 /\ Minus(w, r) < N
    BY <1>2, RingConstants, MinusIs DEF RingInv, Index
  <2>2. 0 \in 0 .. Minus(w, r) - 1 /\ r + 0 = r
    BY <2>1, MinusNat DEF RingInv, Index
  <2> QED
    BY <2>1, <2>2, SlotFree DEF RingInv
<1> QED
  BY <1>1, <1>2 DEF SlotExclusive, Filling, Reading

\* A new SpscRing is in order.
LEMMA InitRing == Init => RingInv
<1> SUFFICES ASSUME Init PROVE RingInv
  OBVIOUS
<1>1. w = 0 /\ r = 0 /\ rCache = 0 /\ wCache = 0 /\ 0 \in Index
  BY RingConstants DEF Init, RingInit, Index
<1>2. DOMAIN pc = Threads /\ ~Filling /\ ~Reading
  BY DEF Init, Threads, Reactor, Filling, Reading
<1>3. Minus(0, 0) = 0
  BY <1>1, MinusIs DEF Index
<1> QED
  BY <1>1, <1>2, <1>3, RingConstants DEF RingInv

\* A step aside from the ring keeps it in order.
LEMMA AsideRing == RingInv /\ Aside => RingInv'
  BY DEF RingInv, Aside, ringVars, Filling, Reading, Reactor

\* A step that changes nothing is aside from the ring.
LEMMA StutterAside == UNCHANGED vars => Aside
  BY DEF Aside, vars, progVars, ringVars, Filling, Reading, Reactor

\* What main() does in the three examples is aside from the ring: it starts,
\* stops and joins the threads that use it.
LEMMA MainAside == ASSUME RingInv, UNCHANGED example, Main PROVE Aside
<1> USE DEF Aside, Filling, Reading, Reactor, Threads, Goto, Spawn, Join, progVars, ringVars
<1>0. DOMAIN pc = Threads
  BY DEF RingInv
<1>1. CASE BestMain
  BY <1>0, <1>1 DEF BestMain
<1>2. CASE MultiStart
  BY <1>0, <1>2 DEF MultiStart
<1>3. CASE MultiMain
  BY <1>0, <1>3 DEF MultiMain
<1>4. CASE FstackStart
  BY <1>0, <1>4 DEF FstackStart
<1>5. CASE FstackMain
  BY <1>0, <1>5 DEF FstackMain
<1>6. CASE Unwind
  BY <1>0, <1>6 DEF Unwind
<1> QED
  BY <1>1, <1>2, <1>3, <1>4, <1>5, <1>6 DEF Main

\* So is what the reactor does, its hooks and callbacks other than on_message.
LEMMA ReactAside ==
  ASSUME RingInv, UNCHANGED example, React, ~Publish PROVE Aside
<1> USE DEF Aside, Filling, Reading, Reactor, Threads, Goto, Join, Hooked, Stops, Reset, RunEnds,
            progVars, ringVars
<1>0. DOMAIN pc = Threads
  BY DEF RingInv
<1>1. CASE BestHook
  BY <1>0, <1>1 DEF BestHook
<1>2. CASE BestShutdown
  BY <1>0, <1>2 DEF BestShutdown
<1>3. CASE MultiHook
  BY <1>0, <1>3 DEF MultiHook
<1>4. CASE MultiShutdown
  BY <1>0, <1>4 DEF MultiShutdown
<1>5. CASE MultiReactor
  BY <1>0, <1>5 DEF MultiReactor
<1>6. CASE FstackHook
  BY <1>0, <1>6 DEF FstackHook
<1>7. CASE FstackShutdown
  BY <1>0, <1>7 DEF FstackShutdown
<1>8. CASE PollDone
  BY <1>0, <1>8 DEF PollDone
<1> QED
  BY <1>1, <1>2, <1>3, <1>4, <1>5, <1>6, <1>7, <1>8 DEF React

\* So are the logger's thread and the passing of time.
LEMMA LoggerAside ==
  ASSUME RingInv, UNCHANGED example, LoggerRun \/ Clock PROVE Aside
<1> USE DEF Aside, Filling, Reading, Reactor, Threads, Goto, progVars, ringVars
<1>0. DOMAIN pc = Threads
  BY DEF RingInv
<1>1. CASE Clock
  BY <1>1 DEF Clock
<1>2. ASSUME NEW stop, LoggerThread(stop) PROVE Aside
  BY <1>0, <1>2 DEF LoggerThread
<1> QED
  BY <1>1, <1>2 DEF LoggerRun, FstackLogger

\* Filling a slot and commit() keep the ring in order.
LEMMA PublishRing == ASSUME RingInv, UNCHANGED example, Publish PROVE RingInv'
<1> USE DEF RingInv
<1>1. CASE Goto(Reactor, "fill", "commit") /\ Fill(recvd)
  BY <1>1 DEF Fill, Goto, Filling, Reading, Reactor, Threads
<1>2. CASE Goto(Reactor, "commit", "poll") /\ Commit
  <2>1. /\ UNCHANGED <<r, rCache, wCache>> /\ DOMAIN pc' = Threads
        /\ Filling /\ ~Filling' /\ (Reading' => Reading)
    BY <1>2 DEF Commit, Goto, Filling, Reading, Reactor, Threads
  <2>2. /\ w' \in Index
        /\ Minus(w', rCache) = Minus(w, rCache) + 1 /\ Minus(w', r) = Minus(w, r) + 1
    <3>1. Minus(w, rCache) < N /\ Minus(w, r) < N /\ w' = (w + 1) % Wrap
      BY <1>2, <2>1, MinusNat, RingConstants DEF Commit
    <3> QED
      BY <3>1, MinusAhead
  <2>3. /\ Minus(w', rCache) <= N /\ Minus(w', r) <= Minus(w', rCache)
        /\ Minus(wCache, r) <= Minus(w', r)
    BY <2>1, <2>2, MinusNat, RingConstants
  <2> QED
    BY <2>1, <2>2, <2>3
<1> QED
  BY <1>1, <1>2 DEF Publish

\* alloc() keeps the ring in order, whether or not it reloads r_cache_.
LEMMA AllocRing ==
  ASSUME RingInv, UNCHANGED example, BestOnMessage PROVE RingInv'
<1> USE DEF RingInv
<1>1. CASE Goto(Reactor, "poll", "fill") /\ AllocSlot
  <2>1. UNCHANGED <<w, r, wCache>> /\ (Reading' => Reading) /\ DOMAIN pc' = Threads
    BY <1>1 DEF AllocSlot, Goto, Reading, Reactor, Threads
  <2>2. CASE Minus(w, rCache) >= N
    BY <1>1, <2>1, <2>2, MinusIs, RingConstants DEF AllocSlot, Index
  <2>3. CASE ~(Minus(w, rCache) >= N)
    BY <1>1, <2>1, <2>3, MinusIs, RingConstants DEF AllocSlot, Index
  <2> QED
    BY <2>2, <2>3
<1>2. CASE Goto(Reactor, "poll", "poll") /\ AllocFull(recvd')
  <2>1. UNCHANGED <<w, r, wCache>> /\ (Reading' => Reading) /\ ~Filling' /\ DOMAIN pc' = Threads
    BY <1>2 DEF AllocFull, Goto, Filling, Reading, Reactor, Threads
  <2>2. rCache' = r
    BY <1>2 DEF AllocFull
  <2> QED
    BY <2>1, <2>2, MinusIs, RingConstants DEF Index
<1> QED
  BY <1>1, <1>2 DEF BestOnMessage

\* on_message of every example keeps the ring in order.
LEMMA DeliverRing ==
  ASSUME RingInv, UNCHANGED example, Deliver PROVE RingInv'
<1>1. CASE BestOnMessage
  BY <1>1, AllocRing
<1>2. CASE Goto(Reactor, "poll", "poll") /\ UNCHANGED ringVars
  BY <1>2 DEF RingInv, Goto, Filling, Reading, Reactor, Threads, ringVars
<1> QED
  BY <1>1, <1>2 DEF Deliver, TickOnMessage, ringVars

\* peek() and release() keep the ring in order.
LEMMA ConsumerRing ==
  ASSUME RingInv, UNCHANGED example, Consumer PROVE RingInv'
<1> USE DEF RingInv
<1>0. /\ UNCHANGED <<w, rCache>> /\ DOMAIN pc' = Threads /\ (Filling' => Filling)
      /\ (Reading' => Reading \/ PeekSlot)
  BY DEF Consumer, Goto, Filling, Reading, Reactor, Threads, ringVars,
         PeekSlot, PeekEmpty, Use, Release
<1>1. CASE UNCHANGED <<r, wCache>> /\ ~PeekSlot
  BY <1>0, <1>1
<1>2. CASE PeekSlot
  <2>1. UNCHANGED r /\ wCache' = (IF r = wCache THEN w ELSE wCache) /\ (r # wCache')
    BY <1>2 DEF PeekSlot
  <2> QED
    BY <1>0, <2>1, MinusIs, RingConstants DEF Index
<1>3. CASE Goto("core", "release", "loop") /\ Release
  <2>1. Reading /\ ~Reading' /\ UNCHANGED wCache
    BY <1>3 DEF Goto, Reading, Threads, Release
  <2>2. /\ r' \in Index
        /\ Minus(w, r') = Minus(w, r) - 1 /\ Minus(wCache, r') = Minus(wCache, r) - 1
    <3>1. wCache # r /\ w # r /\ r' = (r + 1) % Wrap
      BY <1>3, <2>1, MinusNat DEF Release
    <3> QED
      BY <3>1, MinusBehind
  <2>3. Minus(w, r') <= Minus(w, rCache) /\ Minus(wCache, r') <= Minus(w, r')
    BY <2>1, <2>2, MinusNat
  <2> QED
    BY <1>0, <2>1, <2>2, <2>3
<1> QED
  BY <1>1, <1>2, <1>3 DEF Consumer, ringVars, PeekEmpty, Use

\* However the threads of an example interleave, r_cache_, r_, w_cache_ and w_
\* stay in this order, within N slots of each other and across wraps.
THEOREM PipelineRing == Spec => []RingInv
<1>1. RingInv /\ [Next]_vars => RingInv'
  <2> SUFFICES ASSUME RingInv, [Next]_vars PROVE RingInv'
    OBVIOUS
  <2>1. CASE UNCHANGED vars
    BY <2>1, StutterAside, AsideRing
  <2>2. CASE UNCHANGED example /\ (Main \/ (React /\ ~Publish) \/ LoggerRun \/ Clock)
    BY <2>2, MainAside, ReactAside, LoggerAside, AsideRing
  <2>3. CASE UNCHANGED example /\ (Publish \/ Deliver \/ Collect)
    BY <2>3, PublishRing, DeliverRing, ConsumerRing DEF Collect, TickConsumer
  <2> QED
    BY <2>1, <2>2, <2>3 DEF Next, Finished
<1> QED
  BY <1>1, InitRing, PTL DEF Spec

\* The reactor never fills the slot the consumer reads, and the ring never holds
\* more than N messages: for every N and every wrap that N divides.
THEOREM PipelineSlotExclusive == Spec => []SlotExclusive
  BY PipelineRing, RingExclusive, PTL

\* What the two sides know of the slots they hold: the reactor's has the message
\* just received once it is filled, and what the consumer read out of its slot
\* is still there when it releases it.
DataInv ==
  /\ data \in [0 .. N - 1 -> Nat]
  /\ recvd \in 0 .. MaxMessages
  /\ Filling => recvd \in 1 .. MaxMessages
  /\ pc[Reactor] = "commit" => data[Slot(w)] = recvd
  /\ pc["core"] = "release" => seen = data[Slot(r)]

\* This holds of a new SpscRing.
LEMMA InitData == Init => DataInv
<1> SUFFICES ASSUME Init PROVE DataInv
  OBVIOUS
<1>1. data \in [0 .. N - 1 -> Nat]
  BY DEF Init, RingInit
<1>2. recvd \in 0 .. MaxMessages
  BY MessageBound DEF Init
<1>3. ~Filling /\ pc[Reactor] # "commit" /\ pc["core"] # "release"
  BY DEF Init, Threads, Reactor, Filling
<1> QED
  BY <1>1, <1>2, <1>3 DEF DataInv

\* A step aside from the ring keeps it.
LEMMA AsideData == DataInv /\ Aside => DataInv'
<1> SUFFICES ASSUME DataInv, Aside PROVE DataInv'
  OBVIOUS
<1>1. UNCHANGED <<data, recvd, w, r, seen>> /\ Reactor' = Reactor
  BY DEF Aside, ringVars, Reactor
<1>2. /\ Filling' => Filling
      /\ pc'[Reactor] = "commit" => pc[Reactor] = "commit"
      /\ pc'["core"] = "release" => pc["core"] = "release"
  BY <1>1 DEF Aside, Filling, Reading
<1> QED
  BY <1>1, <1>2 DEF DataInv

\* Filling a slot keeps it, for the slot is not the one the consumer reads; so
\* does commit().
LEMMA PublishData ==
  ASSUME RingInv, DataInv, UNCHANGED example, Publish PROVE DataInv'
<1>0. /\ Reactor' = Reactor /\ Reactor \in Threads /\ Reactor # "core"
      /\ "core" \in Threads /\ DOMAIN pc = Threads /\ UNCHANGED recvd
  BY DEF Reactor, Threads, RingInv, Publish, progVars
<1>1. CASE Goto(Reactor, "fill", "commit") /\ Fill(recvd)
  <2>1. /\ Filling /\ pc'["core"] = pc["core"]
        /\ UNCHANGED <<w, r, seen>> /\ data' = [data EXCEPT ![Slot(w)] = recvd]
    BY <1>0, <1>1 DEF Fill, Goto, Filling
  <2>2. Slot(w) \in 0 .. N - 1 /\ Slot(r) \in 0 .. N - 1
    BY SlotInData DEF RingInv, Index
  <2>3. pc["core"] = "release" => Slot(w) # Slot(r)
    BY <1>1, RingExclusive DEF SlotExclusive, Goto
  <2>4. data' \in [0 .. N - 1 -> Nat]
    BY <2>1, <2>2 DEF DataInv
  <2>5. data'[Slot(w)] = recvd
    BY <2>1, <2>2 DEF DataInv
  <2>6. pc["core"] = "release" => data'[Slot(r)] = data[Slot(r)]
    BY <2>1, <2>2, <2>3 DEF DataInv
  <2> QED
    BY <1>0, <2>1, <2>4, <2>5, <2>6 DEF DataInv
<1>2. CASE Goto(Reactor, "commit", "poll") /\ Commit
  <2>1. /\ pc'[Reactor] = "poll" /\ pc'["core"] = pc["core"]
        /\ UNCHANGED <<r, seen, data>>
    BY <1>0, <1>2 DEF Commit, Goto
  <2> QED
    BY <1>0, <2>1 DEF DataInv, Filling
<1> QED
  BY <1>1, <1>2 DEF Publish

\* on_message keeps it: a slot is filled with the message it was got for.
LEMMA DeliverData ==
  ASSUME RingInv, DataInv, UNCHANGED example, Deliver PROVE DataInv'
<1>0. /\ Reactor' = Reactor /\ Reactor \in Threads /\ Reactor # "core"
      /\ "core" \in Threads /\ DOMAIN pc = Threads
  BY DEF Reactor, Threads, RingInv
<1>1. Receive /\ UNCHANGED <<data, r, seen>> /\ UNCHANGED w
  BY DEF Deliver, BestOnMessage, TickOnMessage, AllocSlot, AllocFull, ringVars
<1>2. Goto(Reactor, "poll", "fill") \/ Goto(Reactor, "poll", "poll")
  BY DEF Deliver, BestOnMessage, TickOnMessage
<1>3. pc'[Reactor] \in {"fill", "poll"} /\ pc'["core"] = pc["core"]
  BY <1>0, <1>2 DEF Goto
<1>4. recvd' \in 1 .. MaxMessages
  BY <1>1, MessageBound DEF DataInv, Receive
<1>5. recvd' \in 0 .. MaxMessages
  BY <1>4, MessageBound
<1> QED
  BY <1>0, <1>1, <1>3, <1>4, <1>5 DEF DataInv, Filling

\* The consumer keeps it.
LEMMA ConsumerData ==
  ASSUME RingInv, DataInv, UNCHANGED example, Consumer PROVE DataInv'
<1>0. /\ Reactor' = Reactor /\ Reactor \in Threads /\ Reactor # "core"
      /\ "core" \in Threads /\ DOMAIN pc = Threads
  BY DEF Reactor, Threads, RingInv
<1>1. UNCHANGED <<recvd, w, data>> /\ pc'[Reactor] = pc[Reactor]
  BY <1>0 DEF Consumer, Goto, progVars, ringVars, PeekEmpty, PeekSlot, Use, Release
<1>2. pc'["core"] = "release" => seen' = data[Slot(r)] /\ r' = r
  BY <1>0 DEF Consumer, Goto, Use
<1> QED
  BY <1>0, <1>1, <1>2 DEF DataInv, Filling

\* Every step of every thread keeps it.
LEMMA StepData == ASSUME RingInv, DataInv, [Next]_vars PROVE DataInv'
<1>1. CASE UNCHANGED vars
  BY <1>1, AsideData, StutterAside
<1>2. CASE UNCHANGED example /\ (Main \/ (React /\ ~Publish) \/ LoggerRun \/ Clock)
  BY <1>2, MainAside, ReactAside, LoggerAside, AsideData
<1>3. CASE UNCHANGED example /\ (Publish \/ Deliver \/ Collect)
  BY <1>3, PublishData, DeliverData, ConsumerData DEF Collect, TickConsumer
<1> QED
  BY <1>1, <1>2, <1>3 DEF Next, Finished

\* A slot the consumer has read is not overwritten before release(), and a slot
\* that is committed holds the message it was filled with.
THEOREM PipelineData == Spec => []DataInv
<1>1. RingInv /\ DataInv /\ [Next]_vars => DataInv'
  BY StepData
<1> QED
  BY <1>1, InitData, PipelineRing, PTL DEF Spec

\* What data_ holds from index b up to index a; Held is this from r_ to w_.
Content(d, a, b) == [i \in 1 .. Minus(a, b) |-> d[Slot(b + i - 1)]]

\* This is a sequence of messages, of the length the two indices say.
LEMMA ContentSeq ==
  ASSUME NEW d \in [0 .. N - 1 -> Nat], NEW a \in Index, NEW b \in Index
  PROVE  /\ Content(d, a, b) \in Seq(Nat)
         /\ Len(Content(d, a, b)) = Minus(a, b)
         /\ \A i \in 1 .. Minus(a, b) : Content(d, a, b)[i] = d[Slot(b + i - 1)]
<1>1. Minus(a, b) \in Nat
  BY MinusNat
<1>2. ASSUME NEW i \in 1 .. Minus(a, b) PROVE d[Slot(b + i - 1)] \in Nat
  <2>1. b + i - 1 \in Int
    BY <1>1 DEF Index
  <2> QED
    BY <2>1, SlotInData
<1>3. Content(d, a, b) \in [1 .. Minus(a, b) -> Nat]
  BY <1>2 DEF Content
<1>4. Content(d, a, b) \in Seq(Nat)
  BY <1>1, <1>3
<1>5. Len(Content(d, a, b)) = Minus(a, b)
  BY <1>1, <1>3, <1>4, LenProperties
<1> QED
  BY <1>4, <1>5, Zenon DEF Content

\* Filling the slot from alloc() changes nothing of what is held.
LEMMA ContentFill ==
  ASSUME NEW d \in [0 .. N - 1 -> Nat], NEW a \in Index, NEW b \in Index,
         Minus(a, b) < N, NEW m \in Nat
  PROVE  Content([d EXCEPT ![Slot(a)] = m], a, b) = Content(d, a, b)
<1> DEFINE e == [d EXCEPT ![Slot(a)] = m]
<1>1. ASSUME NEW i \in 1 .. Minus(a, b) PROVE e[Slot(b + i - 1)] = d[Slot(b + i - 1)]
  <2>1. /\ b + i - 1 \in Int /\ i - 1 \in 0 .. Minus(a, b) - 1
        /\ b + (i - 1) = b + i - 1
    BY MinusNat DEF Index
  <2>2. Slot(b + (i - 1)) # Slot(a)
    BY <2>1, SlotFree
  <2>3. Slot(b + i - 1) # Slot(a)
    BY <2>1, <2>2
  <2>4. Slot(b + i - 1) \in 0 .. N - 1
    BY <2>1, SlotInData
  <2> QED
    BY <2>3, <2>4
<1> QED
  BY <1>1 DEF Content

\* commit() appends the message in that slot.
LEMMA ContentCommit ==
  ASSUME NEW d \in [0 .. N - 1 -> Nat], NEW a \in Index, NEW b \in Index, Minus(a, b) < N
  PROVE  Content(d, (a + 1) % Wrap, b) = Append(Content(d, a, b), d[Slot(a)])
<1> DEFINE c == (a + 1) % Wrap
           old == Content(d, a, b)
           new == Content(d, c, b)
           app == Append(old, d[Slot(a)])
<1>1. c \in Index /\ Minus(c, b) = Minus(a, b) + 1 /\ Minus(a, b) \in Nat
  BY MinusAhead, MinusNat
<1>2. d[Slot(a)] \in Nat
  BY SlotInData DEF Index
<1>3. /\ old \in Seq(Nat) /\ Len(old) = Minus(a, b)
      /\ \A i \in 1 .. Minus(a, b) : old[i] = d[Slot(b + i - 1)]
  BY ContentSeq, Zenon
<1>4. /\ new \in Seq(Nat) /\ Len(new) = Minus(a, b) + 1
      /\ \A i \in 1 .. Minus(a, b) + 1 : new[i] = d[Slot(b + i - 1)]
  <2> HIDE DEF c
  <2>1. /\ new \in Seq(Nat) /\ Len(new) = Minus(c, b)
        /\ \A i \in 1 .. Minus(c, b) : new[i] = d[Slot(b + i - 1)]
    BY <1>1, ContentSeq, Zenon
  <2> QED
    BY ONLY <1>1, <2>1
<1>5. /\ app \in Seq(Nat) /\ Len(app) = Minus(a, b) + 1
      /\ \A i \in 1 .. Minus(a, b) : app[i] = old[i]
      /\ app[Minus(a, b) + 1] = d[Slot(a)]
  BY <1>2, <1>3, AppendProperties
<1>6. Slot(b + (Minus(a, b) + 1) - 1) = Slot(a)
  <2>1. b + (Minus(a, b) + 1) - 1 = b + Minus(a, b)
    BY <1>1 DEF Index
  <2> QED
    BY <2>1, SlotBeyond
<1>7. ASSUME NEW i \in 1 .. Minus(a, b) + 1 PROVE new[i] = app[i]
  <2>1. CASE i = Minus(a, b) + 1
    BY <1>4, <1>5, <1>6, <2>1
  <2>2. CASE i # Minus(a, b) + 1
    <3>1. i \in 1 .. Minus(a, b)
      BY <1>1, <2>2
    <3> QED
      BY <3>1, <1>3, <1>4, <1>5, Zenon
  <2> QED
    BY <2>1, <2>2, Zenon
<1> HIDE DEF new, app
<1>8. new = app
  BY <1>4, <1>5, <1>7, SeqEqual
<1> QED
  BY <1>8 DEF new, app

\* The slot from peek() is the first of those held.
LEMMA ContentHead ==
  ASSUME NEW d \in [0 .. N - 1 -> Nat], NEW a \in Index, NEW b \in Index, a # b
  PROVE  Content(d, a, b) # <<>> /\ Head(Content(d, a, b)) = d[Slot(b)]
<1>1. 1 \in 1 .. Minus(a, b) /\ b + 1 - 1 = b
  BY MinusNat DEF Index
<1>2. /\ Len(Content(d, a, b)) = Minus(a, b)
      /\ \A i \in 1 .. Minus(a, b) : Content(d, a, b)[i] = d[Slot(b + i - 1)]
  BY ContentSeq, Zenon
<1>3. Content(d, a, b)[1] = d[Slot(b)] /\ Len(Content(d, a, b)) # 0
  BY ONLY <1>1, <1>2, MinusNat
<1> QED
  BY <1>3, EmptySeq

\* release() drops the first message and keeps the others in order.
LEMMA ContentRelease ==
  ASSUME NEW d \in [0 .. N - 1 -> Nat], NEW a \in Index, NEW b \in Index, a # b
  PROVE  Content(d, a, (b + 1) % Wrap) = Tail(Content(d, a, b))
<1> DEFINE c == (b + 1) % Wrap
           old == Content(d, a, b)
           new == Content(d, a, c)
           rest == Tail(old)
<1>1. c \in Index /\ Minus(a, c) = Minus(a, b) - 1 /\ Minus(a, b) \in Nat
  BY MinusBehind, MinusNat
<1>2. /\ old \in Seq(Nat) /\ Len(old) = Minus(a, b) /\ old # <<>>
      /\ \A i \in 1 .. Minus(a, b) : old[i] = d[Slot(b + i - 1)]
  BY ContentSeq, ContentHead, Zenon
<1>3. /\ new \in Seq(Nat) /\ Len(new) = Minus(a, b) - 1
      /\ \A i \in 1 .. Minus(a, b) - 1 : new[i] = d[Slot(c + i - 1)]
  <2> HIDE DEF c
  <2>1. /\ new \in Seq(Nat) /\ Len(new) = Minus(a, c)
        /\ \A i \in 1 .. Minus(a, c) : new[i] = d[Slot(c + i - 1)]
    BY <1>1, ContentSeq, Zenon
  <2> QED
    BY ONLY <1>1, <2>1
<1>4. /\ rest \in Seq(Nat) /\ Len(rest) = Minus(a, b) - 1
      /\ \A i \in 1 .. Minus(a, b) - 1 : rest[i] = old[i + 1]
  BY <1>2, HeadTailProperties
<1>5. ASSUME NEW i \in 1 .. Minus(a, b) - 1 PROVE new[i] = rest[i]
  <2>1. i + 1 \in 1 .. Minus(a, b) /\ i \in Int
    BY <1>1
  <2>2. rest[i] = d[Slot(b + (i + 1) - 1)]
    BY <1>2, <1>4, <2>1
  <2>3. Slot(c + i - 1) = Slot(b + (i + 1) - 1)
    <3>1. CASE b + 1 = Wrap
      <4>1. c + i - 1 = i - 1 /\ b + (i + 1) - 1 = (i - 1) + Wrap /\ i - 1 \in Int
        BY <2>1, <3>1, NextIndex DEF Index
      <4> QED
        BY <4>1, SlotWraps
    <3>2. CASE b + 1 # Wrap
      BY <2>1, <3>2, NextIndex DEF Index
    <3> QED
      BY <3>1, <3>2
  <2> QED
    BY <1>3, <2>2, <2>3, Zenon
<1> HIDE DEF new, rest
<1>6. new = rest
  BY <1>3, <1>4, <1>5, SeqEqual
<1> QED
  BY <1>6 DEF new, rest

\* The messages in the ring, before a step and after it.
LEMMA HeldIs == /\ Held = Content(data, w, r)
                /\ Held' = Content(data', w', r')
  BY DEF Held, Content, Minus, Slot

\* A step that leaves the slots and w_ and r_ alone is not seen of the queue,
\* the reloads of r_cache_ and w_cache_ among them.
LEMMA KeptFifo ==
  ASSUME UNCHANGED <<w, r, data, seen, refused>>
  PROVE  UNCHANGED Queue!fifoVars
  BY HeldIs DEF Queue!fifoVars

\* Filling a slot is not seen of the queue; commit() puts the message there.
LEMMA PublishFifo ==
  ASSUME RingInv, DataInv, UNCHANGED example, Publish
  PROVE  [Queue!Next]_(Queue!fifoVars)
<1>0. /\ w \in Index /\ r \in Index /\ data \in [0 .. N - 1 -> Nat]
  BY DEF RingInv, DataInv
<1>1. Filling /\ recvd \in 1 .. MaxMessages /\ recvd \in Nat
  BY MessageBound DEF Publish, Goto, Filling, DataInv
<1>2. Minus(w, r) < N /\ Minus(w, r) \in Nat
  BY <1>1, MinusNat, RingConstants DEF RingInv
<1>3. CASE Goto(Reactor, "fill", "commit") /\ Fill(recvd)
  <2>1. data' = [data EXCEPT ![Slot(w)] = recvd] /\ UNCHANGED <<w, r, seen, refused>>
    BY <1>3 DEF Fill
  <2>2. Content([data EXCEPT ![Slot(w)] = recvd], w, r) = Content(data, w, r)
    BY <1>0, <1>1, <1>2, ContentFill, Zenon
  <2>3. UNCHANGED Held
    BY <2>1, <2>2, HeldIs
  <2> QED
    BY <2>1, <2>3 DEF Queue!fifoVars
<1>4. CASE Goto(Reactor, "commit", "poll") /\ Commit
  <2>1. w' = (w + 1) % Wrap /\ UNCHANGED <<data, r, seen, refused>> /\ data[Slot(w)] = recvd
    BY <1>4 DEF Commit, Goto, DataInv
  <2>2. Content(data, (w + 1) % Wrap, r) = Append(Content(data, w, r), data[Slot(w)])
    BY <1>0, <1>2, ContentCommit, Zenon
  <2>3. Held' = Append(Held, recvd)
    BY <2>1, <2>2, HeldIs
  <2>4. Len(Held) < N
    BY <1>0, <1>2, HeldIs, ContentSeq
  <2>5. Queue!Put(recvd)
    BY <2>1, <2>3, <2>4 DEF Queue!Put
  <2> QED
    BY <1>1, <2>5 DEF Queue!Next
<1> QED
  BY <1>3, <1>4 DEF Publish

\* alloc() is not seen of the queue, or refuses a message when it is full.
LEMMA DeliverFifo ==
  ASSUME RingInv, DataInv, UNCHANGED example, Deliver
  PROVE  [Queue!Next]_(Queue!fifoVars)
<1>1. CASE AllocFull(recvd')
  <2>1. Minus(w, r) >= N /\ refused' = refused \cup {recvd'} /\ UNCHANGED <<w, r, data, seen>>
    BY <1>1 DEF AllocFull
  <2>2. recvd' \in 1 .. MaxMessages
    BY MessageBound DEF Deliver, BestOnMessage, TickOnMessage, Receive, DataInv
  <2>3. Minus(w, r) = N
    BY <2>1, RingExclusive, MinusNat, RingConstants DEF RingInv, SlotExclusive
  <2>4. Len(Held) = N
    BY <2>3, HeldIs, ContentSeq DEF RingInv, DataInv
  <2>5. UNCHANGED Held
    BY <2>1, HeldIs
  <2>6. Queue!Refuse(recvd')
    BY <2>1, <2>4, <2>5 DEF Queue!Refuse
  <2> QED
    BY <2>2, <2>6 DEF Queue!Next
<1>2. CASE UNCHANGED <<w, r, data, seen, refused>>
  BY <1>2, KeptFifo
<1> QED
  BY <1>1, <1>2 DEF Deliver, BestOnMessage, TickOnMessage, AllocSlot, ringVars

\* The consumer reads the first message of the queue and release() takes it.
LEMMA ConsumerFifo ==
  ASSUME RingInv, DataInv, UNCHANGED example, Consumer
  PROVE  [Queue!Next]_(Queue!fifoVars)
<1>1. CASE UNCHANGED <<w, r, data, seen, refused>>
  BY <1>1, KeptFifo
<1>2. ASSUME Reading PROVE Held # <<>> /\ Head(Held) = data[Slot(r)]
  <2>1. w # r
    BY <1>2, MinusNat, RingConstants DEF RingInv
  <2> QED
    BY <2>1, HeldIs, ContentHead, Zenon DEF RingInv, DataInv
<1>3. CASE Goto("core", "use", "release") /\ Use
  <2>1. Reading /\ seen' = data[Slot(r)] /\ UNCHANGED <<w, r, data, refused>>
    BY <1>3 DEF Goto, Reading, Use
  <2>2. UNCHANGED Held
    BY <2>1, HeldIs
  <2>3. Queue!Look
    BY <1>2, <2>1, <2>2 DEF Queue!Look
  <2> QED
    BY <2>3 DEF Queue!Next
<1>4. CASE Goto("core", "release", "loop") /\ Release
  <2>1. /\ Reading /\ seen = data[Slot(r)] /\ r' = (r + 1) % Wrap
        /\ UNCHANGED <<w, data, seen, refused>>
    BY <1>4 DEF Goto, Reading, Release, DataInv
  <2>2. w # r
    BY <2>1, MinusNat, RingConstants DEF RingInv
  <2>3. Content(data, w, (r + 1) % Wrap) = Tail(Content(data, w, r))
    BY <2>2, ContentRelease DEF RingInv, DataInv
  <2>4. Held' = Tail(Held)
    BY <2>1, <2>3, HeldIs
  <2>5. Queue!Take
    BY <1>2, <2>1, <2>4 DEF Queue!Take
  <2> QED
    BY <2>5 DEF Queue!Next
<1> QED
  BY <1>1, <1>3, <1>4 DEF Consumer, ringVars, PeekEmpty, PeekSlot

\* Every step of every thread is a step of the queue or not seen of it.
LEMMA StepFifo ==
  ASSUME RingInv, DataInv, [Next]_vars PROVE [Queue!Next]_(Queue!fifoVars)
<1>1. CASE UNCHANGED vars
  BY <1>1, KeptFifo DEF vars, ringVars
<1>2. CASE UNCHANGED example /\ (Main \/ (React /\ ~Publish) \/ LoggerRun \/ Clock)
  <2>1. Aside
    BY <1>2, MainAside, ReactAside, LoggerAside
  <2> QED
    BY <2>1, KeptFifo DEF Aside, ringVars
<1>3. CASE UNCHANGED example /\ (Publish \/ Deliver \/ Collect)
  BY <1>3, PublishFifo, DeliverFifo, ConsumerFifo DEF Collect, TickConsumer
<1> QED
  BY <1>1, <1>2, <1>3 DEF Next, Finished

\* A new SpscRing is an empty queue.
LEMMA InitFifo == Init => Queue!Init
<1> SUFFICES ASSUME Init PROVE Queue!Init
  OBVIOUS
<1>1. w = 0 /\ r = 0 /\ data \in [0 .. N - 1 -> Nat] /\ seen = 0 /\ refused = {}
  BY DEF Init, RingInit
<1>2. Minus(w, r) = 0 /\ w \in Index /\ r \in Index
  BY <1>1, MinusIs, RingConstants DEF Index
<1>3. Held \in Seq(Nat) /\ Len(Held) = 0
  BY <1>1, <1>2, HeldIs, ContentSeq
<1>4. Held = <<>>
  BY <1>3, EmptySeq
<1> QED
  BY <1>1, <1>4 DEF Queue!Init

\* SpscRing, used as the examples use it, is a first-in first-out queue of N
\* messages: nothing is lost, repeated, reordered or read half-written, and a
\* message is dropped only when N are waiting.
THEOREM PipelineFifo == Spec => ImplementsFifo
<1>1. RingInv /\ DataInv /\ [Next]_vars => [Queue!Next]_(Queue!fifoVars)
  BY StepFifo
<1> QED
  BY <1>1, InitFifo, PipelineRing, PipelineData, PTL DEF Spec, ImplementsFifo, Queue!Spec

-----------------------------------------------------------------------------
(* The programs *)

\* Where main is before it starts the core thread, and where it is when the
\* thread object is gone.
Early == IF example = "best" THEN {"start", "resolve"} ELSE {"start", "init", "resolve", "spawn"}
Late  == {"unwind", "done", "aborted"}

\* Who has been started and joined, by where main is: no path to the end of
\* main goes round a join.
ThreadInv ==
  /\ DOMAIN pc = Threads
  /\ \A t \in {"md", "core"} : t \in joined => pc[t] = "done"
  /\ pc["main"] \in Early => pc["core"] = "off"
  /\ pc["main"] \notin Early \cup Late => pc["core"] # "off"
  /\ example # "multi" \/ pc["main"] \in {"start", "resolve"} => pc["md"] = "off"
  /\ example = "multi" /\ pc["main"] \notin {"start", "resolve"} \cup Late => pc["md"] # "off"
  /\ pc["main"] \in {"join_core", "report"} => "md" \in joined
  /\ pc["main"] \in {"report", "hook_report", "hook_free", "hook_pool", "hook_end"} =>
       "core" \in joined
  /\ example = "fstack" /\ pc["main"] = "ran" => "core" \in joined
  /\ pc["main"] \in {"unwind", "done"} =>
       \A t \in {"md", "core"} : pc[t] = "off" \/ t \in joined
  /\ pc["main"] # "terminated"

\* The report comes after the join of the thread that collects, also when the
\* program is aborted: only the run loop returning early does that, after it.
ReportInv ==
  /\ reported => pc["core"] = "done"
  /\ pc["main"] \in {"hook_free", "hook_pool", "hook_end"} => reported
  /\ pc["main"] = "aborted" /\ example # "multi" => reported

\* The session goes, then its pool, then run() returns.
AliveInv ==
  /\ alive \subseteq {"ws", "pool"}
  /\ "ws" \in alive => "pool" \in alive
  /\ pc[Reactor] = "hook_pool" => "ws" \notin alive
  /\ pc[Reactor] = "hook_end" => alive = {}
  /\ example = "best" /\ pc["main"] \in {"start", "resolve", "init"} => alive = {}
  /\ pc[Reactor] = "ran" \/ Ended => alive = {}

\* The logger's thread is the last to end, after the root logger is bound, and
\* it drains the queue after it was told to stop.
LogInv ==
  /\ pc["main"] = "start" => root = FALSE /\ pc["log"] = "off"
  /\ example # "fstack" =>
       /\ pc["main"] # "start" => pc["log"] # "off"
       /\ pc["log"] \in {"pin", "bind"} => worker # "none"
       /\ pc["log"] \in {"drain", "flush"} => worker = "bound"
       /\ pc["log"] \in {"flush", "done"} => pc["main"] \in {"unwind", "done"}
       /\ pc["log"] = "done" => unwritten = FALSE
       /\ pc["main"] = "done" => pc["log"] = "done"

\* The invariant of the programs, which is inductive.
ProgInv == ThreadInv /\ ReportInv /\ AliveInv /\ LogInv

\* A program starts with the one thread.
LEMMA ProgInit == Init => ProgInv
<1> SUFFICES ASSUME Init PROVE ProgInv
  OBVIOUS
<1>1. /\ DOMAIN pc = Threads /\ pc["main"] = "start" /\ pc["md"] = "off" /\ pc["core"] = "off"
      /\ pc["log"] = "off" /\ joined = {} /\ alive = {} /\ reported = FALSE /\ root = FALSE
  BY DEF Init, Threads, LoggerInit
<1>2. pc[Reactor] # "ran" /\ ~Ended
  BY <1>1 DEF Reactor, Ended
<1> QED BY <1>1, <1>2 DEF ProgInv, ThreadInv, ReportInv, AliveInv, LogInv, Early, Late

\* Nothing is left to join.
LEMMA JoinableIs ==
  Joinable = {} <=> \A t \in {"md", "core"} : pc[t] = "off" \/ t \in joined
  BY DEF Joinable

\* Steps that leave the variables of the invariant alone.
LEMMA SameProgram ==
  ASSUME ProgInv, UNCHANGED <<example, pc, joined, alive, reported, root, worker, unwritten>>
  PROVE  ProgInv'
<1>1. /\ example' = example /\ pc' = pc /\ joined' = joined /\ alive' = alive
      /\ reported' = reported /\ root' = root /\ worker' = worker /\ unwritten' = unwritten
  OBVIOUS
<1> USE DEF Early, Late, Reactor, Ended, ProgInv
<1>2. ThreadInv'
  BY <1>1 DEF ThreadInv
<1>3. ReportInv'
  BY <1>1 DEF ReportInv
<1>4. AliveInv'
  BY <1>1 DEF AliveInv
<1>5. LogInv'
  BY <1>1 DEF LogInv
<1> QED BY <1>2, <1>3, <1>4, <1>5

\* The main threads of the three programs.
LEMMA MainKeeps ==
  ASSUME ProgInv, UNCHANGED example, Main
  PROVE  ProgInv'
<1>1. CASE example = "best" /\ BestMain
  <2>1. ThreadInv'
    BY <1>1 DEF ProgInv, ThreadInv, BestMain, Spawn, Join, InitLogger, Goto, Threads,
                progVars, logVars, Log, MaybeLog, Early, Late, Reactor, Ended
  <2>2. ReportInv'
    BY <1>1 DEF ProgInv, ThreadInv, ReportInv, BestMain, Spawn, Join, InitLogger, Goto,
                Threads, progVars, logVars, Log, MaybeLog, Early, Late, Reactor, Ended
  <2>3. AliveInv'
    BY <1>1 DEF ProgInv, ThreadInv, AliveInv, BestMain, Spawn, Join, InitLogger, Goto,
                Threads, progVars, logVars, Log, MaybeLog, Early, Late, Reactor, Ended
  <2>4. LogInv'
    BY <1>1 DEF ProgInv, ThreadInv, LogInv, BestMain, Spawn, Join, InitLogger, Goto,
                Threads, progVars, logVars, Log, MaybeLog, Early, Late, Reactor, Ended
  <2> QED BY <2>1, <2>2, <2>3, <2>4 DEF ProgInv
<1>2. CASE example = "multi" /\ MultiStart
  <2>1. ThreadInv'
    BY <1>2 DEF ProgInv, ThreadInv, MultiStart, Spawn, InitLogger, Goto, Threads,
                progVars, logVars, Log, MaybeLog, Early, Late, Reactor, Ended
  <2>2. ReportInv'
    BY <1>2 DEF ProgInv, ThreadInv, ReportInv, MultiStart, Spawn, InitLogger, Goto,
                Threads, progVars, logVars, Log, MaybeLog, Early, Late, Reactor, Ended
  <2>3. AliveInv'
    BY <1>2 DEF ProgInv, ThreadInv, AliveInv, MultiStart, Spawn, InitLogger, Goto,
                Threads, progVars, logVars, Log, MaybeLog, Early, Late, Reactor, Ended
  <2>4. LogInv'
    BY <1>2 DEF ProgInv, ThreadInv, LogInv, MultiStart, Spawn, InitLogger, Goto, Threads,
                progVars, logVars, Log, MaybeLog, Early, Late, Reactor, Ended
  <2> QED BY <2>1, <2>2, <2>3, <2>4 DEF ProgInv
<1>3. CASE example = "multi" /\ MultiMain
  <2>1. ThreadInv'
    BY <1>3 DEF ProgInv, ThreadInv, MultiMain, Spawn, Join, Goto, Threads, progVars,
                logVars, Log, MaybeLog, Early, Late, Reactor, Ended
  <2>2. ReportInv'
    BY <1>3 DEF ProgInv, ThreadInv, ReportInv, MultiMain, Spawn, Join, Goto, Threads,
                progVars, logVars, Log, MaybeLog, Early, Late, Reactor, Ended
  <2>3. AliveInv'
    BY <1>3 DEF ProgInv, ThreadInv, AliveInv, MultiMain, Spawn, Join, Goto, Threads,
                progVars, logVars, Log, MaybeLog, Early, Late, Reactor, Ended
  <2>4. LogInv'
    BY <1>3 DEF ProgInv, ThreadInv, LogInv, MultiMain, Spawn, Join, Goto, Threads,
                progVars, logVars, Log, MaybeLog, Early, Late, Reactor, Ended
  <2> QED BY <2>1, <2>2, <2>3, <2>4 DEF ProgInv
<1>4. CASE example = "fstack" /\ FstackStart
  <2>1. ThreadInv'
    BY <1>4 DEF ProgInv, ThreadInv, FstackStart, Spawn, InitLogger, Goto, Threads,
                progVars, logVars, Log, MaybeLog, Early, Late, Reactor, Ended
  <2>2. ReportInv'
    BY <1>4 DEF ProgInv, ThreadInv, ReportInv, FstackStart, Spawn, InitLogger, Goto,
                Threads, progVars, logVars, Log, MaybeLog, Early, Late, Reactor, Ended
  <2>3. AliveInv'
    BY <1>4 DEF ProgInv, ThreadInv, AliveInv, FstackStart, Spawn, InitLogger, Goto,
                Threads, progVars, logVars, Log, MaybeLog, Early, Late, Reactor, Ended
  <2>4. LogInv'
    BY <1>4 DEF ProgInv, ThreadInv, LogInv, FstackStart, Spawn, InitLogger, Goto,
                Threads, progVars, logVars, Log, MaybeLog, Early, Late, Reactor, Ended
  <2> QED BY <2>1, <2>2, <2>3, <2>4 DEF ProgInv
<1>5. CASE example = "fstack" /\ FstackMain
  <2>1. ThreadInv'
    BY <1>5 DEF ProgInv, ThreadInv, FstackMain, Spawn, Join, Goto, Threads, progVars,
                logVars, Log, MaybeLog, Early, Late, Reactor, Ended
  <2>2. ReportInv'
    BY <1>5 DEF ProgInv, ThreadInv, ReportInv, FstackMain, Spawn, Join, Goto, Threads,
                progVars, logVars, Log, MaybeLog, Early, Late, Reactor, Ended
  <2>3. AliveInv'
    BY <1>5 DEF ProgInv, ThreadInv, AliveInv, FstackMain, Spawn, Join, Goto, Threads,
                progVars, logVars, Log, MaybeLog, Early, Late, Reactor, Ended
  <2>4. LogInv'
    BY <1>5 DEF ProgInv, ThreadInv, LogInv, FstackMain, Spawn, Join, Goto, Threads,
                progVars, logVars, Log, MaybeLog, Early, Late, Reactor, Ended
  <2> QED BY <2>1, <2>2, <2>3, <2>4 DEF ProgInv
<1>6. CASE Unwind
  <2>1. ThreadInv'
    BY <1>6, JoinableIs DEF ProgInv, ThreadInv, Unwind, Goto, Threads, progVars, logVars,
                            Log, MaybeLog, Early, Late, Reactor, Ended
  <2>2. ReportInv'
    BY <1>6, JoinableIs DEF ProgInv, ThreadInv, ReportInv, Unwind, Goto, Threads,
                            progVars, logVars, Log, MaybeLog, Early, Late, Reactor,
                            Ended
  <2>3. AliveInv'
    BY <1>6, JoinableIs DEF ProgInv, ThreadInv, AliveInv, Unwind, Goto, Threads,
                            progVars, logVars, Log, MaybeLog, Early, Late, Reactor,
                            Ended
  <2>4. LogInv'
    BY <1>6, JoinableIs DEF ProgInv, ThreadInv, LogInv, Unwind, Goto, Threads, progVars,
                            logVars, Log, MaybeLog, Early, Late, Reactor, Ended
  <2> QED BY <2>1, <2>2, <2>3, <2>4 DEF ProgInv
<1> QED BY <1>1, <1>2, <1>3, <1>4, <1>5, <1>6 DEF Main

\* The reactor's hooks, its turns and the messages it handles.
LEMMA ReactKeeps ==
  ASSUME ProgInv, UNCHANGED example, React \/ Deliver
  PROVE  ProgInv'
<1>1. CASE example = "best" /\ BestHook
  <2>1. ThreadInv'
    BY <1>1 DEF ProgInv, ThreadInv, BestHook, Hooked, Stops, Goto, Threads, progVars,
                logVars, Log, MaybeLog, Early, Late, Reactor, Ended
  <2>2. ReportInv'
    BY <1>1 DEF ProgInv, ThreadInv, ReportInv, BestHook, Hooked, Stops, Goto, Threads,
                progVars, logVars, Log, MaybeLog, Early, Late, Reactor, Ended
  <2>3. AliveInv'
    BY <1>1 DEF ProgInv, ThreadInv, AliveInv, BestHook, Hooked, Stops, Goto, Threads,
                progVars, logVars, Log, MaybeLog, Early, Late, Reactor, Ended
  <2>4. LogInv'
    BY <1>1 DEF ProgInv, ThreadInv, LogInv, BestHook, Hooked, Stops, Goto, Threads,
                progVars, logVars, Log, MaybeLog, Early, Late, Reactor, Ended
  <2> QED BY <2>1, <2>2, <2>3, <2>4 DEF ProgInv
<1>2. CASE example = "best" /\ BestShutdown
  <2>1. ThreadInv'
    BY <1>2 DEF ProgInv, ThreadInv, BestShutdown, Join, Reset, RunEnds, Goto, Threads, progVars,
                logVars, Log, MaybeLog, Early, Late, Reactor, Ended
  <2>2. ReportInv'
    BY <1>2 DEF ProgInv, ThreadInv, ReportInv, BestShutdown, Join, Reset, RunEnds, Goto,
                Threads, progVars, logVars, Log, MaybeLog, Early, Late, Reactor, Ended
  <2>3. AliveInv'
    BY <1>2, ZenonT(60) DEF ProgInv, ThreadInv, AliveInv, BestShutdown, Join, Reset, RunEnds,
                Goto, Threads, progVars, logVars, Log, MaybeLog, Early, Late, Reactor, Ended
  <2>4. LogInv'
    BY <1>2 DEF ProgInv, ThreadInv, LogInv, BestShutdown, Join, Reset, RunEnds, Goto, Threads,
                progVars, logVars, Log, MaybeLog, Early, Late, Reactor, Ended
  <2> QED BY <2>1, <2>2, <2>3, <2>4 DEF ProgInv
<1>3. CASE example = "multi" /\ MultiHook
  <2>1. ThreadInv'
    BY <1>3 DEF ProgInv, ThreadInv, MultiHook, Hooked, Stops, Goto, Threads, progVars,
                logVars, Log, MaybeLog, Early, Late, Reactor, Ended
  <2>2. ReportInv'
    BY <1>3 DEF ProgInv, ThreadInv, ReportInv, MultiHook, Hooked, Stops, Goto, Threads,
                progVars, logVars, Log, MaybeLog, Early, Late, Reactor, Ended
  <2>3. AliveInv'
    BY <1>3 DEF ProgInv, ThreadInv, AliveInv, MultiHook, Hooked, Stops, Goto, Threads,
                progVars, logVars, Log, MaybeLog, Early, Late, Reactor, Ended
  <2>4. LogInv'
    BY <1>3 DEF ProgInv, ThreadInv, LogInv, MultiHook, Hooked, Stops, Goto, Threads,
                progVars, logVars, Log, MaybeLog, Early, Late, Reactor, Ended
  <2> QED BY <2>1, <2>2, <2>3, <2>4 DEF ProgInv
<1>4. CASE example = "multi" /\ MultiShutdown
  <2>1. ThreadInv'
    BY <1>4 DEF ProgInv, ThreadInv, MultiShutdown, Reset, RunEnds, Goto, Threads, progVars,
                logVars, Log, MaybeLog, Early, Late, Reactor, Ended
  <2>2. ReportInv'
    BY <1>4 DEF ProgInv, ThreadInv, ReportInv, MultiShutdown, Reset, RunEnds, Goto, Threads,
                progVars, logVars, Log, MaybeLog, Early, Late, Reactor, Ended
  <2>3. AliveInv'
    <3>1. Reactor = "md" /\ Reactor' = "md"
      BY <1>4 DEF Reactor
    <3>2. ASSUME NEW from, NEW to \in {"hook_pool", "hook_end"}, NEW what, Reset(from, to, what)
          PROVE  /\ pc["md"] = from /\ pc'["md"] = to /\ pc'["main"] = pc["main"] /\ ~Ended
                 /\ alive' = alive \ {what}
      BY <3>1, <3>2 DEF Reset, Goto, ProgInv, ThreadInv, Threads
    <3>3. CASE Reset("top", "hook_pool", "ws")
      BY <1>4, <3>1, <3>2, <3>3 DEF ProgInv, AliveInv, Ended
    <3>4. CASE Reset("hook_pool", "hook_end", "pool")
      BY <1>4, <3>1, <3>2, <3>4 DEF ProgInv, AliveInv, Ended
    <3>5. CASE RunEnds("hook_end")
      <4>1. /\ pc["md"] = "hook_end" /\ alive' = alive /\ example' = example
            /\ pc'["md"] \in {"ran", "hook_end"}
        BY <3>1, <3>5 DEF RunEnds, Goto, progVars, ProgInv, ThreadInv, Threads
      <4> QED BY <3>1, <4>1 DEF ProgInv, AliveInv
    <3> QED BY <1>4, <3>3, <3>4, <3>5 DEF MultiShutdown
  <2>4. LogInv'
    BY <1>4 DEF ProgInv, ThreadInv, LogInv, MultiShutdown, Reset, RunEnds, Goto, Threads,
                progVars, logVars, Log, MaybeLog, Early, Late, Reactor, Ended
  <2> QED BY <2>1, <2>2, <2>3, <2>4 DEF ProgInv
<1>5. CASE example = "multi" /\ MultiReactor
  <2>1. ThreadInv'
    BY <1>5 DEF ProgInv, ThreadInv, MultiReactor, Goto, Threads, progVars, logVars, Log,
                MaybeLog, Early, Late, Reactor, Ended
  <2>2. ReportInv'
    BY <1>5 DEF ProgInv, ThreadInv, ReportInv, MultiReactor, Goto, Threads, progVars,
                logVars, Log, MaybeLog, Early, Late, Reactor, Ended
  <2>3. AliveInv'
    BY <1>5 DEF ProgInv, ThreadInv, AliveInv, MultiReactor, Goto, Threads, progVars,
                logVars, Log, MaybeLog, Early, Late, Reactor, Ended
  <2>4. LogInv'
    BY <1>5 DEF ProgInv, ThreadInv, LogInv, MultiReactor, Goto, Threads, progVars,
                logVars, Log, MaybeLog, Early, Late, Reactor, Ended
  <2> QED BY <2>1, <2>2, <2>3, <2>4 DEF ProgInv
<1>6. CASE example = "fstack" /\ FstackHook
  <2>1. ThreadInv'
    BY <1>6 DEF ProgInv, ThreadInv, FstackHook, Hooked, Stops, Goto, Threads, progVars,
                logVars, Log, MaybeLog, Early, Late, Reactor, Ended
  <2>2. ReportInv'
    BY <1>6 DEF ProgInv, ThreadInv, ReportInv, FstackHook, Hooked, Stops, Goto, Threads,
                progVars, logVars, Log, MaybeLog, Early, Late, Reactor, Ended
  <2>3. AliveInv'
    BY <1>6 DEF ProgInv, ThreadInv, AliveInv, FstackHook, Hooked, Stops, Goto, Threads,
                progVars, logVars, Log, MaybeLog, Early, Late, Reactor, Ended
  <2>4. LogInv'
    BY <1>6 DEF ProgInv, ThreadInv, LogInv, FstackHook, Hooked, Stops, Goto, Threads,
                progVars, logVars, Log, MaybeLog, Early, Late, Reactor, Ended
  <2> QED BY <2>1, <2>2, <2>3, <2>4 DEF ProgInv
<1>7. CASE example = "fstack" /\ FstackShutdown
  <2>1. ThreadInv'
    BY <1>7 DEF ProgInv, ThreadInv, FstackShutdown, Join, Reset, RunEnds, Goto, Threads,
                progVars, logVars, Log, MaybeLog, Early, Late, Reactor, Ended
  <2>2. ReportInv'
    BY <1>7 DEF ProgInv, ThreadInv, ReportInv, FstackShutdown, Join, Reset, RunEnds, Goto,
                Threads, progVars, logVars, Log, MaybeLog, Early, Late, Reactor, Ended
  <2>3. AliveInv'
    BY <1>7, ZenonT(60) DEF ProgInv, ThreadInv, AliveInv, FstackShutdown, Join, Reset,
                RunEnds, Goto, Threads, progVars, logVars, Log, MaybeLog, Early, Late, Reactor, Ended
  <2>4. LogInv'
    BY <1>7 DEF ProgInv, ThreadInv, LogInv, FstackShutdown, Join, Reset, RunEnds, Goto, Threads,
                progVars, logVars, Log, MaybeLog, Early, Late, Reactor, Ended
  <2> QED BY <2>1, <2>2, <2>3, <2>4 DEF ProgInv
<1>8. ASSUME MaybeLog, UNCHANGED <<joined, alive, reported>>,
             NEW from \in {"poll", "fill", "commit"}, NEW to \in {"top", "poll", "fill", "commit"},
             Goto(Reactor, from, to)
      PROVE  ProgInv'
  <2>1. ThreadInv'
    BY <1>8 DEF ProgInv, ThreadInv, Goto, Threads, progVars, logVars, Log, MaybeLog,
                Early, Late, Reactor, Ended
  <2>2. ReportInv'
    BY <1>8 DEF ProgInv, ThreadInv, ReportInv, Goto, Threads, progVars, logVars, Log,
                MaybeLog, Early, Late, Reactor, Ended
  <2>3. AliveInv'
    BY <1>8 DEF ProgInv, ThreadInv, AliveInv, Goto, Threads, progVars, logVars, Log,
                MaybeLog, Early, Late, Reactor, Ended
  <2>4. LogInv'
    BY <1>8 DEF ProgInv, ThreadInv, LogInv, Goto, Threads, progVars, logVars, Log,
                MaybeLog, Early, Late, Reactor, Ended
  <2> QED BY <2>1, <2>2, <2>3, <2>4 DEF ProgInv
<1>9. CASE PollDone \/ Publish \/ Deliver
  BY <1>8, <1>9 DEF PollDone, Publish, Deliver, TickOnMessage, BestOnMessage, MaybeLog, logVars, progVars
<1> QED BY <1>1, <1>2, <1>3, <1>4, <1>5, <1>6, <1>7, <1>9 DEF React

\* The thread that collects, the logger's and the clock.
LEMMA OthersKeep ==
  ASSUME ProgInv, UNCHANGED example, Collect \/ LoggerRun \/ Clock
  PROVE  ProgInv'
<1>1. CASE Consumer
  <2>1. PICK from \in {"pin", "loop", "peek", "use", "release"},
             to \in {"loop", "peek", "use", "release", "done"} :
          Goto("core", from, to)
    BY <1>1 DEF Consumer
  <2>2. /\ pc["core"] = from /\ pc'["core"] = to /\ DOMAIN pc' = Threads
        /\ pc'["main"] = pc["main"] /\ pc'["md"] = pc["md"] /\ pc'["log"] = pc["log"]
    BY <2>1 DEF ProgInv, ThreadInv, Goto, Threads
  <2>3. /\ joined' = joined /\ alive' = alive /\ reported' = reported /\ example' = example
        /\ ~Ended /\ MaybeLog
    BY <1>1, <2>1 DEF Consumer, Goto, progVars, MaybeLog
  <2>4. ThreadInv'
    BY <2>2, <2>3 DEF ProgInv, ThreadInv, Early, Late
  <2>5. ReportInv'
    BY <2>2, <2>3 DEF ProgInv, ReportInv
  <2>6. AliveInv'
    BY <2>2, <2>3 DEF ProgInv, AliveInv, Reactor, Ended
  <2>7. LogInv'
    <3>1. pc["main"] # "unwind" /\ pc["main"] # "done"
      BY <2>2, <2>3 DEF ProgInv, ThreadInv, Ended
    <3>2. root' = root /\ worker' = worker
      BY <2>3 DEF MaybeLog, Log, logVars
    <3> QED BY <2>2, <2>3, <3>1, <3>2 DEF ProgInv, LogInv
  <2> QED BY <2>4, <2>5, <2>6, <2>7 DEF ProgInv
<1>2. ASSUME NEW stop, LoggerThread(stop), example # "fstack" => (stop <=> StopRequested)
      PROVE  ProgInv'
  <2>1. PICK from \in {"pin", "bind", "drain", "flush"},
             to \in {"bind", "drain", "flush", "done"} :
          Goto("log", from, to)
    BY <1>2 DEF LoggerThread
  <2>2. /\ pc["log"] = from /\ pc'["log"] = to /\ DOMAIN pc' = Threads
        /\ pc'["main"] = pc["main"] /\ pc'["md"] = pc["md"] /\ pc'["core"] = pc["core"]
    BY <2>1 DEF ProgInv, ThreadInv, Goto, Threads
  <2>3. /\ joined' = joined /\ alive' = alive /\ reported' = reported /\ example' = example
        /\ ~Ended
    BY <1>2, <2>1 DEF LoggerThread, Goto, progVars
  <2>4. ThreadInv'
    BY <2>2, <2>3 DEF ProgInv, ThreadInv, Early, Late
  <2>5. ReportInv'
    BY <2>2, <2>3 DEF ProgInv, ReportInv
  <2>6. AliveInv'
    BY <2>2, <2>3 DEF ProgInv, AliveInv, Reactor, Ended
  <2>7. LogInv'
    <3> SUFFICES ASSUME example # "fstack" PROVE LogInv'
      BY <2>2, <2>3, Zenon DEF ProgInv, LogInv
    <3>1. CASE Goto("log", "pin", "bind") /\ MaybeLog
      <4>1. pc["log"] = "pin" /\ pc'["log"] = "bind" /\ root' = root /\ worker' = worker
        BY <3>1 DEF Goto, MaybeLog, Log, logVars, ProgInv, ThreadInv, Threads
      <4> QED BY <2>2, <2>3, <4>1 DEF ProgInv, LogInv, Ended
    <3>2. CASE Goto("log", "bind", "drain") /\ StartLogger
      <4>1. pc["log"] = "bind" /\ pc'["log"] = "drain" /\ (worker # "none" => worker' = "bound")
        BY <3>2 DEF Goto, StartLogger, ProgInv, ThreadInv, Threads
      <4> QED BY <2>2, <2>3, <4>1 DEF ProgInv, LogInv, Ended
    <3>3. CASE stop /\ Goto("log", "drain", "flush") /\ UNCHANGED logVars
      <4>1. pc["log"] = "drain" /\ pc'["log"] = "flush" /\ root' = root /\ worker' = worker
        BY <3>3 DEF Goto, logVars, ProgInv, ThreadInv, Threads
      <4>2. pc["main"] = "unwind"
        BY <1>2, <3>3 DEF StopRequested
      <4> QED BY <2>2, <2>3, <4>1, <4>2 DEF ProgInv, LogInv
    <3>4. CASE ~stop /\ Goto("log", "drain", "drain") /\ PollLogger
      <4>1. pc["log"] = "drain" /\ pc'["log"] = "drain" /\ root' = root /\ worker' = worker
        BY <3>4 DEF Goto, PollLogger, ProgInv, ThreadInv, Threads
      <4> QED BY <2>2, <2>3, <4>1 DEF ProgInv, LogInv, Ended
    <3>5. CASE Goto("log", "flush", "done") /\ StopLogger
      <4>1. pc["log"] = "flush" /\ pc'["log"] = "done"
        BY <3>5 DEF Goto, ProgInv, ThreadInv, Threads
      <4>2. worker = "bound" /\ pc["main"] \in {"unwind", "done"}
        BY <4>1 DEF ProgInv, LogInv
      <4>3. unwritten' = FALSE
        BY <3>5, <4>2, Zenon DEF StopLogger
      <4> QED BY <2>2, <2>3, <4>1, <4>2, <4>3 DEF ProgInv, LogInv
    <3> QED BY <1>2, <3>1, <3>2, <3>3, <3>4, <3>5 DEF LoggerThread
  <2> QED BY <2>4, <2>5, <2>6, <2>7 DEF ProgInv
<1>3. CASE Clock
  <2>1. UNCHANGED <<pc, joined, alive, reported, root, worker, unwritten>>
    BY <1>3 DEF Clock, logVars
  <2> QED BY <2>1, SameProgram
<1> QED BY <1>1, <1>2, <1>3 DEF Collect, TickConsumer, LoggerRun, FstackLogger

\* Every step of every program keeps the invariant.
LEMMA ProgStep == ProgInv /\ [Next]_vars => ProgInv'
<1> SUFFICES ASSUME ProgInv, [Next]_vars PROVE ProgInv'
  OBVIOUS
<1>1. CASE UNCHANGED vars
  <2>1. UNCHANGED <<example, pc, joined, alive, reported, root, worker, unwritten>>
    BY <1>1 DEF vars, progVars, logVars
  <2> QED BY <2>1, SameProgram
<1> QED BY <1>1, MainKeeps, ReactKeeps, OthersKeep DEF Next, Finished

\* The invariant holds in all three programs.
THEOREM PipelineProgram == Spec => []ProgInv
  BY ProgInit, ProgStep, PTL DEF Spec

\* The latency report is printed when the consumer is done, in every program
\* and on every way out of it: its numbers are not written any more.
THEOREM PipelineReportFinal == Spec => []ReportFinal
<1>1. ProgInv => ReportFinal
  BY DEF ProgInv, ReportInv, ReportFinal
<1> QED BY <1>1, PipelineProgram, PTL

\* No way out of main leaves a thread that was not joined, which would end the
\* program, or a session behind the pool or the stack it stands on.
THEOREM PipelineCleanExit == Spec => []CleanExit
<1>1. ProgInv => CleanExit
  BY DEF ProgInv, ThreadInv, AliveInv, CleanExit
<1> QED BY <1>1, PipelineProgram, PTL

\* What any thread logged is written when main returns, however it got there.
THEOREM PipelineLogsWritten == Spec => []LogsWritten
<1>1. ProgInv => LogsWritten
  BY DEF ProgInv, LogInv, LogsWritten
<1> QED BY <1>1, PipelineProgram, PTL
=============================================================================
