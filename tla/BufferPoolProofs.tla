-------------------------- MODULE BufferPoolProofs --------------------------
(***************************************************************************)
(* BufferPool is correct for any number of threads, any pool size and any  *)
(* width of the version, as long as no thread is overtaken by a full turn  *)
(* of the version between a load of the head and its swap (NoFullTurn).    *)
(***************************************************************************)
EXTENDS BufferPool, SequenceTheorems, FiniteSetTheorems, TLAPS

\* What popping the top of the free list leaves.
LEMMA PopFacts ==
  ASSUME NEW S, NEW s \in Seq(S), s # <<>>,
         NEW p, p = [i \in 1 .. Len(s) - 1 |-> s[i]]
  PROVE  /\ p \in Seq(S)
         /\ Len(p) = Len(s) - 1
         /\ \A i \in 1 .. Len(s) - 1 : p[i] = s[i]
         /\ Len(s) \in Nat \ {0}
         /\ s[Len(s)] \in S
<1>1. /\ Len(s) \in Nat \ {0}
      /\ \A i \in 1 .. Len(s) : s[i] \in S
  BY EmptySeq, LenProperties
<1>2. p \in Seq(S)
  BY <1>1
<1>3. Len(p) \in Nat /\ 1 .. Len(p) = 1 .. Len(s) - 1
  BY <1>2, LenProperties
<1>4. Len(p) = Len(s) - 1
  BY <1>1, <1>3
<1>5. QED
  BY <1>1, <1>2, <1>4

\* What pushing on top of the free list adds.
LEMMA PushFacts ==
  ASSUME NEW S, NEW s \in Seq(S), NEW e \in S
  PROVE  /\ Append(s, e) \in Seq(S)
         /\ Len(Append(s, e)) = Len(s) + 1
         /\ \A i \in 1 .. Len(s) : Append(s, e)[i] = s[i]
         /\ Append(s, e)[Len(s) + 1] = e
         /\ Append(s, e) # <<>>
         /\ Len(s) \in Nat
  BY AppendProperties, LenProperties

\* A swap by thread t leaves every other window one swap older, and never a
\* full turn behind: this is where NoFullTurn is needed.
LEMMA NextVerFacts ==
  ASSUME NEW v \in 0 .. VerMod - 1
  PROVE  /\ NextVer(v) \in 0 .. VerMod - 1
         /\ NextVer(v) = v + 1 \/ NextVer(v) = v + 1 - VerMod
  BY ConstantsOK, NoFullTurn DEF NextVer

LEMMA InitIInv == Init => IInv
<1> SUFFICES ASSUME Init PROVE IInv
  OBVIOUS
<1> USE ConstantsOK, NoFullTurn, CounterWide
<1>1. TypeOK
  <2>1. [i \in 1 .. Count |-> Count - i] \in Seq(Buffers)
    BY DEF Buffers
  <2>2. <<>> \in Seq(Buffers)
    BY EmptySeq
  <2>3. head \in Heads /\ old \in [Threads -> Heads]
    BY DEF Init, Heads, Index, Buffers, Nil, NoHead
  <2>4. next \in [Buffers -> Index] /\ available \in 0 .. SizeMod - 1
    BY DEF Init, Index, Buffers, Nil
  <2>5. /\ link \in [Threads -> Index] /\ buf \in [Threads -> Index]
        /\ pc \in [Threads -> PCs] /\ age \in [Threads -> Nat]
    BY DEF Init, Index, PCs
  <2>6. QED
    BY <2>1, <2>2, <2>3, <2>4, <2>5 DEF Init, TypeOK
<1>2. \A t \in Threads : pc[t] = "idle"
  BY DEF Init
<1>3. Exclusive
  BY <1>2 DEF Exclusive, Acquired
<1>4. LinksOK /\ FreeOnce
  <2>1. CASE /\ stack = [i \in 1 .. Count |-> Count - i]
             /\ head = [ver |-> 0, idx |-> 0]
             /\ next = [b \in Buffers |-> IF b = Count - 1 THEN Nil ELSE b + 1]
    <3>1. Len(stack) = Count /\ stack # <<>>
      <4>1. Len(stack) \in Nat /\ 1 .. Len(stack) = 1 .. Count
        BY <1>1, <2>1, LenProperties DEF TypeOK
      <4>2. Len(stack) = Count
        BY <4>1
      <4>3. QED
        BY <4>2, EmptySeq
    <3>2. \A i \in 1 .. Count : stack[i] = Count - i /\ stack[i] \in Buffers
      BY <2>1 DEF Buffers
    <3>3. QED
      BY <1>2, <2>1, <3>1, <3>2 DEF LinksOK, FreeOnce, Free, Releasing, Init, Buffers
  <2>2. CASE stack = <<>> /\ head = NoHead
    BY <1>2, <2>2, EmptySeq DEF LinksOK, FreeOnce, Free, Releasing, NoHead, Init
  <2>3. QED
    BY <2>1, <2>2 DEF Init
<1>5. WindowOK
  BY <1>2 DEF WindowOK, WindowOf, InWindow
<1>6. QED
  BY <1>1, <1>3, <1>4, <1>5 DEF IInv

-----------------------------------------------------------------------------

\* The version identifies the head word: a swap that succeeds has not been
\* overtaken.
LEMMA NoABA ==
  ASSUME IInv, NEW t \in Threads, InWindow(t), head = old[t]
  PROVE  age[t] = 0
<1>1. /\ age[t] \in Nat
      /\ age[t] <= MaxOvertake
      /\ old[t].ver \in 0 .. VerMod - 1
      /\ \/ head.ver = old[t].ver + age[t]
         \/ head.ver = old[t].ver + age[t] - VerMod
  BY DEF IInv, TypeOK, WindowOK, WindowOf, Heads
<1>2. QED
  BY <1>1, ConstantsOK, NoFullTurn

\* Steps that read the head into a local leave the list as it is.
LEMMA ReloadIInv ==
  ASSUME IInv, NEW t \in Threads,
         UNCHANGED <<head, next, available, link, stack>>,
         NEW a \in PCs, NEW e \in PCs, Reload(t, a, e),
         \/ /\ pc[t] \in {"idle", "acq_cas"}
            /\ a = "acq_read" /\ e = "acq_empty"
            /\ UNCHANGED <<held, buf>>
         \/ /\ pc[t] = "rel_cas" /\ a = "rel_link" /\ e = "rel_link"
            /\ UNCHANGED <<held, buf>>
         \/ /\ pc[t] = "idle" /\ a = "rel_link" /\ e = "rel_link"
            /\ \E b \in held : held' = held \ {b} /\ buf' = [buf EXCEPT ![t] = b]
  PROVE  IInv'
<1> USE DEF Reload
<1>1. TypeOK'
  BY DEF IInv, TypeOK, Index
<1>2. LinksOK'
  BY DEF IInv, LinksOK
<1>3. FreeOnce'
  BY DEF IInv, FreeOnce, Free, Releasing, TypeOK
<1>4. Exclusive'
  BY DEF IInv, Exclusive, Free, FreeOnce, Acquired, Releasing, TypeOK
<1>5. WindowOK'
  <2> SUFFICES ASSUME NEW u \in Threads PROVE WindowOf(u)'
    BY DEF WindowOK
  <2>1. CASE u # t
    <3>1. /\ pc'[u] = pc[u] /\ old'[u] = old[u] /\ age'[u] = age[u]
          /\ link'[u] = link[u] /\ buf'[u] = buf[u]
      BY <2>1 DEF IInv, TypeOK
    <3>2. QED
      BY <3>1 DEF IInv, WindowOK, WindowOf, InWindow
  <2>2. CASE u = t
    <3>1. old'[t] = head /\ age'[t] = 0 /\ pc'[t] \in {a, e} /\ pc'[t] # "acq_cas"
      BY DEF IInv, TypeOK
    <3>2. pc'[t] = "acq_read" => head.idx # Nil
      BY DEF IInv, TypeOK
    <3>3. pc'[t] = "rel_link" => buf'[t] # Nil
      BY ConstantsOK DEF IInv, WindowOK, WindowOf, TypeOK, Buffers, Nil
    <3>4. head.ver = head.ver + 0 /\ 0 <= MaxOvertake
      BY ConstantsOK DEF IInv, TypeOK, Heads
    <3>5. QED
      BY <2>2, <3>1, <3>2, <3>3, <3>4 DEF WindowOf, InWindow
  <2>3. QED
    BY <2>1, <2>2
<1>6. QED
  BY <1>1, <1>2, <1>3, <1>4, <1>5 DEF IInv

\* A swap ages the windows of the other threads by one: none is a full turn
\* behind, and none that has been overtaken claims to be current.
LEMMA SwapWindows ==
  ASSUME IInv, NEW t \in Threads, NEW idx \in Index, InWindow(t), Swap(t, idx),
         UNCHANGED <<next, old, link, buf>>,
         NEW u \in Threads, u # t, pc'[u] = pc[u]
  PROVE  WindowOf(u)'
<1>1. CASE ~InWindow(u)
  BY <1>1 DEF IInv, WindowOK, WindowOf, InWindow
<1>2. CASE InWindow(u)
  <2>1. age'[u] = age[u] + 1 /\ age[u] \in Nat /\ age[u] < MaxOvertake
    BY <1>2 DEF Swap, MayOvertake, IInv, TypeOK
  <2>2. /\ head.ver \in 0 .. VerMod - 1
        /\ old[u].ver \in 0 .. VerMod - 1
        /\ old[t].ver = head.ver
    BY DEF IInv, TypeOK, Heads, Swap
  <2>3. \/ head.ver = old[u].ver + age[u]
        \/ head.ver = old[u].ver + age[u] - VerMod
    BY <1>2 DEF IInv, WindowOK, WindowOf
  <2>4. \/ head'.ver = old[u].ver + age'[u]
        \/ head'.ver = old[u].ver + age'[u] - VerMod
    <3>1. head'.ver = NextVer(head.ver)
      BY <2>2 DEF Swap
    <3>2. \/ head'.ver = head.ver + 1
          \/ head'.ver = head.ver + 1 - VerMod
      BY <2>2, <3>1, NextVerFacts
    <3>3. head'.ver \in 0 .. VerMod - 1
      BY <2>2, <3>1, NextVerFacts
    <3>4. QED
      BY <2>1, <2>2, <2>3, <3>2, <3>3, ConstantsOK, NoFullTurn
  <2>5. age'[u] <= MaxOvertake /\ age'[u] # 0
    BY <2>1, ConstantsOK
  <2>6. QED
    BY <1>2, <2>4, <2>5 DEF IInv, WindowOK, WindowOf, InWindow
<1>3. QED
  BY <1>1, <1>2

LEMMA AcquireReadIInv ==
  ASSUME IInv, NEW t \in Threads, AcquireRead(t)
  PROVE  IInv'
<1> USE DEF AcquireRead
<1>1. old[t].idx \in Buffers
  BY DEF IInv, WindowOK, WindowOf, TypeOK, Heads, Index
<1>2. TypeOK'
  BY <1>1 DEF IInv, TypeOK, PCs
<1>3. LinksOK'
  BY DEF IInv, LinksOK
<1>4. FreeOnce'
  BY DEF IInv, FreeOnce, Free, Releasing, TypeOK
<1>5. Exclusive'
  BY DEF IInv, Exclusive, Free, Acquired, Releasing, TypeOK
<1>6. WindowOK'
  <2> SUFFICES ASSUME NEW u \in Threads PROVE WindowOf(u)'
    BY DEF WindowOK
  <2>1. CASE u # t
    <3>1. pc'[u] = pc[u] /\ link'[u] = link[u]
      BY <2>1 DEF IInv, TypeOK
    <3>2. QED
      BY <3>1 DEF IInv, WindowOK, WindowOf, InWindow
  <2>2. CASE u = t
    <3>1. pc'[t] = "acq_cas" /\ link'[t] = next[old[t].idx]
      BY DEF IInv, TypeOK
    <3>2. QED
      BY <2>2, <3>1 DEF IInv, WindowOK, WindowOf, InWindow
  <2>3. QED
    BY <2>1, <2>2
<1>7. QED
  BY <1>2, <1>3, <1>4, <1>5, <1>6 DEF IInv

\* What the swap that takes a buffer does to the free list.
LEMMA AcquireCasEffect ==
  ASSUME IInv, NEW t \in Threads, AcquireCas(t)
  PROVE  /\ InWindow(t) /\ head = old[t] /\ pc[t] = "acq_cas" /\ Swap(t, link[t])
         /\ old[t].idx # Nil /\ link[t] = next[old[t].idx]
         /\ stack # <<>> /\ old[t].idx = stack[Len(stack)]
         /\ stack' \in Seq(Buffers)
         /\ Len(stack) \in Nat \ {0}
         /\ Len(stack') = Len(stack) - 1
         /\ \A i \in 1 .. Len(stack) - 1 : stack'[i] = stack[i]
         /\ Free' = Free \ {old[t].idx} /\ old[t].idx \in Free
<1>1. /\ InWindow(t) /\ head = old[t] /\ age[t] = 0 /\ Swap(t, link[t])
      /\ pc[t] = "acq_cas"
  BY NoABA DEF AcquireCas, InWindow, Swap
<1>2. old[t].idx # Nil /\ link[t] = next[old[t].idx]
  BY <1>1 DEF IInv, WindowOK, WindowOf
<1>3. stack \in Seq(Buffers) /\ stack # <<>> /\ old[t].idx = stack[Len(stack)]
  BY <1>1, <1>2 DEF IInv, LinksOK, TypeOK
<1>4. /\ stack' \in Seq(Buffers)
      /\ Len(stack) \in Nat \ {0}
      /\ Len(stack') = Len(stack) - 1
      /\ \A i \in 1 .. Len(stack) - 1 : stack'[i] = stack[i]
      /\ stack[Len(stack)] \in Buffers
  <2>1. stack' = [i \in 1 .. Len(stack) - 1 |-> stack[i]]
    BY DEF AcquireCas
  <2>2. QED
    BY <1>3, <2>1, PopFacts
<1>5. Free' = Free \ {old[t].idx} /\ old[t].idx \in Free
  <2>1. \A i \in 1 .. Len(stack) : stack[i] = stack[Len(stack)] => i = Len(stack)
    BY <1>4 DEF IInv, FreeOnce
  <2>2. QED
    BY <1>3, <1>4, <2>1 DEF Free
<1>6. QED
  BY <1>1, <1>2, <1>3, <1>4, <1>5

\* The swap that takes a buffer: what it puts into the head is the link of
\* the buffer it takes, so the head again names the top of the free list.
LEMMA AcquireCasIInv ==
  ASSUME IInv, NEW t \in Threads, AcquireCas(t)
  PROVE  IInv'
<1>1. /\ InWindow(t) /\ head = old[t] /\ Swap(t, link[t]) /\ pc[t] = "acq_cas"
  BY AcquireCasEffect
<1>2. old[t].idx # Nil /\ link[t] = next[old[t].idx]
  BY AcquireCasEffect
<1>3. stack # <<>> /\ old[t].idx = stack[Len(stack)]
  BY AcquireCasEffect
<1>4. /\ stack' \in Seq(Buffers)
      /\ Len(stack) \in Nat \ {0}
      /\ Len(stack') = Len(stack) - 1
      /\ \A i \in 1 .. Len(stack) - 1 : stack'[i] = stack[i]
  BY AcquireCasEffect
<1>5. stack' = <<>> <=> Len(stack) = 1
  BY <1>4, EmptySeq
<1>6. Free' = Free \ {old[t].idx} /\ old[t].idx \in Free
  BY AcquireCasEffect
<1>7. link[t] \in Index /\ old[t].ver \in 0 .. VerMod - 1
  BY DEF IInv, TypeOK, Heads
<1>8. head' = [ver |-> NextVer(old[t].ver), idx |-> link[t]] /\ head' \in Heads
  BY <1>1, <1>7, NextVerFacts DEF Swap, Heads
<1>9. TypeOK'
  <2>1. age' \in [Threads -> Nat]
    BY <1>1 DEF IInv, TypeOK, Swap
  <2>2. QED
    BY <1>4, <1>8, <2>1, Zenon DEF IInv, TypeOK, AcquireCas, PCs
<1>10. LinksOK'
  <2>1. link[t] = IF stack' = <<>> THEN Nil ELSE stack'[Len(stack')]
    BY <1>2, <1>3, <1>4, <1>5 DEF IInv, LinksOK
  <2>2. \A i \in 1 .. Len(stack') :
           next[stack'[i]] = IF i = 1 THEN Nil ELSE stack'[i - 1]
    BY <1>4 DEF IInv, LinksOK
  <2>3. next' = next
    BY DEF AcquireCas
  <2>4. QED
    BY <1>8, <2>1, <2>2, <2>3 DEF LinksOK
<1>11. /\ held' = held /\ old' = old /\ buf' = buf /\ next' = next /\ link' = link
       /\ pc'[t] = "acq_count" /\ \A u \in Threads : u # t => pc'[u] = pc[u]
  BY DEF AcquireCas, IInv, TypeOK
<1>12. FreeOnce'
  <2>1. \A i, j \in 1 .. Len(stack') : stack'[i] = stack'[j] => i = j
    BY <1>4 DEF IInv, FreeOnce
  <2>2. \A u \in Threads : Releasing(u)' <=> Releasing(u)
    BY <1>1, <1>11 DEF Releasing
  <2>3. QED
    BY <1>6, <1>11, <2>1, <2>2 DEF IInv, FreeOnce
<1>13. Exclusive'
  <2>1. \A u \in Threads : /\ Releasing(u)' <=> Releasing(u)
                           /\ Acquired(u)' <=> Acquired(u) \/ u = t
    BY <1>1, <1>11 DEF Releasing, Acquired
  <2>2. old[t].idx \notin held
    BY <1>6 DEF IInv, FreeOnce
  <2>3. \A u \in Threads : /\ Acquired(u) => old[u].idx # old[t].idx
                           /\ Releasing(u) => buf[u] # old[t].idx
    BY <1>6 DEF IInv, FreeOnce, Exclusive
  <2>4. QED
    BY <1>6, <1>11, <2>1, <2>2, <2>3 DEF IInv, Exclusive
<1>14. WindowOK'
  <2> SUFFICES ASSUME NEW u \in Threads PROVE WindowOf(u)'
    BY DEF WindowOK
  <2>1. CASE u # t
    BY <1>1, <1>7, <1>11, <2>1, SwapWindows
  <2>2. CASE u = t
    BY <1>2, <1>11, <2>2 DEF WindowOf, InWindow
  <2>3. QED
    BY <2>1, <2>2
<1>15. QED
  BY <1>9, <1>10, <1>12, <1>13, <1>14 DEF IInv

\* A write to the first word of a buffer that is not free breaks neither the
\* list nor what a thread with an up-to-date head word has read.
LEMMA WriteOutside ==
  ASSUME IInv, NEW b \in Buffers, b \notin Free, NEW v \in Index,
         next' = [next EXCEPT ![b] = v],
         UNCHANGED <<head, stack, old, link, buf, age>>
  PROVE  /\ LinksOK'
         /\ next' \in [Buffers -> Index]
         /\ \A u \in Threads :
              pc'[u] = pc[u] /\ (pc[u] = "rel_cas" => buf[u] # b) => WindowOf(u)'
<1>1. next' \in [Buffers -> Index] /\ \A c \in Buffers : c # b => next'[c] = next[c]
  BY DEF IInv, TypeOK
<1>2. \A i \in 1 .. Len(stack) : stack[i] \in Buffers /\ stack[i] # b
  BY LenProperties DEF IInv, TypeOK, Free
<1>3. LinksOK'
  BY <1>1, <1>2 DEF IInv, LinksOK
<1>4. ASSUME NEW u \in Threads, pc'[u] = pc[u], pc[u] = "rel_cas" => buf[u] # b
      PROVE  WindowOf(u)'
  <2>1. ASSUME pc[u] = "rel_cas" PROVE next'[buf[u]] = next[buf[u]]
    <3>1. buf[u] \in Buffers
      BY <2>1 DEF IInv, TypeOK, WindowOK, WindowOf, Index
    <3>2. QED
      BY <1>1, <1>4, <2>1, <3>1
  <2>2. ASSUME pc[u] = "acq_cas", age[u] = 0 PROVE next'[old[u].idx] = next[old[u].idx]
    <3>1. old[u].idx # Nil /\ head = old[u]
      BY <2>2 DEF IInv, WindowOK, WindowOf, InWindow
    <3>2. stack # <<>> /\ old[u].idx = stack[Len(stack)]
      BY <3>1 DEF IInv, LinksOK
    <3>3. Len(stack) \in 1 .. Len(stack)
      BY <3>2, EmptySeq DEF IInv, TypeOK
    <3>4. QED
      BY <1>1, <1>2, <3>2, <3>3
  <2>3. QED
    BY <1>4, <2>1, <2>2 DEF IInv, WindowOK, WindowOf, InWindow
<1>5. QED
  BY <1>1, <1>3, <1>4

LEMMA UserWriteIInv ==
  ASSUME IInv, NEW b \in Buffers, NEW v \in Index, UserWrite(b, v)
  PROVE  IInv'
<1> USE DEF UserWrite
<1>1. b \notin Free
  BY DEF IInv, FreeOnce
<1>2. \A u \in Threads : pc[u] = "rel_cas" => buf[u] # b
  BY DEF IInv, FreeOnce, Releasing
<1>3. LinksOK' /\ WindowOK' /\ next' \in [Buffers -> Index]
  <2>1. next' = [next EXCEPT ![b] = v]
    OBVIOUS
  <2>2. UNCHANGED <<head, stack, old, link, buf, age>> /\ pc' = pc
    OBVIOUS
  <2>3. QED
    BY <1>1, <1>2, <2>1, <2>2, WriteOutside, Zenon DEF WindowOK
<1>4. TypeOK'
  BY <1>3 DEF IInv, TypeOK
<1>5. Exclusive' /\ FreeOnce'
  BY DEF IInv, Exclusive, FreeOnce, Free, Acquired, Releasing
<1>6. QED
  BY <1>3, <1>4, <1>5 DEF IInv

LEMMA ReleaseLinkIInv ==
  ASSUME IInv, NEW t \in Threads, ReleaseLink(t)
  PROVE  IInv'
<1> USE DEF ReleaseLink
<1>1. buf[t] \in Buffers /\ old[t].idx \in Index
  BY DEF IInv, TypeOK, WindowOK, WindowOf, Index, Heads
<1>2. buf[t] \notin Free /\ \A u \in Threads : pc[u] = "rel_cas" => buf[u] # buf[t]
  BY DEF IInv, FreeOnce, Releasing
<1>3. /\ LinksOK'
      /\ next' \in [Buffers -> Index]
      /\ \A u \in Threads : pc'[u] = pc[u] => WindowOf(u)'
  BY <1>1, <1>2, WriteOutside, Zenon
<1>4. pc' \in [Threads -> PCs] /\ pc'[t] = "rel_cas"
      /\ \A u \in Threads : u # t => pc'[u] = pc[u]
  BY DEF IInv, TypeOK, PCs
<1>5. TypeOK'
  BY <1>3, <1>4 DEF IInv, TypeOK
<1>6. WindowOf(t)'
  <2>1. next'[buf[t]] = old[t].idx
    BY <1>1 DEF IInv, TypeOK
  <2>2. QED
    BY <1>4, <2>1 DEF IInv, WindowOK, WindowOf, InWindow
<1>7. WindowOK'
  BY <1>3, <1>4, <1>6 DEF WindowOK
<1>8. Exclusive' /\ FreeOnce'
  <2>1. \A u \in Threads : /\ Acquired(u)' <=> Acquired(u)
                           /\ Releasing(u)' <=> Releasing(u)
    BY <1>4 DEF Acquired, Releasing
  <2>2. QED
    BY <2>1 DEF IInv, Exclusive, FreeOnce, Free
<1>9. QED
  BY <1>3, <1>5, <1>7, <1>8 DEF IInv

\* What the swap that gives a buffer back does to the free list.
LEMMA ReleaseCasEffect ==
  ASSUME IInv, NEW t \in Threads, ReleaseCas(t)
  PROVE  /\ InWindow(t) /\ head = old[t] /\ Swap(t, buf[t]) /\ pc[t] = "rel_cas"
         /\ Releasing(t)
         /\ buf[t] \in Buffers /\ next[buf[t]] = head.idx /\ buf[t] # Nil
         /\ stack' \in Seq(Buffers)
         /\ Len(stack') = Len(stack) + 1
         /\ \A i \in 1 .. Len(stack) : stack'[i] = stack[i]
         /\ stack'[Len(stack) + 1] = buf[t]
         /\ stack' # <<>>
         /\ Len(stack) \in Nat
         /\ Free' = Free \cup {buf[t]} /\ buf[t] \notin Free \cup held
<1>1. /\ InWindow(t) /\ head = old[t] /\ Swap(t, buf[t]) /\ pc[t] = "rel_cas"
      /\ Releasing(t)
  BY DEF ReleaseCas, InWindow, Swap, Releasing
<1>2. buf[t] \in Buffers /\ next[buf[t]] = head.idx /\ buf[t] # Nil
  BY <1>1 DEF IInv, WindowOK, WindowOf, TypeOK, Index
<1>3. /\ stack' \in Seq(Buffers)
      /\ Len(stack') = Len(stack) + 1
      /\ \A i \in 1 .. Len(stack) : stack'[i] = stack[i]
      /\ stack'[Len(stack) + 1] = buf[t]
      /\ stack' # <<>>
      /\ Len(stack) \in Nat
  BY <1>2, PushFacts DEF ReleaseCas, IInv, TypeOK
<1>4. Free' = Free \cup {buf[t]} /\ buf[t] \notin Free \cup held
  BY <1>1, <1>3 DEF Free, IInv, FreeOnce
<1>5. QED
  BY <1>1, <1>2, <1>3, <1>4

\* The swap that gives a buffer back: its link was written from the head word
\* that the swap replaces.
LEMMA ReleaseCasIInv ==
  ASSUME IInv, NEW t \in Threads, ReleaseCas(t)
  PROVE  IInv'
<1>1. /\ InWindow(t) /\ head = old[t] /\ Swap(t, buf[t]) /\ pc[t] = "rel_cas"
      /\ Releasing(t)
  BY ReleaseCasEffect
<1>2. buf[t] \in Buffers /\ next[buf[t]] = head.idx /\ buf[t] # Nil
  BY ReleaseCasEffect
<1>3. /\ stack' \in Seq(Buffers)
      /\ Len(stack') = Len(stack) + 1
      /\ \A i \in 1 .. Len(stack) : stack'[i] = stack[i]
      /\ stack'[Len(stack) + 1] = buf[t]
      /\ stack' # <<>>
      /\ Len(stack) \in Nat
  BY ReleaseCasEffect
<1>4. Free' = Free \cup {buf[t]} /\ buf[t] \notin Free
  BY ReleaseCasEffect
<1>5. head' = [ver |-> NextVer(old[t].ver), idx |-> buf[t]] /\ head' \in Heads
  <2>1. old[t].ver \in 0 .. VerMod - 1
    BY DEF IInv, TypeOK, Heads
  <2>2. QED
    BY <1>1, <1>2, <2>1, NextVerFacts DEF Swap, Heads, Index
<1>6. /\ held' = held /\ old' = old /\ buf' = buf /\ next' = next /\ link' = link
      /\ pc'[t] = "rel_count" /\ \A u \in Threads : u # t => pc'[u] = pc[u]
  BY DEF ReleaseCas, IInv, TypeOK
<1>7. TypeOK'
  <2>1. age' \in [Threads -> Nat]
    BY <1>1 DEF IInv, TypeOK, Swap
  <2>2. QED
    BY <1>3, <1>5, <2>1, Zenon DEF IInv, TypeOK, ReleaseCas, PCs
<1>8. LinksOK'
  <2>1. \A i \in 1 .. Len(stack') :
           next[stack'[i]] = IF i = 1 THEN Nil ELSE stack'[i - 1]
    <3>1. head.idx = IF Len(stack) = 0 THEN Nil ELSE stack[Len(stack)]
      BY EmptySeq DEF IInv, LinksOK, TypeOK
    <3>2. \A i \in 1 .. Len(stack) :
             next[stack'[i]] = IF i = 1 THEN Nil ELSE stack'[i - 1]
      BY <1>3 DEF IInv, LinksOK
    <3>3. next[stack'[Len(stack) + 1]]
             = IF Len(stack) + 1 = 1 THEN Nil ELSE stack'[Len(stack)]
      BY <1>2, <1>3, <3>1
    <3>4. QED
      BY <1>3, <3>2, <3>3
  <2>2. QED
    BY <1>3, <1>5, <1>6, <2>1, Zenon DEF LinksOK
<1>9. \A u \in Threads : /\ Acquired(u)' <=> Acquired(u)
                         /\ Releasing(u)' <=> Releasing(u) /\ u # t
  BY <1>1, <1>6 DEF Acquired, Releasing
<1>10. FreeOnce'
  <2>1. \A i, j \in 1 .. Len(stack') : stack'[i] = stack'[j] => i = j
    <3>1. \A i \in 1 .. Len(stack) : stack[i] # buf[t]
      BY <1>4 DEF Free
    <3>2. QED
      BY <1>3, <3>1 DEF IInv, FreeOnce
  <2>2. buf[t] \notin held
    BY <1>1 DEF IInv, FreeOnce
  <2>3. QED
    BY <1>1, <1>4, <1>6, <1>9, <2>1, <2>2 DEF IInv, FreeOnce
<1>11. Exclusive'
  BY <1>1, <1>4, <1>6, <1>9 DEF IInv, Exclusive
<1>12. WindowOK'
  <2> SUFFICES ASSUME NEW u \in Threads PROVE WindowOf(u)'
    BY DEF WindowOK
  <2>1. CASE u # t
    <3>1. buf[t] \in Index
      BY <1>2 DEF Index
    <3>2. QED
      BY <1>1, <1>6, <2>1, <3>1, SwapWindows
  <2>2. CASE u = t
    BY <1>2, <1>6, <2>2 DEF WindowOf, InWindow
  <2>3. QED
    BY <2>1, <2>2
<1>13. QED
  BY <1>7, <1>8, <1>10, <1>11, <1>12 DEF IInv

\* The steps that return: the handle becomes the caller's, or is gone.
LEMMA ReturnIInv ==
  ASSUME IInv, NEW t \in Threads,
         AcquireCount(t) \/ AcquireEmpty(t) \/ ReleaseCount(t)
  PROVE  IInv'
<1>1. /\ UNCHANGED <<head, next, stack>>
      /\ pc[t] \in {"acq_count", "acq_empty", "rel_count"}
      /\ Done(t)
  BY DEF AcquireCount, AcquireEmpty, ReleaseCount
<1>2. available' \in 0 .. SizeMod - 1
  BY ConstantsOK, CounterWide DEF AcquireCount, AcquireEmpty, ReleaseCount, IInv, TypeOK
<1>3. \/ pc[t] = "acq_count" /\ held' = held \cup {old[t].idx} /\ old[t].idx \in Buffers
      \/ pc[t] # "acq_count" /\ held' = held
  BY DEF AcquireCount, AcquireEmpty, ReleaseCount, IInv, TypeOK, WindowOK, WindowOf,
         Heads, Index
<1>4. /\ pc'[t] = "idle"
      /\ \A u \in Threads : u # t => /\ pc'[u] = pc[u] /\ old'[u] = old[u]
                                     /\ link'[u] = link[u] /\ buf'[u] = buf[u]
                                     /\ age'[u] = age[u]
  BY <1>1 DEF Done, IInv, TypeOK
<1>5. TypeOK'
  <2>1. NoHead \in Heads
    BY ConstantsOK, NoFullTurn DEF NoHead, Heads, Index
  <2>2. QED
    BY <1>1, <1>2, <1>3, <2>1 DEF Done, IInv, TypeOK, PCs, Index
<1>6. LinksOK' /\ Free' = Free
  BY <1>1 DEF IInv, LinksOK, Free
<1>7. \A u \in Threads : /\ Acquired(u)' <=> Acquired(u) /\ u # t
                         /\ Releasing(u)' <=> Releasing(u) /\ u # t
                         /\ Releasing(u) => u # t
  BY <1>1, <1>4 DEF Acquired, Releasing
<1>8. FreeOnce'
  <2>1. Free' \cap held' = {}
    BY <1>3, <1>6 DEF IInv, FreeOnce, Exclusive, Acquired
  <2>2. \A i, j \in 1 .. Len(stack') : stack'[i] = stack'[j] => i = j
    BY <1>1 DEF IInv, FreeOnce
  <2>3. ASSUME NEW u \in Threads, Releasing(u)' PROVE buf'[u] \notin Free' \cup held'
    <3>1. u # t /\ Releasing(u) /\ buf'[u] = buf[u]
      BY <1>4, <1>7, <2>3
    <3>2. buf[u] \notin Free \cup held
      BY <3>1 DEF IInv, FreeOnce
    <3>3. pc[t] = "acq_count" => buf[u] # old[t].idx
      BY <3>1 DEF IInv, Exclusive, Acquired
    <3> QED BY <1>3, <1>6, <3>1, <3>2, <3>3
  <2>4. ASSUME NEW u \in Threads, NEW v \in Threads,
               Releasing(u)', Releasing(v)', buf'[u] = buf'[v]
        PROVE  u = v
    <3>1. Releasing(u) /\ Releasing(v) /\ buf[u] = buf[v]
      BY <1>4, <1>7, <2>4
    <3> QED BY <3>1 DEF IInv, FreeOnce
  <2> QED BY <2>1, <2>2, <2>3, <2>4 DEF FreeOnce
<1>9. Exclusive'
  BY <1>1, <1>3, <1>4, <1>6, <1>7 DEF IInv, Exclusive, Acquired
<1>10. WindowOK'
  BY <1>1, <1>4 DEF IInv, WindowOK, WindowOf, InWindow
<1>11. QED
  BY <1>5, <1>6, <1>8, <1>9, <1>10 DEF IInv

-----------------------------------------------------------------------------

LEMMA NextIInv == IInv /\ [Next]_vars => IInv'
<1> SUFFICES ASSUME IInv, [Next]_vars PROVE IInv'
  OBVIOUS
<1>1. ASSUME NEW t \in Threads, Acquire(t) PROVE IInv'
  <2>1. CASE AcquireLoad(t) \/ AcquireCasFail(t)
    <3>1. "acq_read" \in PCs /\ "acq_empty" \in PCs
      BY DEF PCs
    <3>2. QED
      BY <2>1, <3>1, ReloadIInv DEF AcquireLoad, AcquireCasFail
  <2>2. CASE AcquireRead(t)
    BY <2>2, AcquireReadIInv
  <2>3. CASE AcquireCas(t)
    BY <2>3, AcquireCasIInv
  <2>4. CASE AcquireCount(t) \/ AcquireEmpty(t)
    BY <2>4, ReturnIInv
  <2>5. QED
    BY <1>1, <2>1, <2>2, <2>3, <2>4 DEF Acquire
<1>2. ASSUME NEW t \in Threads, Release(t) PROVE IInv'
  <2> "rel_link" \in PCs
    BY DEF PCs
  <2>1. ASSUME NEW b \in Buffers, ReleaseLoad(t, b) PROVE IInv'
    BY <2>1, ReloadIInv, Zenon DEF ReleaseLoad
  <2>2. CASE ReleaseCasFail(t)
    BY <2>2, ReloadIInv DEF ReleaseCasFail
  <2>3. CASE ReleaseLink(t)
    BY <2>3, ReleaseLinkIInv
  <2>4. CASE ReleaseCas(t)
    BY <2>4, ReleaseCasIInv
  <2>5. CASE ReleaseCount(t)
    BY <2>5, ReturnIInv
  <2>6. QED
    BY <1>2, <2>1, <2>2, <2>3, <2>4, <2>5 DEF Release
<1>3. ASSUME NEW b \in Buffers, NEW v \in Index, UserWrite(b, v) PROVE IInv'
  BY <1>3, UserWriteIInv
<1>4. CASE UNCHANGED vars
  BY <1>4 DEF vars, IInv, TypeOK, Exclusive, FreeOnce, LinksOK, WindowOK, WindowOf,
              InWindow, Free, Acquired, Releasing
<1>5. QED
  BY <1>1, <1>2, <1>3, <1>4 DEF Next

\* The free list, the links in memory and the threads' views of them stay
\* consistent whatever the interleaving of acquire() and release().
THEOREM PoolInvariant == Spec => []IInv
  BY InitIInv, NextIInv, PTL DEF Spec

\* Type correctness: no head index or version ever leaves its range.
THEOREM PoolTypeOK == Spec => []TypeOK
<1>1. IInv => TypeOK
  BY DEF IInv
<1>2. QED
  BY <1>1, PoolInvariant, PTL

\* acquire() never hands out a buffer that somebody else has or is giving back.
THEOREM PoolExclusive == Spec => []Exclusive
<1>1. IInv => Exclusive
  BY DEF IInv
<1>2. QED
  BY <1>1, PoolInvariant, PTL

\* A released buffer is on the free list exactly once.
THEOREM PoolFreeOnce == Spec => []FreeOnce
<1>1. IInv => FreeOnce
  BY DEF IInv
<1>2. QED
  BY <1>1, PoolInvariant, PTL

\* The links in memory thread exactly the free buffers.
THEOREM PoolLinksOK == Spec => []LinksOK
<1>1. IInv => LinksOK
  BY DEF IInv
<1>2. QED
  BY <1>1, PoolInvariant, PTL

\* A head word that compares equal has not been replaced since it was loaded.
THEOREM PoolNoABA == Spec => []WindowOK
<1>1. IInv => WindowOK
  BY DEF IInv
<1>2. QED
  BY <1>1, PoolInvariant, PTL

-----------------------------------------------------------------------------

\* Steps between the two swaps move no buffer in or out of the free list.
LEMMA QuietSteps ==
  ASSUME IInv, NEW t \in Threads,
         \/ AcquireLoad(t) \/ AcquireCasFail(t) \/ AcquireRead(t)
         \/ ReleaseLink(t) \/ ReleaseCasFail(t)
  PROVE  stack' = stack /\ Outside' = Outside
<1>1. /\ held' = held /\ stack' = stack /\ buf' = buf
      /\ \A u \in Threads : /\ Acquired(u)' <=> Acquired(u)
                            /\ Acquired(u) => old'[u] = old[u]
                            /\ Releasing(u)' <=> Releasing(u)
  BY DEF AcquireLoad, AcquireCasFail, AcquireRead, ReleaseLink, ReleaseCasFail,
         Reload, Acquired, Releasing, IInv, TypeOK
<1>2. QED
  BY <1>1, Zenon DEF InFlight, Outside

\* Returning from acquire() moves a buffer from in flight to held.
LEMMA ReturnSteps ==
  ASSUME IInv, NEW t \in Threads,
         AcquireCount(t) \/ AcquireEmpty(t) \/ ReleaseCount(t)
  PROVE  stack' = stack /\ Outside' = Outside
<1>1. /\ stack' = stack
      /\ pc[t] = "acq_count" => held' = held \cup {old[t].idx}
      /\ pc[t] # "acq_count" => held' = held
      /\ ~Releasing(t) /\ ~Releasing(t)' /\ ~Acquired(t)'
      /\ \A u \in Threads : u # t => /\ Acquired(u)' <=> Acquired(u)
                                     /\ Releasing(u)' <=> Releasing(u)
                                     /\ old'[u] = old[u] /\ buf'[u] = buf[u]
  BY DEF AcquireCount, AcquireEmpty, ReleaseCount, Done, Acquired, Releasing, IInv, TypeOK
<1>2. ASSUME NEW x PROVE x \in Outside' <=> x \in Outside
  BY <1>1 DEF InFlight, Outside, Acquired
<1>3. QED
  BY <1>1, <1>2, Zenon

\* Entering release() moves a buffer from held to in flight.
LEMMA ReleaseLoadStep ==
  ASSUME IInv, NEW t \in Threads, NEW b \in Buffers, ReleaseLoad(t, b)
  PROVE  stack' = stack /\ Outside' = Outside
<1>1. /\ stack' = stack /\ held' = held \ {b} /\ b \in held
      /\ ~Releasing(t) /\ Releasing(t)' /\ buf'[t] = b
      /\ ~Acquired(t) /\ ~Acquired(t)'
      /\ \A u \in Threads : u # t => /\ Acquired(u)' <=> Acquired(u)
                                     /\ Releasing(u)' <=> Releasing(u)
                                     /\ old'[u] = old[u] /\ buf'[u] = buf[u]
  BY DEF ReleaseLoad, Reload, Acquired, Releasing, IInv, TypeOK
<1>2. ASSUME NEW x PROVE x \in Outside' <=> x \in Outside
  BY <1>1 DEF InFlight, Outside
<1>3. QED
  BY <1>1, <1>2, Zenon

\* The two swaps each move one buffer across.
LEMMA AcquireCasStep ==
  ASSUME IInv, NEW t \in Threads, AcquireCas(t)
  PROVE  Outside' = Outside \cup {old[t].idx}
<1>1. /\ held' = held /\ old' = old /\ buf' = buf
      /\ Acquired(t)' /\ ~Acquired(t) /\ ~Releasing(t) /\ ~Releasing(t)'
      /\ \A u \in Threads : u # t => /\ Acquired(u)' <=> Acquired(u)
                                     /\ Releasing(u)' <=> Releasing(u)
  BY DEF AcquireCas, Acquired, Releasing, IInv, TypeOK
<1>2. ASSUME NEW x PROVE x \in Outside' <=> x \in Outside \cup {old[t].idx}
  BY <1>1 DEF InFlight, Outside
<1>3. QED
  BY <1>2

LEMMA ReleaseCasStep ==
  ASSUME IInv, NEW t \in Threads, ReleaseCas(t)
  PROVE  Outside' = Outside \ {buf[t]} /\ buf[t] \in Outside
<1>1. /\ held' = held /\ old' = old /\ buf' = buf
      /\ ~Acquired(t)' /\ ~Acquired(t) /\ Releasing(t) /\ ~Releasing(t)'
      /\ \A u \in Threads : u # t => /\ Acquired(u)' <=> Acquired(u)
                                     /\ Releasing(u)' <=> Releasing(u)
  BY DEF ReleaseCas, Acquired, Releasing, IInv, TypeOK
<1>2. /\ buf[t] \notin held
      /\ \A u \in Threads : Acquired(u) => old[u].idx # buf[t]
      /\ \A u \in Threads : u # t /\ Releasing(u) => buf[u] # buf[t]
  BY <1>1 DEF IInv, FreeOnce, Exclusive
<1>3. ASSUME NEW x PROVE x \in Outside' <=> x \in Outside \ {buf[t]}
  BY <1>1, <1>2 DEF InFlight, Outside
<1>4. QED
  BY <1>1, <1>3 DEF InFlight, Outside

\* No step loses or invents a buffer.
THEOREM PoolNoLeak == Spec => NoLeak
<1>1. ASSUME IInv, [Next]_vars PROVE [Owned' = Owned]_vars
  <2>1. ASSUME NEW t \in Threads, Acquire(t) PROVE Owned' = Owned
    <3>1. CASE AcquireCas(t)
      BY <1>1, <3>1, AcquireCasEffect, AcquireCasStep DEF Owned
    <3>2. CASE ~AcquireCas(t)
      BY <1>1, <2>1, <3>2, QuietSteps, ReturnSteps DEF Acquire, Owned, Free
    <3>3. QED
      BY <3>1, <3>2
  <2>2. ASSUME NEW t \in Threads, Release(t) PROVE Owned' = Owned
    <3>1. CASE ReleaseCas(t)
      BY <1>1, <3>1, ReleaseCasEffect, ReleaseCasStep DEF Owned
    <3>2. CASE ~ReleaseCas(t)
      BY <1>1, <2>2, <3>2, QuietSteps, ReturnSteps, ReleaseLoadStep
         DEF Release, Owned, Free
    <3>3. QED
      BY <3>1, <3>2
  <2>3. ASSUME NEW b \in Buffers, NEW v \in Index, UserWrite(b, v) PROVE Owned' = Owned
    BY <2>3 DEF UserWrite, Owned, Outside, Free, InFlight, Acquired, Releasing
  <2>4. QED
    BY <1>1, <2>1, <2>2, <2>3 DEF Next
<1>2. QED
  BY <1>1, PoolInvariant, PTL DEF Spec, NoLeak

-----------------------------------------------------------------------------

\* Every step is an atomic operation of Pool or invisible there.
LEMMA StepRefines ==
  ASSUME IInv, [Next]_vars
  PROVE  Atomic!PoolNext \/ UNCHANGED <<stack, Outside, Result>>
<1>1. ASSUME NEW t \in Threads, AcquireLoad(t) \/ AcquireCasFail(t)
      PROVE  Atomic!Get(t) \/ UNCHANGED <<stack, Outside, Result>>
  <2>1. stack' = stack /\ Outside' = Outside
    BY <1>1, QuietSteps
  <2>2. /\ pc[t] \in {"idle", "acq_cas"}
        /\ pc' = [pc EXCEPT ![t] = IF head.idx = Nil THEN "acq_empty" ELSE "acq_read"]
        /\ old' = [old EXCEPT ![t] = head]
    BY <1>1 DEF AcquireLoad, AcquireCasFail, Reload
  <2>3. CASE head.idx # Nil
    <3>1. Result' = Result
      BY <2>2, <2>3 DEF Result, IInv, TypeOK
    <3>2. QED
      BY <2>1, <3>1
  <2>4. CASE head.idx = Nil
    <3>1. stack = <<>>
      BY <2>4, PopFacts, ConstantsOK DEF IInv, LinksOK, TypeOK, Nil, Buffers
    <3>2. Result' = [Result EXCEPT ![t] = Nil] /\ Result[t] = Nil - 1
      BY <2>2, <2>4, Zenon DEF Result, IInv, TypeOK
    <3>3. QED
      BY <2>1, <3>1, <3>2 DEF Atomic!Get
  <2>5. QED
    BY <2>3, <2>4
<1>2. ASSUME NEW t \in Threads, AcquireCas(t) PROVE Atomic!Get(t)
  <2>1. /\ stack # <<>> /\ old[t].idx = stack[Len(stack)]
        /\ stack' = [i \in 1 .. Len(stack) - 1 |-> stack[i]]
        /\ Outside' = Outside \cup {old[t].idx}
    BY <1>2, AcquireCasEffect, AcquireCasStep, Zenon DEF AcquireCas
  <2>2. Result' = [Result EXCEPT ![t] = old[t].idx] /\ Result[t] = Nil - 1
    BY <1>2, Zenon DEF Result, AcquireCas, IInv, TypeOK
  <2>3. QED
    BY <2>1, <2>2 DEF Atomic!Get, Atomic!Top, Atomic!Pop
<1>3. ASSUME NEW t \in Threads, AcquireCount(t) \/ AcquireEmpty(t) PROVE Atomic!Return(t)
  <2>1. stack' = stack /\ Outside' = Outside
    BY <1>3, ReturnSteps
  <2>2. Result' = [Result EXCEPT ![t] = Nil - 1]
    BY <1>3, Zenon DEF Result, AcquireCount, AcquireEmpty, Done, IInv, TypeOK
  <2>3. Result[t] # Nil - 1
    <3>1. old[t].idx \in Index
      BY DEF IInv, TypeOK, Heads
    <3>2. old[t].idx # Nil - 1 /\ Nil # Nil - 1
      BY <3>1, ConstantsOK DEF Index, Buffers, Nil
    <3>3. Result[t] \in {old[t].idx, Nil}
      BY <1>3 DEF Result, AcquireCount, AcquireEmpty
    <3>4. QED
      BY <3>2, <3>3
  <2>4. QED
    BY <2>1, <2>2, <2>3 DEF Atomic!Return
<1>4. ASSUME NEW t \in Threads, ReleaseCas(t) PROVE Atomic!PoolNext
  <2>1. /\ stack' = Append(stack, buf[t])
        /\ Outside' = Outside \ {buf[t]} /\ buf[t] \in Outside /\ buf[t] \in Buffers
    BY <1>4, ReleaseCasEffect, ReleaseCasStep, Zenon DEF ReleaseCas
  <2>2. Result' = Result
    BY <1>4 DEF Result, ReleaseCas, IInv, TypeOK
  <2>3. QED
    BY <2>1, <2>2 DEF Atomic!PoolNext, Atomic!Put
<1>5. ASSUME NEW t \in Threads,
             \/ AcquireRead(t) \/ ReleaseLink(t) \/ ReleaseCasFail(t) \/ ReleaseCount(t)
             \/ \E b \in Buffers : ReleaseLoad(t, b)
      PROVE  UNCHANGED <<stack, Outside, Result>>
  <2>1. stack' = stack /\ Outside' = Outside
    BY <1>5, QuietSteps, ReturnSteps, ReleaseLoadStep
  <2>2. Result' = Result
    BY <1>5 DEF Result, AcquireRead, ReleaseLink, ReleaseCasFail, ReleaseCount,
                ReleaseLoad, Reload, Done, IInv, TypeOK
  <2>3. QED
    BY <2>1, <2>2
<1>6. ASSUME NEW b \in Buffers, NEW v \in Index, UserWrite(b, v)
      PROVE  UNCHANGED <<stack, Outside, Result>>
  BY <1>6 DEF UserWrite, Outside, InFlight, Acquired, Releasing, Result
<1>7. CASE UNCHANGED vars
  BY <1>7 DEF vars, Outside, InFlight, Acquired, Releasing, Result
<1>8. QED
  BY <1>1, <1>2, <1>3, <1>4, <1>5, <1>6, <1>7
     DEF Next, Acquire, Release, Atomic!PoolNext

\* BufferPool implements Pool: acquire() and release() are atomic.
THEOREM PoolRefinement == Spec => ImplementsPool
<1>1. ASSUME Init PROVE Atomic!PoolInit
  <2>1. IInv
    BY <1>1, InitIInv
  <2>2. Outside = {} /\ Result = [t \in Threads |-> Nil - 1]
    BY <1>1 DEF Init, Outside, InFlight, Acquired, Releasing, Result
  <2>3. QED
    BY <2>1, <2>2 DEF Atomic!PoolInit, IInv, TypeOK, FreeOnce
<1>2. ASSUME IInv, [Next]_vars PROVE [Atomic!PoolNext]_(Atomic!poolVars)
  BY <1>2, StepRefines DEF Atomic!poolVars
<1>3. QED
  BY <1>1, <1>2, PoolInvariant, PTL DEF Spec, ImplementsPool, Atomic!PoolSpec

\* Division with remainder.
LEMMA DivMod ==
  ASSUME NEW a \in Int, NEW n \in Int, n > 0
  PROVE  /\ (a % n) \in 0 .. n - 1
         /\ \E q \in Int : a = n * q + (a % n)
<1>1. (a \div n) \in Int /\ a = n * (a \div n) + (a % n)
  BY SMT
<1>2. (a % n) \in 0 .. n - 1
  BY SMT
<1> QED
  BY <1>1, <1>2

\* No multiple of n lies strictly between 0 and n.
LEMMA NoMultiple ==
  ASSUME NEW n \in Int, NEW q \in Int, n * q > 0, n * q < n
  PROVE  FALSE
<1>1. CASE q >= 1
  <2>1. n * q = n * (q - 1) + n
    BY Z3
  <2>2. n * (q - 1) >= 0
    BY <1>1, Z3
  <2> QED
    BY <2>1, <2>2, Z3
<1>2. CASE q <= 0
  BY <1>2, Z3
<1> QED
  BY <1>1, <1>2

\* The remainder is the only number below the divisor that is a multiple away.
LEMMA OneRemainder ==
  ASSUME NEW n \in Int, n > 0, NEW a \in Int, NEW q \in Int, NEW s \in 0 .. n - 1, a = n * q + s
  PROVE  a % n = s
<1>1. PICK p \in Int : a = n * p + (a % n)
  BY DivMod
<1>2. (a % n) \in 0 .. n - 1
  BY DivMod
<1> DEFINE m == a % n
<1>3. m \in 0 .. n - 1 /\ a = n * p + m
  BY <1>1, <1>2
<1> HIDE DEF m
<1>4. m - s = n * (q - p) /\ s - m = n * (p - q)
  BY <1>3, Z3
<1>5. ~(m - s > 0 /\ m - s < n) /\ ~(s - m > 0 /\ s - m < n)
  BY <1>4, NoMultiple
<1>6. m = s
  BY <1>3, <1>5
<1> QED BY <1>6 DEF m

\* Counting up or down by one commutes with wrapping.
LEMMA CountWraps ==
  ASSUME NEW n \in Int, n > 0, NEW a \in Int
  PROVE  /\ ((a % n) + 1) % n = (a + 1) % n
         /\ ((a % n) - 1) % n = (a - 1) % n
<1>1. PICK q \in Int : a = n * q + (a % n)
  BY DivMod
<1>2. (a % n) \in 0 .. n - 1
  BY DivMod
<1> DEFINE m == a % n
<1>3. m \in 0 .. n - 1 /\ a = n * q + m
  BY <1>1, <1>2
<1> HIDE DEF m
<1>4. (m + 1) % n = (a + 1) % n
  <2>1. CASE m + 1 < n
    <3>1. m + 1 \in 0 .. n - 1 /\ m + 1 = n * 0 + (m + 1) /\ a + 1 = n * q + (m + 1)
      BY <1>3, <2>1, Z3
    <3>2. m + 1 \in Int /\ a + 1 \in Int
      BY <1>3
    <3>3. (m + 1) % n = m + 1
      BY <3>1, <3>2, OneRemainder
    <3>4. (a + 1) % n = m + 1
      BY <3>1, <3>2, OneRemainder
    <3> QED BY <3>3, <3>4
  <2>2. CASE m + 1 = n
    <3>1. 0 \in 0 .. n - 1 /\ m + 1 = n * 1 + 0 /\ a + 1 = n * (q + 1) + 0
      BY <1>3, <2>2, Z3
    <3>2. (m + 1) % n = 0
      BY <1>3, <3>1, OneRemainder
    <3>3. (a + 1) % n = 0
      BY <3>1, OneRemainder
    <3> QED BY <3>2, <3>3
  <2> QED BY <1>3, <2>1, <2>2
<1>5. (m - 1) % n = (a - 1) % n
  <2>1. CASE m >= 1
    <3>1. m - 1 \in 0 .. n - 1 /\ m - 1 = n * 0 + (m - 1) /\ a - 1 = n * q + (m - 1)
      BY <1>3, <2>1, Z3
    <3>2. m - 1 \in Int /\ a - 1 \in Int
      BY <1>3
    <3>3. (m - 1) % n = m - 1
      BY <3>1, <3>2, OneRemainder
    <3>4. (a - 1) % n = m - 1
      BY <3>1, <3>2, OneRemainder
    <3> QED BY <3>3, <3>4
  <2>2. CASE m = 0
    <3>1. n - 1 \in 0 .. n - 1 /\ m - 1 = n * (-1) + (n - 1) /\ a - 1 = n * (q - 1) + (n - 1)
      BY <1>3, <2>2, Z3
    <3>2. (m - 1) % n = n - 1
      BY <1>3, <3>1, OneRemainder
    <3>3. (a - 1) % n = n - 1
      <4>1. a - 1 \in Int /\ q - 1 \in Int
        OBVIOUS
      <4> QED BY <3>1, <4>1, OneRemainder, Zenon
    <3> QED BY <3>2, <3>3
  <2> QED BY <1>3, <2>1, <2>2
<1> QED BY <1>4, <1>5 DEF m

\* The threads that took a buffer and have not counted it yet, and those that
\* gave one back and have not.
Takers == {t \in Threads : pc[t] = "acq_count"}
Givers == {t \in Threads : pc[t] = "rel_count"}

\* What available_ would be if every thread in Takers or Givers had counted.
Owed == Len(stack) + Cardinality(Takers) - Cardinality(Givers)

\* These are numbers.
LEMMA OwedTypes ==
  ASSUME IInv
  PROVE  /\ IsFiniteSet(Takers) /\ IsFiniteSet(Givers) /\ Len(stack) \in Nat
         /\ Cardinality(Takers) \in Nat /\ Cardinality(Givers) \in Nat /\ Owed \in Int
<1>1. Takers \subseteq Threads /\ Givers \subseteq Threads /\ IsFiniteSet(Threads)
  BY ConstantsOK DEF Takers, Givers
<1>2. IsFiniteSet(Takers) /\ IsFiniteSet(Givers)
  BY <1>1, FS_Subset
<1>3. Cardinality(Takers) \in Nat /\ Cardinality(Givers) \in Nat
  BY <1>2, FS_CardinalityType
<1>4. Len(stack) \in Nat
  BY DEF IInv, TypeOK
<1> QED BY <1>2, <1>3, <1>4 DEF Owed

\* A thread that gets to its update of the counter, or leaves it.
LEMMA OwedStep ==
  ASSUME IInv, NEW t \in Threads, NEW p,
         pc' = [pc EXCEPT ![t] = p]
  PROVE  /\ p = "acq_count" /\ pc[t] \notin {"acq_count", "rel_count"} =>
              Cardinality(Takers') = Cardinality(Takers) + 1 /\ Givers' = Givers
         /\ p = "rel_count" /\ pc[t] \notin {"acq_count", "rel_count"} =>
              Cardinality(Givers') = Cardinality(Givers) + 1 /\ Takers' = Takers
         /\ p \notin {"acq_count", "rel_count"} /\ pc[t] = "acq_count" =>
              Cardinality(Takers') = Cardinality(Takers) - 1 /\ Givers' = Givers
         /\ p \notin {"acq_count", "rel_count"} /\ pc[t] = "rel_count" =>
              Cardinality(Givers') = Cardinality(Givers) - 1 /\ Takers' = Takers
         /\ p \notin {"acq_count", "rel_count"} /\ pc[t] \notin {"acq_count", "rel_count"} =>
              Takers' = Takers /\ Givers' = Givers
<1>0. pc'[t] = p /\ \A u \in Threads : u # t => pc'[u] = pc[u]
  BY DEF IInv, TypeOK
<1>1. IsFiniteSet(Takers) /\ IsFiniteSet(Givers)
  BY OwedTypes
<1>2. ASSUME p = "acq_count", pc[t] \notin {"acq_count", "rel_count"}
      PROVE  Cardinality(Takers') = Cardinality(Takers) + 1 /\ Givers' = Givers
  <2>1. Takers' = Takers \cup {t} /\ t \notin Takers /\ Givers' = Givers
    BY <1>0, <1>2 DEF Takers, Givers
  <2> QED BY <1>1, <2>1, FS_AddElement, Zenon
<1>3. ASSUME p = "rel_count", pc[t] \notin {"acq_count", "rel_count"}
      PROVE  Cardinality(Givers') = Cardinality(Givers) + 1 /\ Takers' = Takers
  <2>1. Givers' = Givers \cup {t} /\ t \notin Givers /\ Takers' = Takers
    BY <1>0, <1>3 DEF Takers, Givers
  <2> QED BY <1>1, <2>1, FS_AddElement, Zenon
<1>4. ASSUME p \notin {"acq_count", "rel_count"}, pc[t] = "acq_count"
      PROVE  Cardinality(Takers') = Cardinality(Takers) - 1 /\ Givers' = Givers
  <2>1. Takers' = Takers \ {t} /\ t \in Takers /\ Givers' = Givers
    BY <1>0, <1>4 DEF Takers, Givers
  <2> QED BY <1>1, <2>1, FS_RemoveElement, Zenon
<1>5. ASSUME p \notin {"acq_count", "rel_count"}, pc[t] = "rel_count"
      PROVE  Cardinality(Givers') = Cardinality(Givers) - 1 /\ Takers' = Takers
  <2>1. Givers' = Givers \ {t} /\ t \in Givers /\ Takers' = Takers
    BY <1>0, <1>5 DEF Takers, Givers
  <2> QED BY <1>1, <2>1, FS_RemoveElement, Zenon
<1>6. ASSUME p \notin {"acq_count", "rel_count"}, pc[t] \notin {"acq_count", "rel_count"}
      PROVE  Takers' = Takers /\ Givers' = Givers
  BY <1>0, <1>6 DEF Takers, Givers
<1> QED BY <1>2, <1>3, <1>4, <1>5, <1>6

\* No step makes available_ wrong: a swap of the head moves the thread to its
\* update of the counter, and the update takes it away.
LEMMA AvailableStep ==
  ASSUME IInv, available = Owed % SizeMod, [Next]_vars
  PROVE  available' = Owed' % SizeMod
<1>t. /\ Len(stack) \in Nat /\ Cardinality(Takers) \in Nat /\ Cardinality(Givers) \in Nat
      /\ Owed \in Int
  BY OwedTypes
<1>0. SizeMod \in Int /\ SizeMod > 0
  BY ConstantsOK, CounterWide
<1>1. ASSUME NEW t \in Threads, AcquireCas(t) PROVE available' = Owed' % SizeMod
  <2>1. /\ available' = available /\ Len(stack') = Len(stack) - 1
        /\ pc[t] = "acq_cas" /\ pc' = [pc EXCEPT ![t] = "acq_count"]
    BY <1>1, AcquireCasEffect, Zenon DEF AcquireCas
  <2>2. Cardinality(Takers') = Cardinality(Takers) + 1 /\ Givers' = Givers
    <3>1. pc[t] \notin {"acq_count", "rel_count"}
      BY <2>1
    <3> QED BY <2>1, <3>1, OwedStep, Zenon
  <2>3. Owed' = Owed
    BY <1>t, <2>1, <2>2 DEF Owed
  <2> QED BY <2>1, <2>3
<1>2. ASSUME NEW t \in Threads, ReleaseCas(t) PROVE available' = Owed' % SizeMod
  <2>1. /\ available' = available /\ Len(stack') = Len(stack) + 1
        /\ pc[t] = "rel_cas" /\ pc' = [pc EXCEPT ![t] = "rel_count"]
    BY <1>2, ReleaseCasEffect DEF ReleaseCas
  <2>2. Cardinality(Givers') = Cardinality(Givers) + 1 /\ Takers' = Takers
    <3>1. pc[t] \notin {"acq_count", "rel_count"}
      BY <2>1
    <3> QED BY <2>1, <3>1, OwedStep, Zenon
  <2>3. Owed' = Owed
    <3>1. Cardinality(Takers') = Cardinality(Takers)
      BY <2>2
    <3>2. Owed' = (Len(stack) + 1) + Cardinality(Takers) - (Cardinality(Givers) + 1)
      BY <2>1, <2>2, <3>1, Zenon DEF Owed
    <3> QED BY <1>t, <3>2 DEF Owed
  <2> QED BY <2>1, <2>3
<1>3. ASSUME NEW t \in Threads, AcquireCount(t) PROVE available' = Owed' % SizeMod
  <2>1. /\ available' = (available - 1) % SizeMod /\ stack' = stack
        /\ pc[t] = "acq_count" /\ pc' = [pc EXCEPT ![t] = "idle"]
    BY <1>3 DEF AcquireCount, Done
  <2>2. Cardinality(Takers') = Cardinality(Takers) - 1 /\ Givers' = Givers
    <3>1. "idle" \notin {"acq_count", "rel_count"}
      OBVIOUS
    <3> QED BY <2>1, <3>1, OwedStep, Zenon
  <2>3. Owed' = Owed - 1
    BY <1>t, <2>1, <2>2 DEF Owed
  <2> QED BY <1>0, <1>t, <2>1, <2>3, CountWraps, Zenon
<1>4. ASSUME NEW t \in Threads, ReleaseCount(t) PROVE available' = Owed' % SizeMod
  <2>1. /\ available' = (available + 1) % SizeMod /\ stack' = stack
        /\ pc[t] = "rel_count" /\ pc' = [pc EXCEPT ![t] = "idle"]
    BY <1>4 DEF ReleaseCount, Done
  <2>2. Cardinality(Givers') = Cardinality(Givers) - 1 /\ Takers' = Takers
    <3>1. "idle" \notin {"acq_count", "rel_count"}
      OBVIOUS
    <3> QED BY <2>1, <3>1, OwedStep, Zenon
  <2>3. Owed' = Owed + 1
    BY <1>t, <2>1, <2>2 DEF Owed
  <2> QED BY <1>0, <1>t, <2>1, <2>3, CountWraps, Zenon
<1>5. ASSUME NEW t \in Threads,
             \/ AcquireLoad(t) \/ AcquireRead(t) \/ AcquireCasFail(t) \/ AcquireEmpty(t)
             \/ ReleaseLink(t) \/ ReleaseCasFail(t) \/ \E b \in Buffers : ReleaseLoad(t, b)
      PROVE  available' = Owed' % SizeMod
  <2>1. /\ available' = available /\ stack' = stack
        /\ pc[t] \notin {"acq_count", "rel_count"}
        /\ \E p : p \notin {"acq_count", "rel_count"} /\ pc' = [pc EXCEPT ![t] = p]
    <3> USE DEF AcquireLoad, AcquireRead, AcquireCasFail, AcquireEmpty, ReleaseLink,
                ReleaseCasFail, ReleaseLoad, Reload, Done
    <3>1. available' = available /\ stack' = stack /\ pc[t] \notin {"acq_count", "rel_count"}
      BY <1>5
    <3>2. \E p \in {"acq_read", "acq_cas", "acq_empty", "idle", "rel_link", "rel_cas"} :
             pc' = [pc EXCEPT ![t] = p]
      BY <1>5
    <3> QED BY <3>1, <3>2, Zenon
  <2>2. Takers' = Takers /\ Givers' = Givers
    BY <2>1, OwedStep, Zenon
  <2> QED BY <2>1, <2>2 DEF Owed
<1>6. ASSUME UNCHANGED <<available, stack, pc>> PROVE available' = Owed' % SizeMod
  BY <1>6 DEF Owed, Takers, Givers
<1> QED BY <1>1, <1>2, <1>3, <1>4, <1>5, <1>6 DEF Next, Acquire, Release, UserWrite, vars

\* available_ is at every instant the length of the free list, but for the
\* threads between the swap of the head and their update of the counter. So it
\* is exact whenever none is, although list and counter are two atomics that no
\* lock ties together, and also when the difference is negative and wraps.
THEOREM PoolAvailableExact == Spec => []AvailableExact
<1>1. AvailableExact <=> available = Owed % SizeMod
  BY DEF AvailableExact, Owed, Takers, Givers
<1>2. Init => AvailableExact
  <2> SUFFICES ASSUME Init PROVE available = Owed % SizeMod
    BY <1>1
  <2>1. Takers = {} /\ Givers = {}
    BY DEF Init, Takers, Givers
  <2>2. Cardinality(Takers) = 0 /\ Cardinality(Givers) = 0
    BY <2>1, FS_EmptySet
  <2>3. available = Len(stack) /\ available \in 0 .. SizeMod - 1
    <3>1. IInv
      BY InitIInv
    <3>2. CASE stack = <<>> /\ available = 0
      BY <3>1, <3>2 DEF IInv, TypeOK
    <3>3. CASE stack = [i \in 1 .. Count |-> Count - i] /\ available = Count
      <4>1. Len(stack) \in Nat /\ 1 .. Len(stack) = 1 .. Count
        BY <3>1, <3>3, LenProperties DEF IInv, TypeOK
      <4>2. Len(stack) = Count
        BY <4>1, ConstantsOK
      <4> QED BY <3>1, <3>3, <4>2 DEF IInv, TypeOK
    <3> QED BY <3>2, <3>3 DEF Init
  <2>4. Owed = available
    BY <2>2, <2>3, ConstantsOK, CounterWide DEF Owed
  <2> QED BY <2>3, <2>4, ConstantsOK, CounterWide
<1>3. IInv /\ AvailableExact /\ [Next]_vars => AvailableExact'
  <2>1. AvailableExact' <=> available' = Owed' % SizeMod
    BY DEF AvailableExact, Owed, Takers, Givers
  <2> QED BY <1>1, <2>1, AvailableStep
<1> QED BY <1>2, <1>3, PoolInvariant, PTL DEF Spec
=============================================================================
