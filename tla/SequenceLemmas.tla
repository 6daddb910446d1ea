--------------------------- MODULE SequenceLemmas ---------------------------
(***************************************************************************)
(* Lemmas about sequences, call stacks and Erase, which the proofs about   *)
(* several components share.                                               *)
(***************************************************************************)
EXTENDS Erase, WellFoundedInduction, SequenceTheorems, TLAPS

\* A set of numbers that is not empty has a least one. Lemmas about every
\* number are proved with it: there is no least number they fail for.
LEMMA Least ==
  ASSUME NEW T, T \subseteq Nat, T # {}
  PROVE  \E m \in T : \A k \in T : m <= k
<1>1. \E x \in T : \A y \in T : ~(<<y, x>> \in OpToRel(<, Nat))
  BY NatLessThanWellFounded, WFMin, Zenon
<1>2. PICK x \in T : \A y \in T : ~(<<y, x>> \in OpToRel(<, Nat))
  BY <1>1, Zenon
<1>3. ASSUME NEW y \in Nat, NEW z \in Nat, y < z PROVE <<y, z>> \in OpToRel(<, Nat)
  BY <1>3, Zenon DEF OpToRel
<1>4. ASSUME NEW k \in T PROVE ~(k < x)
  BY <1>2, <1>3, Zenon
<1> QED
  BY <1>4

\* f is the function Erase defines by recursion, for the first k elements.
Kept(f, s, x, k) ==
  f = [i \in 0 .. k |-> IF i = 0 THEN <<>>
        ELSE IF s[i] = x THEN f[i - 1] ELSE Append(f[i - 1], s[i])]

\* The recursion of Erase defines a function for every number of elements.
LEMMA KeptExists ==
  ASSUME NEW S, NEW s \in Seq(S), NEW x, NEW n \in Nat
  PROVE  \E f : Kept(f, s, x, n)
<1> DEFINE T == {k \in Nat : ~ \E f : Kept(f, s, x, k)}
<1>1. SUFFICES ASSUME T # {} PROVE FALSE
  BY <1>1, Zenon
<1>2. PICK m \in T : \A k \in T : m <= k
  <2> HIDE DEF T
  <2>1. T \subseteq Nat BY DEF T
  <2> QED BY <1>1, <2>1, Least, Zenon
<1>3. CASE m = 0
  <2>1. Kept([i \in 0 .. 0 |-> <<>>], s, x, 0)
    BY DEF Kept
  <2> QED BY <2>1, <1>2, <1>3
<1>4. CASE m # 0
  <2>1. m - 1 \in Nat /\ m - 1 \notin T
    BY <1>2, <1>4
  <2>2. PICK f : Kept(f, s, x, m - 1)
    BY <2>1
  <2> DEFINE g == [i \in 0 .. m |-> IF i = m THEN (IF s[m] = x THEN f[m - 1] ELSE Append(f[m - 1], s[m])) ELSE f[i]]
  <2>3. Kept(g, s, x, m)
    <3>1. m \in Nat /\ m # 0 /\ m \in 0 .. m /\ m - 1 \in 0 .. m
      BY <1>2, <1>4
    <3>2. f = [i \in 0 .. (m - 1) |-> IF i = 0 THEN <<>>
                 ELSE IF s[i] = x THEN f[i - 1] ELSE Append(f[i - 1], s[i])]
      BY <2>2, Zenon DEF Kept
    <3>3. ASSUME NEW i \in 0 .. m
          PROVE g[i] = IF i = 0 THEN <<>>
                 ELSE IF s[i] = x THEN g[i - 1] ELSE Append(g[i - 1], s[i])
      <4>1. CASE i = m
        BY <4>1, <3>1
      <4>2. CASE i # m
        <5>1. i \in 0 .. (m - 1) /\ g[i] = f[i]
          BY <4>2, <3>1
        <5>2. i # 0 => i - 1 \in 0 .. m /\ i - 1 # m /\ g[i - 1] = f[i - 1]
          BY <5>1, <3>1
        <5> HIDE DEF g
        <5> QED BY <5>1, <5>2, <3>2, Zenon
      <4> QED BY <4>1, <4>2
    <3>4. g = [i \in 0 .. m |-> g[i]]
      OBVIOUS
    <3> HIDE DEF g
    <3> QED BY <3>3, <3>4, Zenon DEF Kept
  <2> QED BY <2>3, <1>2
<1> QED BY <1>3, <1>4

\* Erase is the last value of that function.
LEMMA EraseIsKept ==
  ASSUME NEW S, NEW s \in Seq(S), NEW x
  PROVE  \E f : Kept(f, s, x, Len(s)) /\ Erase(s, x) = f[Len(s)]
<1> DEFINE F == CHOOSE f : f = [i \in 0 .. Len(s) |-> IF i = 0 THEN <<>>
        ELSE IF s[i] = x THEN f[i - 1] ELSE Append(f[i - 1], s[i])]
<1>1. \E f : Kept(f, s, x, Len(s))
  BY KeptExists
<1>2. Kept(F, s, x, Len(s))
  BY <1>1, Zenon DEF Kept
<1>3. Erase(s, x) = F[Len(s)]
  BY DEF Erase
<1> QED BY <1>2, <1>3, Zenon

\* t is what is left of the first k elements of s, in their order, when some
\* of them are dropped, every x among these.
Thinned(t, s, x, k) ==
  \E m \in [1 .. Len(t) -> 1 .. k] :
     /\ \A a, b \in 1 .. Len(t) : a < b => m[a] < m[b]
     /\ \A a \in 1 .. Len(t) : t[a] = s[m[a]] /\ s[m[a]] # x

\* One more element of s, which is dropped.
LEMMA ThinnedSkip ==
  ASSUME NEW S, NEW t \in Seq(S), NEW s, NEW x, NEW k \in Nat, Thinned(t, s, x, k)
  PROVE  Thinned(t, s, x, k + 1)
<1>1. PICK m \in [1 .. Len(t) -> 1 .. k] :
              /\ \A a, b \in 1 .. Len(t) : a < b => m[a] < m[b]
              /\ \A a \in 1 .. Len(t) : t[a] = s[m[a]] /\ s[m[a]] # x
  BY DEF Thinned
<1>2. m \in [1 .. Len(t) -> 1 .. k + 1]
  OBVIOUS
<1> QED
  BY <1>1, <1>2 DEF Thinned

\* One more element of s, which stays.
LEMMA ThinnedAppend ==
  ASSUME NEW S, NEW t \in Seq(S), NEW s, NEW x, NEW k \in Nat, Thinned(t, s, x, k),
         s[k + 1] \in S, s[k + 1] # x
  PROVE  Thinned(Append(t, s[k + 1]), s, x, k + 1)
<1>1. PICK m \in [1 .. Len(t) -> 1 .. k] :
              /\ \A a, b \in 1 .. Len(t) : a < b => m[a] < m[b]
              /\ \A a \in 1 .. Len(t) : t[a] = s[m[a]] /\ s[m[a]] # x
  BY DEF Thinned
<1> DEFINE u == Append(t, s[k + 1])
           l == Len(t)
           w == [a \in 1 .. l + 1 |-> IF a = l + 1 THEN k + 1 ELSE m[a]]
<1>2. l \in Nat /\ Len(u) = l + 1 /\ u[l + 1] = s[k + 1] /\ \A a \in 1 .. l : u[a] = t[a]
  OBVIOUS
<1>3. \A a \in 1 .. l + 1 : a = l + 1 \/ (a # l + 1 /\ a \in 1 .. l)
  BY <1>2
<1>4. \A a \in 1 .. l : m[a] \in 1 .. k
  OBVIOUS
<1> HIDE DEF l
<1>5. w[l + 1] = k + 1 /\ \A a \in 1 .. l : w[a] = m[a]
  BY <1>2
<1>6. w \in [1 .. l + 1 -> 1 .. k + 1]
  BY <1>2, <1>3, <1>4
<1> HIDE DEF w, u
<1>7. \A a, b \in 1 .. l + 1 : a < b => w[a] < w[b]
  <2>1. SUFFICES ASSUME NEW a \in 1 .. l + 1, NEW b \in 1 .. l + 1, a < b PROVE w[a] < w[b]
    OBVIOUS
  <2>2. a \in 1 .. l
    BY <2>1, <1>2
  <2>3. CASE b = l + 1
    BY <2>2, <2>3, <1>4, <1>5
  <2>4. CASE b \in 1 .. l
    BY <2>1, <2>2, <2>4, <1>5, <1>1 DEF l
  <2> QED BY <2>3, <2>4, <1>3
<1>8. \A a \in 1 .. l + 1 : u[a] = s[w[a]] /\ s[w[a]] # x
  BY <1>1, <1>2, <1>3, <1>5 DEF l
<1>9. Thinned(u, s, x, k + 1)
  BY <1>2, <1>6, <1>7, <1>8, Zenon DEF Thinned
<1> QED BY <1>9 DEF u

\* Dropping elements makes no sequence longer.
LEMMA ThinnedLen ==
  ASSUME NEW S, NEW t \in Seq(S), NEW s, NEW x, NEW k \in Nat, Thinned(t, s, x, k)
  PROVE  Len(t) <= k
<1>1. PICK m \in [1 .. Len(t) -> 1 .. k] :
              /\ \A a, b \in 1 .. Len(t) : a < b => m[a] < m[b]
              /\ \A a \in 1 .. Len(t) : t[a] = s[m[a]] /\ s[m[a]] # x
  BY DEF Thinned
<1> DEFINE T == {a \in 1 .. Len(t) : m[a] < a}
<1>2. T = {}
  <2>1. SUFFICES ASSUME T # {} PROVE FALSE
    OBVIOUS
  <2>2. PICK a \in T : \A b \in T : a <= b
    <3>1. T \subseteq Nat OBVIOUS
    <3> HIDE DEF T
    <3> QED BY <2>1, <3>1, Least, Zenon
  <2>3. a \in 1 .. Len(t) /\ m[a] \in 1 .. k /\ m[a] < a
    OBVIOUS
  <2>4. a - 1 \in 1 .. Len(t) /\ a - 1 < a
    BY <2>3
  <2>5. m[a - 1] < m[a] /\ m[a - 1] \in 1 .. k
    BY <1>1, <2>3, <2>4
  <2>6. a - 1 \in T
    BY <2>3, <2>4, <2>5
  <2> HIDE DEF T
  <2> QED BY <2>2, <2>4, <2>6, <2>3
<1>3. CASE Len(t) = 0
  BY <1>3
<1>4. CASE Len(t) # 0
  <2>1. Len(t) \in 1 .. Len(t) /\ Len(t) \in Nat
    BY <1>4
  <2>2. m[Len(t)] \in 1 .. k /\ ~ (m[Len(t)] < Len(t))
    BY <1>2, <2>1
  <2> QED BY <2>1, <2>2
<1> QED BY <1>3, <1>4

\* Erase drops every x, and keeps the order of what it does not drop.
LEMMA EraseProperties ==
  ASSUME NEW S, NEW s \in Seq(S), NEW x
  PROVE  /\ Erase(s, x) \in Seq(S)
         /\ Thinned(Erase(s, x), s, x, Len(s))
<1>1. PICK f : Kept(f, s, x, Len(s)) /\ Erase(s, x) = f[Len(s)]
  BY EraseIsKept
<1> DEFINE n == Len(s)
<1>2. n \in Nat
  OBVIOUS
<1>3. f[0] = <<>>
  BY <1>1, <1>2 DEF Kept
<1>4. ASSUME NEW i \in 1 .. n
      PROVE f[i] = IF s[i] = x THEN f[i - 1] ELSE Append(f[i - 1], s[i])
  <2> DEFINE G(j) == IF j = 0 THEN <<>>
                     ELSE IF s[j] = x THEN f[j - 1] ELSE Append(f[j - 1], s[j])
  <2>1. f = [j \in 0 .. n |-> G(j)]
    BY <1>1, Zenon DEF Kept
  <2>2. i \in 0 .. n /\ i # 0
    BY <1>2
  <2>3. f[i] = G(i)
    <3> HIDE DEF G, n
    <3> QED BY <2>1, <2>2
  <2> QED BY <2>2, <2>3
<1> DEFINE T == {k \in 0 .. n : ~ (f[k] \in Seq(S) /\ Thinned(f[k], s, x, k))}
<1>5. T = {}
  <2>1. SUFFICES ASSUME T # {} PROVE FALSE
    OBVIOUS
  <2>2. T \subseteq Nat
    BY <1>2
  <2>3. PICK k \in T : \A j \in T : k <= j
    <3> HIDE DEF T
    <3> QED BY <2>1, <2>2, Least, Zenon
  <2>4. CASE k = 0
    <3>1. <<>> \in Seq(S) /\ Thinned(<<>>, s, x, 0)
      <4>1. Len(<<>>) = 0 /\ 1 .. 0 = {} /\ <<>> \in Seq(S)
        OBVIOUS
      <4>2. [a \in {} |-> 1] \in [{} -> {}]
        OBVIOUS
      <4> QED BY <4>1, <4>2, Zenon DEF Thinned
    <3> QED BY <3>1, <1>3, <2>4, Zenon
  <2>5. CASE k # 0
    <3> DEFINE j == k - 1
    <3>1. j \in Nat /\ k = j + 1 /\ k \in 1 .. n /\ j \in 0 .. n /\ ~ (k <= j)
      BY <1>2, <2>5
    <3>2. j \notin T
      <4> HIDE DEF T, j
      <4> QED BY <2>3, <3>1
    <3>3. f[j] \in Seq(S) /\ Thinned(f[j], s, x, j)
      BY <3>1, <3>2
    <3>4. s[k] \in S /\ f[k] = IF s[k] = x THEN f[j] ELSE Append(f[j], s[k])
      BY <1>4, <3>1
    <3>5. f[k] \in Seq(S) /\ Thinned(f[k], s, x, k)
      <4> HIDE DEF T, j
      <4>1. CASE s[k] = x
        BY <4>1, <3>1, <3>3, <3>4, ThinnedSkip
      <4>2. CASE s[k] # x
        <5>1. Thinned(Append(f[j], s[k]), s, x, k)
          BY <4>2, <3>1, <3>3, <3>4, ThinnedAppend
        <5> QED BY <5>1, <4>2, <3>3, <3>4
      <4> QED BY <4>1, <4>2
    <3> QED BY <3>5
  <2> QED BY <2>4, <2>5
<1>6. n \in 0 .. n
  BY <1>2
<1> QED BY <1>1, <1>5, <1>6

\* The elements of a sequence.
Elems(s) == {s[i] : i \in 1 .. Len(s)}

\* Every element of a call stack, the innermost first, is one that may run
\* inside the ones behind it.
Nested(s, below) == \A i, j \in 1 .. Len(s) : i < j => s[j] \in below[s[i]]

\* The empty stack.
LEMMA EmptyStack ==
  /\ Elems(<<>>) = {}
  /\ \A below : Nested(<<>>, below)
  /\ \A S : <<>> \in Seq(S)
  BY DEF Elems, Nested

\* Only the empty sequence has no elements.
LEMMA NoElems ==
  ASSUME NEW S, NEW s \in Seq(S)
  PROVE  s = <<>> <=> Elems(s) = {}
<1>1. CASE s = <<>>
  BY <1>1 DEF Elems
<1>2. CASE s # <<>>
  <2>1. 1 \in 1 .. Len(s)
    BY <1>2
  <2> QED BY <2>1, <1>2 DEF Elems
<1> QED BY <1>1, <1>2

\* A frame on top of a stack.
LEMMA Push ==
  ASSUME NEW S, NEW x \in S, NEW s \in Seq(S)
  PROVE  /\ <<x>> \o s \in Seq(S) /\ <<x>> \o s # <<>>
         /\ Head(<<x>> \o s) = x /\ Tail(<<x>> \o s) = s
         /\ Elems(<<x>> \o s) = {x} \cup Elems(s)
         /\ \A below : Nested(s, below) /\ Elems(s) \subseteq below[x]
                         => Nested(<<x>> \o s, below)
<1> DEFINE t == <<x>> \o s
           n == Len(s)
<1>1. /\ n \in Nat /\ t \in Seq(S) /\ Len(t) = n + 1 /\ t[1] = x
      /\ \A i \in 1 .. n : t[i + 1] = s[i]
  OBVIOUS
<1>2. t # <<>> /\ Head(t) = x /\ Tail(t) = s
  OBVIOUS
<1> HIDE DEF t
<1>3. \A i \in 1 .. n + 1 : i = 1 \/ (i # 1 /\ i - 1 \in 1 .. n /\ t[i] = s[i - 1])
  <2>1. SUFFICES ASSUME NEW i \in 1 .. n + 1, i # 1
                 PROVE  i - 1 \in 1 .. n /\ t[i] = s[i - 1]
    OBVIOUS
  <2>2. i - 1 \in 1 .. n /\ (i - 1) + 1 = i
    BY <2>1, <1>1
  <2> QED BY <2>2, <1>1
<1>4. Elems(t) = {x} \cup Elems(s)
  <2>1. ASSUME NEW i \in 1 .. n + 1 PROVE t[i] \in {x} \cup Elems(s)
    BY <1>1, <1>3 DEF Elems
  <2>2. ASSUME NEW i \in 1 .. n PROVE s[i] \in Elems(t)
    <3>1. i + 1 \in 1 .. n + 1
      BY <1>1
    <3> QED BY <3>1, <1>1, Zenon DEF Elems
  <2>3. x \in Elems(t)
    BY <1>1 DEF Elems
  <2>4. Elems(t) \subseteq {x} \cup Elems(s)
    BY <2>1, <1>1 DEF Elems
  <2>5. Elems(s) \subseteq Elems(t)
    BY <2>2 DEF Elems
  <2> QED BY <2>3, <2>4, <2>5
<1>5. ASSUME NEW below, Nested(s, below), Elems(s) \subseteq below[x]
      PROVE  Nested(t, below)
  <2>1. SUFFICES ASSUME NEW i \in 1 .. n + 1, NEW j \in 1 .. n + 1, i < j
                 PROVE  t[j] \in below[t[i]]
    BY <1>1 DEF Nested
  <2>2. j # 1 /\ j - 1 \in 1 .. n /\ t[j] = s[j - 1]
    BY <1>1, <1>3, <2>1
  <2>3. CASE i = 1
    <3>1. t[j] \in Elems(s)
      BY <2>2 DEF Elems
    <3> QED BY <3>1, <2>3, <1>1, <1>5
  <2>4. CASE i # 1
    <3>1. i - 1 \in 1 .. n /\ t[i] = s[i - 1] /\ i - 1 < j - 1
      BY <1>1, <1>3, <2>1, <2>4
    <3> QED BY <3>1, <2>2, <1>5 DEF Nested
  <2> QED BY <2>3, <2>4
<1> QED BY <1>1, <1>2, <1>4, <1>5 DEF t

\* A stack without its top.
LEMMA Pop ==
  ASSUME NEW S, NEW s \in Seq(S), s # <<>>
  PROVE  /\ Head(s) \in S /\ Tail(s) \in Seq(S)
         /\ Elems(s) = {Head(s)} \cup Elems(Tail(s))
         /\ \A below : Nested(s, below) => /\ Nested(Tail(s), below)
                                           /\ Elems(Tail(s)) \subseteq below[Head(s)]
<1> DEFINE t == Tail(s)
           n == Len(t)
<1>1. /\ n \in Nat /\ t \in Seq(S) /\ Len(s) = n + 1 /\ Head(s) = s[1] /\ s[1] \in S
      /\ \A i \in 1 .. n : t[i] = s[i + 1]
  OBVIOUS
<1> HIDE DEF t
<1>2. \A i \in 1 .. n : i + 1 \in 1 .. n + 1
  BY <1>1
<1>3. \A i \in 1 .. n + 1 : i = 1 \/ (i - 1 \in 1 .. n /\ s[i] = t[i - 1])
  <2>1. SUFFICES ASSUME NEW i \in 1 .. n + 1, i # 1
                 PROVE  i - 1 \in 1 .. n /\ s[i] = t[i - 1]
    OBVIOUS
  <2>2. i - 1 \in 1 .. n /\ (i - 1) + 1 = i
    BY <2>1, <1>1
  <2> QED BY <2>2, <1>1
<1>4. Elems(s) = {Head(s)} \cup Elems(t)
  <2>1. ASSUME NEW i \in 1 .. n + 1 PROVE s[i] \in {Head(s)} \cup Elems(t)
    BY <1>1, <1>3 DEF Elems
  <2>2. ASSUME NEW i \in 1 .. n PROVE t[i] \in Elems(s)
    BY <1>1, <1>2, Zenon DEF Elems
  <2>3. Head(s) \in Elems(s)
    <3>1. 1 \in 1 .. n + 1 BY <1>1
    <3> QED BY <3>1, <1>1 DEF Elems
  <2>4. Elems(s) \subseteq {Head(s)} \cup Elems(t)
    BY <2>1, <1>1 DEF Elems
  <2>5. Elems(t) \subseteq Elems(s)
    BY <2>2 DEF Elems
  <2> QED BY <2>3, <2>4, <2>5
<1>5. ASSUME NEW below, Nested(s, below)
      PROVE  Nested(t, below) /\ Elems(t) \subseteq below[Head(s)]
  <2>1. ASSUME NEW i \in 1 .. n, NEW j \in 1 .. n, i < j
        PROVE  t[j] \in below[t[i]]
    <3>1. i + 1 \in 1 .. n + 1 /\ j + 1 \in 1 .. n + 1 /\ i + 1 < j + 1
      BY <1>1, <2>1
    <3> QED BY <3>1, <1>1, <1>5, Zenon DEF Nested
  <2>2. ASSUME NEW j \in 1 .. n PROVE t[j] \in below[Head(s)]
    <3>1. 1 \in 1 .. n + 1 /\ j + 1 \in 1 .. n + 1 /\ 1 < j + 1
      BY <1>1
    <3> QED BY <3>1, <1>1, <1>5 DEF Nested
  <2> QED BY <2>1, <2>2 DEF Nested, Elems
<1> QED BY <1>1, <1>4, <1>5 DEF t

\* Two elements as a sequence of one and another.
LEMMA Join2 ==
  ASSUME NEW x, NEW y
  PROVE  <<x>> \o <<y>> = <<x, y>>
<1> DEFINE S == {x, y}
           a == <<x>> \o <<y>>
           b == <<x, y>>
<1>1. a \in Seq(S) /\ Len(a) = 2 /\ a[1] = x /\ a[2] = y
  OBVIOUS
<1>2. b \in Seq(S) /\ Len(b) = 2 /\ b[1] = x /\ b[2] = y
  OBVIOUS
<1>3. a = b
  <2> HIDE DEF a, b, S
  <2>1. \A i \in 1 .. Len(a) : a[i] = b[i]
    BY <1>1, <1>2
  <2> QED BY <1>1, <1>2, <2>1, SeqEqual
<1> QED BY <1>3 DEF a, b

\* Three elements as a sequence of one and the two others.
LEMMA Join3 ==
  ASSUME NEW x, NEW y, NEW z
  PROVE  <<x>> \o <<y, z>> = <<x, y, z>>
<1> DEFINE S == {x, y, z}
           a == <<x>> \o <<y, z>>
           b == <<x, y, z>>
<1>1. a \in Seq(S) /\ Len(a) = 3 /\ a[1] = x /\ a[2] = y /\ a[3] = z
  OBVIOUS
<1>2. b \in Seq(S) /\ Len(b) = 3 /\ b[1] = x /\ b[2] = y /\ b[3] = z
  OBVIOUS
<1>3. a = b
  <2> HIDE DEF a, b, S
  <2>1. \A i \in 1 .. Len(a) : a[i] = b[i]
    BY <1>1, <1>2
  <2> QED BY <1>1, <1>2, <2>1, SeqEqual
<1> QED BY <1>3 DEF a, b

\* Four elements as a sequence of one and the three others.
LEMMA Join4 ==
  ASSUME NEW x, NEW y, NEW z, NEW w
  PROVE  <<x>> \o <<y, z, w>> = <<x, y, z, w>>
<1> DEFINE S == {x, y, z, w}
           a == <<x>> \o <<y, z, w>>
           b == <<x, y, z, w>>
<1>1. a \in Seq(S) /\ Len(a) = 4 /\ a[1] = x /\ a[2] = y /\ a[3] = z /\ a[4] = w
  OBVIOUS
<1>2. b \in Seq(S) /\ Len(b) = 4 /\ b[1] = x /\ b[2] = y /\ b[3] = z /\ b[4] = w
  OBVIOUS
<1>3. a = b
  <2> HIDE DEF a, b, S
  <2>1. \A i \in 1 .. Len(a) : a[i] = b[i]
    BY <1>1, <1>2
  <2> QED BY <1>1, <1>2, <2>1, SeqEqual
<1> QED BY <1>3 DEF a, b

\* Two frames on top of a stack, at once or one after the other.
LEMMA Push2 ==
  ASSUME NEW S, NEW x \in S, NEW y \in S, NEW s \in Seq(S)
  PROVE  <<x, y>> \o s = <<x>> \o (<<y>> \o s)
<1>1. <<x>> \in Seq(S) /\ <<y>> \in Seq(S)
  OBVIOUS
<1>2. (<<x>> \o <<y>>) \o s = <<x>> \o (<<y>> \o s)
  BY <1>1, ConcatAssociative
<1> QED BY <1>2, Join2, Zenon

\* The elements of two sequences one behind the other.
LEMMA Concat ==
  ASSUME NEW S, NEW s \in Seq(S), NEW t \in Seq(S)
  PROVE  /\ s \o t \in Seq(S) /\ Len(s \o t) = Len(s) + Len(t)
         /\ \A i \in 1 .. Len(s) : (s \o t)[i] = s[i]
         /\ \A i \in 1 .. Len(t) : (s \o t)[Len(s) + i] = t[i]
         /\ Elems(s \o t) = Elems(s) \cup Elems(t)
<1> DEFINE u == s \o t
<1>1. /\ u \in Seq(S) /\ Len(u) = Len(s) + Len(t) /\ Len(s) \in Nat /\ Len(t) \in Nat
      /\ \A i \in 1 .. Len(s) : u[i] = s[i]
      /\ \A i \in 1 .. Len(t) : u[Len(s) + i] = t[i]
  OBVIOUS
<1> HIDE DEF u
<1>2. \A x \in Elems(u) : x \in Elems(s) \cup Elems(t)
  <2> SUFFICES ASSUME NEW i \in 1 .. Len(u)
               PROVE  u[i] \in Elems(s) \cup Elems(t)
    BY DEF Elems
  <2>1. CASE i <= Len(s)
    BY <1>1, <2>1 DEF Elems
  <2>2. CASE i > Len(s)
    <3>1. i - Len(s) \in 1 .. Len(t) /\ u[i] = t[i - Len(s)]
      BY <1>1, <2>2
    <3> QED BY <3>1 DEF Elems
  <2> QED BY <1>1, <2>1, <2>2
<1>3. \A x \in Elems(s) \cup Elems(t) : x \in Elems(u)
  <2>1. \A i \in 1 .. Len(s) : i \in 1 .. Len(u) /\ u[i] = s[i]
    BY <1>1
  <2>2. \A i \in 1 .. Len(t) : Len(s) + i \in 1 .. Len(u) /\ u[Len(s) + i] = t[i]
    BY <1>1
  <2> QED BY <2>1, <2>2, Zenon DEF Elems
<1> QED BY <1>1, <1>2, <1>3 DEF u

\* A sequence without its first k elements, and those elements.
LEMMA Suffix ==
  ASSUME NEW S, NEW s \in Seq(S), NEW k \in 0 .. Len(s)
  PROVE  LET t == SubSeq(s, k + 1, Len(s)) IN
         /\ t \in Seq(S) /\ Len(t) = Len(s) - k
         /\ \A i \in 1 .. Len(t) : t[i] = s[k + i]
         /\ Elems(t) = {s[i] : i \in k + 1 .. Len(s)}
<1> DEFINE t == SubSeq(s, k + 1, Len(s))
<1>1. /\ t \in Seq(S) /\ Len(t) = Len(s) - k
      /\ \A i \in 1 .. Len(t) : t[i] = s[k + i]
  <2>1. /\ k \in Nat /\ k + 1 \in Int /\ Len(s) \in Int /\ k <= Len(s)
        /\ \A i \in k + 1 .. Len(s) : s[i] \in S
    OBVIOUS
  <2>2. /\ t \in Seq(S) /\ Len(t) = IF k + 1 <= Len(s) THEN Len(s) - (k + 1) + 1 ELSE 0
        /\ \A i \in 1 .. Len(s) - (k + 1) + 1 : t[i] = s[k + 1 + i - 1]
    BY <2>1, SubSeqProperties
  <2> HIDE DEF t
  <2>3. Len(t) = Len(s) - k /\ Len(s) - (k + 1) + 1 = Len(t)
    BY <2>1, <2>2
  <2>4. \A i \in 1 .. Len(t) : k + 1 + i - 1 = k + i
    BY <2>1
  <2> QED BY <2>2, <2>3, <2>4
<1> HIDE DEF t
<1>2. \A i \in 1 .. Len(t) : k + i \in k + 1 .. Len(s)
  BY <1>1
<1>3. \A i \in k + 1 .. Len(s) : i - k \in 1 .. Len(t) /\ t[i - k] = s[i]
  BY <1>1
<1>4. \A x \in Elems(t) : x \in {s[i] : i \in k + 1 .. Len(s)}
  BY <1>1, <1>2 DEF Elems
<1>5. \A i \in k + 1 .. Len(s) : s[i] \in Elems(t)
  BY <1>3 DEF Elems
<1>6. Elems(t) = {s[i] : i \in k + 1 .. Len(s)}
  BY <1>4, <1>5
<1> QED BY <1>1, <1>6 DEF t

\* The first n elements of a sequence.
LEMMA Prefix ==
  ASSUME NEW S, NEW s \in Seq(S), NEW n \in 0 .. Len(s)
  PROVE  LET t == SubSeq(s, 1, n) IN
         /\ t \in Seq(S) /\ Len(t) = n
         /\ \A i \in 1 .. n : t[i] = s[i]
         /\ Elems(t) = {s[i] : i \in 1 .. n}
<1> DEFINE t == SubSeq(s, 1, n)
<1>1. /\ t \in Seq(S) /\ Len(t) = n
      /\ \A i \in 1 .. n : t[i] = s[i]
  BY SubSeqProperties
<1> HIDE DEF t
<1>2. Elems(t) = {s[i] : i \in 1 .. n}
  BY <1>1 DEF Elems
<1> QED BY <1>1, <1>2 DEF t
=============================================================================
