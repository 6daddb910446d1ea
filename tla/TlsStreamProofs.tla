-------------------------- MODULE TlsStreamProofs ---------------------------
(***************************************************************************)
(* Theorems about TlsStream, for every size of a chunk, of a read and of   *)
(* the read BIO, every peer, and sockets that take or bring any part of it.*)
(***************************************************************************)
EXTENDS TlsStream, SequenceLemmas

\* What a call of the stream still has to do when its pumps are done.
Bases == {"hs_done", "hs_again", "ssl_read", "read_again", "written", "closed"}

\* The call stacks of one call: its base, and the pumps running inside it.
Shapes(b) == {<<b>>, <<"dead", b>>, <<"pump_out", b>>, <<"pump_in", b>>, <<"pull", b>>,
              <<"push", "pump_out", b>>, <<"pump_out", "pump_in", b>>,
              <<"push", "pump_out", "pump_in", b>>,
              <<"pump_in", "pump_out", b>>, <<"pull", "pump_out", b>>}

\* The bottom and the top of a stack, and whether what is written is not
\* flushed any more: close() past its pump_out().
BaseOf(s) == IF s = <<>> THEN "none" ELSE s[Len(s)]
TopOf(s)  == IF s = <<>> THEN "none" ELSE Head(s)
Ends(s)   == BaseOf(s) = "closed" /\ \A i \in 1 .. Len(s) : s[i] # "pump_out"

\* The same of the stack of the call that runs.
Base == BaseOf(stk)
Top  == TopOf(stk)
Done == Ends(stk)

\* How much of the chunk pump_out() holds is not written yet.
Left == IF chunk = <<>> THEN 0 ELSE Len(chunk) - off

\* The units it holds.
InHand == {chunk[i] : i \in off + 1 .. Len(chunk)}

\* The SSL object made its handshake, whatever became of it.
Up == {"up", "over", "broken"}

\* The stack is one of these, and only the inner loop of pump_out() holds a
\* chunk, of which something is left.
StackInv ==
  /\ stk \in {<<>>, <<"handshake">>} \/ \E b \in Bases : stk \in Shapes(b)
  /\ IF Top = "push" THEN off < Len(chunk) ELSE chunk = <<>>

\* How phase, socket and SSL object belong together: it is established with a
\* handshake made, an open socket has its SSL object, and unless the stream is
\* reused there is at most one.
PhaseInv ==
  /\ phase = "Established" \/ Base = "hs_done" => ssl \in Up
  /\ ssl = "new" => made = 0 /\ wbio = <<>>
  /\ ssl = "hello" => made + 2 <= MaxUnits
  /\ ssl \in Up /\ Base # "closed" => made < MaxUnits
  /\ ssl # "none" => live >= 1
  /\ tcp = "open" => ssl # "none"
  /\ ~setup.reuses => /\ live = IF ssl = "none" THEN 0 ELSE 1
                      /\ phase = "ConnectingTcp" => ssl = "none"

\* Ciphertext has somewhere to go.
Connected == ssl # "none" /\ tcp = "open"

\* While connected, every unit of ciphertext made is on the socket, in the
\* hand of pump_out(), or in the write BIO.
FlowInv == Connected => /\ Len(out) + Left + Len(wbio) = made
                        /\ Elems(out) \cup InHand \cup Elems(wbio) = 1 .. made

\* Unless OpenSSL makes more than a chunk at once, the socket has the units in
\* the order they were made, the chunk continues it, and the BIO the chunk.
OrderInv ==
  ~setup.bursts =>
    /\ \A i \in 1 .. Len(out) : out[i] = i
    /\ Connected /\ Base # "closed" => /\ Len(wbio) <= Chunk
                                       /\ chunk # <<>> => wbio = <<>>
    /\ Connected /\ ~Done =>
         /\ \A i \in 1 .. Len(chunk) : i > off => chunk[i] = Len(out) + (i - off)
         /\ \A i \in 1 .. Len(wbio) : wbio[i] = Len(out) + Left + i

\* The invariant of the stream, which is inductive.
TlsInv == TypeOK /\ StackInv /\ PhaseInv /\ FlowInv /\ OrderInv

\* What the frame on top says of a call's stack, and what is left without it.
Moves(s, b) ==
  /\ s # <<>> /\ BaseOf(s) = b
  /\ TopOf(s) \in {"dead", "pump_out", "pump_in", "pull", "push", b}
  /\ TopOf(s) = b => s = <<b>>
  /\ TopOf(s) = "dead" => s[2] = b /\ Tail(s) = <<b>>
  /\ TopOf(s) \in {"pump_out", "pull"} =>
       Tail(s) \in Shapes(b) /\ TopOf(Tail(s)) # "push" /\ BaseOf(Tail(s)) = b
  /\ TopOf(s) \in {"pump_out", "push"} => ~Ends(s)
  /\ TopOf(s) = "pump_out" => <<"push">> \o s \in Shapes(b) /\ TopOf(<<"push">> \o s) = "push"
                              /\ BaseOf(<<"push">> \o s) = b
  /\ TopOf(s) = "pump_in" =>
       <<"pull">> \o Tail(s) \in Shapes(b) /\ TopOf(<<"pull">> \o Tail(s)) = "pull"
       /\ BaseOf(<<"pull">> \o Tail(s)) = b
       /\ (Ends(s) => Ends(<<"pull">> \o Tail(s)))
  /\ TopOf(s) = "pull" => (Ends(s) => Ends(Tail(s)))
  /\ TopOf(s) = "push" =>
       /\ Tail(s) \in Shapes(b) /\ TopOf(Tail(s)) = "pump_out" /\ BaseOf(Tail(s)) = b
       /\ Tail(Tail(s)) \in Shapes(b) /\ TopOf(Tail(Tail(s))) # "push"
       /\ BaseOf(Tail(Tail(s))) = b
       /\ b = "closed" => Ends(Tail(Tail(s)))

\* Every shape of stack moves as its top says.
LEMMA ShapeMoves ==
  ASSUME NEW b \in Bases, NEW s \in Shapes(b)
  PROVE  Moves(s, b)
<1>0. b \notin {"dead", "pump_out", "pump_in", "pull", "push"}
  BY DEF Bases
<1>1. CASE s = <<b>>
  BY <1>0, <1>1 DEF Moves, Shapes, BaseOf, TopOf, Ends
<1>2. CASE s = <<"dead", b>>
  BY <1>0, <1>2 DEF Moves, Shapes, BaseOf, TopOf, Ends
<1>3. CASE s = <<"pump_out", b>>
  <2>1. <<"push">> \o s = <<"push", "pump_out", b>>
    BY <1>3, Join3
  <2> QED BY <1>0, <1>3, <2>1 DEF Moves, Shapes, BaseOf, TopOf, Ends
<1>4. CASE s = <<"pump_in", b>>
  <2>1. Tail(s) = <<b>>
    BY <1>4
  <2>2. <<"pull">> \o Tail(s) = <<"pull", b>>
    BY <2>1, Join2, Zenon
  <2> QED BY <1>0, <1>4, <2>1, <2>2 DEF Moves, Shapes, BaseOf, TopOf, Ends
<1>5. CASE s = <<"pull", b>>
  BY <1>0, <1>5 DEF Moves, Shapes, BaseOf, TopOf, Ends
<1>6. CASE s = <<"push", "pump_out", b>>
  BY <1>0, <1>6 DEF Moves, Shapes, BaseOf, TopOf, Ends
<1>7. CASE s = <<"pump_out", "pump_in", b>>
  <2>1. <<"push">> \o s = <<"push", "pump_out", "pump_in", b>>
    BY <1>7, Join4
  <2> QED BY <1>0, <1>7, <2>1 DEF Moves, Shapes, BaseOf, TopOf, Ends
<1>8. CASE s = <<"push", "pump_out", "pump_in", b>>
  BY <1>0, <1>8 DEF Moves, Shapes, BaseOf, TopOf, Ends
<1>9. CASE s = <<"pump_in", "pump_out", b>>
  <2>1. Tail(s) = <<"pump_out", b>>
    BY <1>9
  <2>2. <<"pull">> \o Tail(s) = <<"pull", "pump_out", b>>
    BY <2>1, Join3, Zenon
  <2> QED BY <1>0, <1>9, <2>1, <2>2 DEF Moves, Shapes, BaseOf, TopOf, Ends
<1>10. CASE s = <<"pull", "pump_out", b>>
  BY <1>0, <1>10 DEF Moves, Shapes, BaseOf, TopOf, Ends
<1> QED BY <1>1, <1>2, <1>3, <1>4, <1>5, <1>6, <1>7, <1>8, <1>9, <1>10 DEF Shapes

\* Units of ciphertext, numbered as they are made.
Units == 1 .. MaxUnits

\* The types of what goes out, of the stream, and of what comes in.
OutTypes ==
  /\ made \in 0 .. MaxUnits
  /\ wbio \in Seq(Units) /\ chunk \in Seq(Units) /\ out \in Seq(Units)
  /\ Len(chunk) <= Chunk /\ off \in 0 .. Chunk

OtherTypes ==
  /\ setup \in Setups
  /\ phase \in {"Idle", "ConnectingTcp", "Handshaking", "Established", "Closed", "Error",
                "Crashed"}
  /\ tcp \in {"closed", "opening", "open", "dead"}
  /\ ssl \in {"none", "new", "hello", "up", "over", "broken"}
  /\ live \in Nat
  /\ ret \in {"none", "true", "false", "connecting", "open", "closed", "failed", "data",
              "written", "again", "eof", "error"}

InTypes ==
  /\ rbio \in Seq(Kinds \cup {"part"}) /\ Len(rbio) <= HighWater + MaxRead
  /\ eof \in BOOLEAN /\ plain \in BOOLEAN /\ readAny \in BOOLEAN

\* The type invariant in parts.
LEMMA TypeParts == TypeOK <=> OutTypes /\ OtherTypes /\ InTypes
  BY DEF TypeOK, OutTypes, OtherTypes, InTypes, Units

\* The same after a step.
LEMMA TypePartsPrimed == TypeOK' <=> OutTypes' /\ OtherTypes' /\ InTypes'
  BY DEF TypeOK, OutTypes, OtherTypes, InTypes, Units

\* The bounds are positive numbers.
LEMMA Bounds ==
  /\ Chunk \in Nat /\ Chunk >= 1 /\ HighWater \in Nat /\ HighWater >= 1
  /\ MaxRead \in Nat /\ MaxRead >= 1 /\ MaxUnits \in Nat /\ MaxUnits >= 3
  BY TlsConstants

\* Stacks without a frame of pump_out()'s inner loop on top.
Calm(s) == (s \in {<<>>, <<"handshake">>} \/ \E b \in Bases : s \in Shapes(b)) /\ TopOf(s) # "push"

\* The empty stack has neither base nor top.
LEMMA EmptyTop == BaseOf(<<>>) = "none" /\ TopOf(<<>>) = "none" /\ ~Ends(<<>>) /\ Calm(<<>>)
<1>1. BaseOf(<<>>) = "none" /\ TopOf(<<>>) = "none"
  BY DEF BaseOf, TopOf
<1> QED BY <1>1 DEF Ends, Calm

\* A call that runs is a handshake to be continued, or has a base.
LEMMA StackCases ==
  ASSUME StackInv, stk # <<>>
  PROVE  \/ stk = <<"handshake">> /\ Base = "handshake" /\ Top = "handshake"
         \/ \E b \in Bases : Moves(stk, b)
<1>1. CASE stk = <<"handshake">>
  BY <1>1 DEF Base, BaseOf, Top, TopOf
<1>2. CASE \E b \in Bases : stk \in Shapes(b)
  BY <1>2, ShapeMoves
<1> QED BY <1>1, <1>2 DEF StackInv

\* A step that neither moves ciphertext out nor touches the SSL object, but for
\* what it reads.
LEMMA StayKeeps ==
  ASSUME TlsInv, UNCHANGED <<setup, tcp, live, made, wbio, chunk, off, out>>,
         chunk = <<>>, Calm(stk'), OtherTypes', InTypes',
         ssl \in Up => ssl' \in Up, ssl \notin Up => ssl' = ssl,
         phase' = "Established" \/ BaseOf(stk') = "hs_done" => ssl \in Up,
         phase' = "ConnectingTcp" => phase = "ConnectingTcp",
         Base = "closed" => BaseOf(stk') = "closed",
         Done => Ends(stk')
  PROVE  TlsInv'
<1>1. StackInv'
  BY DEF StackInv, Calm, Top
<1>2. PhaseInv'
  BY DEF TlsInv, PhaseInv, Base, Up
<1>3. FlowInv'
  BY DEF TlsInv, FlowInv, Connected, Left, InHand, Up
<1>4. OrderInv'
  <2>1. Connected' <=> Connected
    BY DEF Connected, Up
  <2> QED BY <2>1 DEF TlsInv, OrderInv, Base, Done, Left
<1>5. OutTypes'
  BY TypeParts DEF TlsInv, OutTypes
<1> QED BY <1>1, <1>2, <1>3, <1>4, <1>5, TypePartsPrimed DEF TlsInv

\* Nothing made yet.
LEMMA EmptyOut ==
  /\ <<>> \in Seq(Units) /\ Len(<<>>) = 0 /\ Elems(<<>>) = {}
  /\ \A S : <<>> \in Seq(S)
  BY EmptyStack

\* The SSL object is gone, or a new one starts.
LEMMA FreshKeeps ==
  ASSUME TlsInv, setup' = setup, made' = 0, wbio' = <<>>, chunk' = <<>>, off' = 0, out' = <<>>,
         Calm(stk'), OtherTypes', InTypes',
         BaseOf(stk') # "hs_done", phase' \notin {"Established", "ConnectingTcp"},
         \/ ssl' = "none" /\ tcp' = "closed" /\ live' = IF ssl = "none" THEN live ELSE live - 1
         \/ /\ ssl' = "new" /\ live' = live + 1 
            /\ ~setup.reuses => ssl = "none"
  PROVE  TlsInv'
<1>1. StackInv'
  BY DEF StackInv, Calm, Top
<1>2. OutTypes'
  BY EmptyOut, Bounds DEF OutTypes
<1>3. PhaseInv'
  BY TypeParts DEF TlsInv, PhaseInv, Base, Up, OtherTypes
<1>4. FlowInv'
  <2>1. 1 .. made' = {} /\ Left' = 0
    BY DEF Left
  <2>2. InHand' = {}
    BY EmptyOut DEF InHand
  <2>3. Elems(out') = {} /\ Elems(wbio') = {} /\ Len(out') = 0 /\ Len(wbio') = 0
    BY EmptyOut
  <2> QED BY <2>1, <2>2, <2>3 DEF FlowInv
<1>5. OrderInv'
  <2>1. Len(out') = 0 /\ Len(wbio') = 0 /\ Len(chunk') = 0
    BY EmptyOut
  <2> QED BY <2>1, Bounds DEF OrderInv
<1> QED BY <1>1, <1>2, <1>3, <1>4, <1>5, TypePartsPrimed DEF TlsInv

\* OpenSSL makes more ciphertext while pump_out() has nothing in hand.
LEMMA MakeKeeps ==
  ASSUME TlsInv, NEW n \in Nat, n >= 1, made + n <= MaxUnits, Make(n),
         UNCHANGED <<setup, tcp, live, phase>>,
         chunk = <<>>, ~Done, Base # "closed", Calm(stk'), OtherTypes', InTypes',
         ssl # "none", ssl' \notin {"none", "new"},
         phase = "Established" \/ BaseOf(stk') = "hs_done" => ssl' \in Up,
         ssl' = "hello" => made + n + 2 <= MaxUnits,
         ssl' \in Up /\ BaseOf(stk') # "closed" => made + n < MaxUnits,
         ~setup.bursts /\ BaseOf(stk') # "closed" => Len(wbio) + n <= Chunk
  PROVE  TlsInv'
<1> DEFINE new == [i \in 1 .. n |-> made + i]
<1>1. /\ made' = made + n /\ wbio' = wbio \o new
      /\ chunk' = chunk /\ off' = off /\ out' = out
  BY DEF Make
<1>2. /\ OutTypes /\ made \in Nat /\ Len(wbio) \in Nat /\ Len(out) \in Nat
  BY TypeParts, Bounds DEF TlsInv, OutTypes
<1>3. /\ new \in Seq(Units) /\ Len(new) = n /\ \A i \in 1 .. n : new[i] = made + i
  <2>1. \A i \in 1 .. n : made + i \in Units
    BY <1>2, Bounds DEF Units
  <2> QED BY <2>1
<1>4. Elems(new) = made + 1 .. made + n
  <2>1. \A j \in made + 1 .. made + n : j - made \in 1 .. n /\ new[j - made] = j
    BY <1>2, <1>3
  <2>2. \A i \in 1 .. n : new[i] \in made + 1 .. made + n
    BY <1>2, <1>3
  <2> HIDE DEF new
  <2> QED BY <1>3, <2>1, <2>2 DEF Elems
<1> HIDE DEF new
<1>5. /\ wbio' \in Seq(Units) /\ Len(wbio') = Len(wbio) + n
      /\ \A i \in 1 .. Len(wbio) : wbio'[i] = wbio[i]
      /\ \A i \in 1 .. n : wbio'[Len(wbio) + i] = made + i
      /\ Elems(wbio') = Elems(wbio) \cup (made + 1 .. made + n)
  <2>1. wbio \in Seq(Units)
    BY <1>2 DEF OutTypes
  <2>2. /\ wbio \o new \in Seq(Units) /\ Len(wbio \o new) = Len(wbio) + Len(new)
        /\ \A i \in 1 .. Len(wbio) : (wbio \o new)[i] = wbio[i]
        /\ \A i \in 1 .. Len(new) : (wbio \o new)[Len(wbio) + i] = new[i]
        /\ Elems(wbio \o new) = Elems(wbio) \cup Elems(new)
    BY <1>3, <2>1, Concat, ZenonT(60)
  <2> QED BY <1>1, <1>3, <1>4, <2>2
<1>6. OutTypes'
  BY <1>1, <1>2, <1>5, Bounds DEF OutTypes
<1>7. StackInv'
  BY <1>1 DEF StackInv, Calm, Top
<1>8. PhaseInv'
  BY <1>1 DEF TlsInv, PhaseInv, Base, Up
<1>9. Connected' => Connected
  BY DEF Connected
<1>10. Left = 0 /\ Left' = 0 /\ InHand' = InHand
  BY <1>1 DEF Left, InHand
<1>11. FlowInv'
  <2> SUFFICES ASSUME Connected
               PROVE  /\ Len(out') + Left' + Len(wbio') = made'
                      /\ Elems(out') \cup InHand' \cup Elems(wbio') = 1 .. made'
    BY <1>9 DEF FlowInv
  <2>1. /\ Len(out) + Left + Len(wbio) = made
        /\ Elems(out) \cup InHand \cup Elems(wbio) = 1 .. made
    BY DEF TlsInv, FlowInv
  <2>2. (1 .. made) \cup (made + 1 .. made + n) = 1 .. made + n
    BY <1>2
  <2>3. Len(out') + Left' + Len(wbio') = made'
    <3>1. Len(out') = Len(out) /\ Left' = 0 /\ Len(wbio') = Len(wbio) + n /\ made' = made + n
      BY <1>1, <1>5, <1>10
    <3>2. Len(out) + 0 + Len(wbio) = made
      BY <1>10, <2>1
    <3> QED BY <1>2, <3>1, <3>2
  <2> QED BY <1>1, <1>5, <1>10, <2>1, <2>2, <2>3
<1>12. OrderInv'
  <2> SUFFICES ASSUME ~setup.bursts
               PROVE  OrderInv'
    BY DEF OrderInv
  <2>1. \A i \in 1 .. Len(out') : out'[i] = i
    BY <1>1 DEF TlsInv, OrderInv
  <2>2. Base' # "closed" => Len(wbio') <= Chunk
    BY <1>5 DEF Base
  <2>3. chunk' = <<>>
    BY <1>1
  <2>4. ASSUME Connected
        PROVE  \A i \in 1 .. Len(wbio') : wbio'[i] = Len(out') + Left' + i
    <3>1. Len(out) + Len(wbio) = made
      BY <1>2, <1>10, <2>4 DEF TlsInv, FlowInv
    <3>2. \A i \in 1 .. Len(wbio) : wbio[i] = Len(out) + i
      BY <1>2, <1>10, <2>4 DEF TlsInv, OrderInv
    <3> SUFFICES ASSUME NEW i \in 1 .. Len(wbio')
                 PROVE  wbio'[i] = Len(out) + i
      <4>1. Len(out') = Len(out) /\ Left' = 0
        BY <1>1, <1>10
      <4> QED BY <1>2, <4>1
    <3>3. CASE i <= Len(wbio)
      BY <1>2, <1>5, <3>2, <3>3
    <3>4. CASE i > Len(wbio)
      <4>1. i - Len(wbio) \in 1 .. n /\ i = Len(wbio) + (i - Len(wbio))
        BY <1>2, <1>5, <3>4
      <4>2. wbio'[i] = made + (i - Len(wbio))
        BY <1>5, <4>1
      <4>3. Len(out) \in Nat /\ Len(wbio) \in Nat /\ made \in Nat /\ i \in Nat
        BY <1>2, <1>5
      <4>4. made + (i - Len(wbio)) = Len(out) + i
        BY <3>1, <4>3
      <4> QED BY <4>2, <4>4
    <3> QED BY <1>2, <1>5, <3>3, <3>4
  <2>5. Len(chunk') = 0
    BY <2>3, EmptyOut
  <2> QED BY <1>9, <2>1, <2>2, <2>3, <2>4, <2>5 DEF OrderInv
<1> QED BY <1>6, <1>7, <1>8, <1>11, <1>12, TypePartsPrimed DEF TlsInv

\* What the invariant says of the sequences before a step of pump_out().
LEMMA Before ==
  ASSUME TlsInv
  PROVE  /\ made \in Nat /\ Len(wbio) \in Nat /\ Len(out) \in Nat /\ Len(chunk) \in Nat
         /\ off \in Nat /\ wbio \in Seq(Units) /\ out \in Seq(Units) /\ chunk \in Seq(Units)
         /\ made <= MaxUnits /\ Len(chunk) <= Chunk /\ off <= Chunk
         /\ Top # "push" => chunk = <<>> /\ Left = 0 /\ InHand = {}
         /\ Top = "push" => off < Len(chunk) /\ chunk # <<>> /\ Left = Len(chunk) - off
<1>1. /\ OutTypes /\ made \in Nat /\ made <= MaxUnits
  BY TypeParts, Bounds DEF TlsInv, OutTypes
<1>2. /\ Len(wbio) \in Nat /\ Len(out) \in Nat /\ Len(chunk) \in Nat /\ off \in Nat
      /\ off <= Chunk
  BY <1>1, Bounds DEF OutTypes
<1>3. ASSUME Top # "push" PROVE chunk = <<>> /\ Left = 0 /\ InHand = {}
  <2>1. chunk = <<>>
    BY <1>3 DEF TlsInv, StackInv
  <2>2. Len(chunk) = 0
    BY <2>1, EmptyOut
  <2>3. off + 1 .. Len(chunk) = {}
    BY <1>2, <2>2
  <2> QED BY <2>1, <2>3 DEF Left, InHand
<1>4. ASSUME Top = "push" PROVE off < Len(chunk) /\ chunk # <<>> /\ Left = Len(chunk) - off
  <2>1. off < Len(chunk)
    BY <1>4 DEF TlsInv, StackInv
  <2>2. chunk # <<>>
    BY <1>2, <2>1, EmptyOut
  <2> QED BY <2>1, <2>2 DEF Left
<1> QED BY <1>1, <1>2, <1>3, <1>4 DEF OutTypes

\* pump_out(): a chunk is taken from the write BIO, or it is empty.
LEMMA PumpOutKeeps ==
  ASSUME TlsInv, stk # <<>>, setup' = setup, PumpOut
  PROVE  TlsInv'
<1> DEFINE n == IF Len(wbio) < Chunk THEN Len(wbio) ELSE Chunk
<1>1. /\ Head(stk) = "pump_out" /\ off' = 0
      /\ chunk' = SubSeq(wbio, 1, n) /\ wbio' = SubSeq(wbio, n + 1, Len(wbio))
      /\ stk' = IF n = 0 THEN Tail(stk) ELSE <<"push">> \o stk
      /\ phase' = phase /\ tcp' = tcp /\ ssl' = ssl /\ live' = live /\ made' = made /\ out' = out
      /\ UNCHANGED incoming /\ ret' = ret
  BY DEF PumpOut
<1>2. n \in 0 .. Len(wbio) /\ n <= Chunk /\ (n = 0 => Len(wbio) = 0)
      /\ (Len(wbio) <= Chunk => n = Len(wbio))
  BY Before, Bounds
<1> HIDE DEF n
<1>3. Top = "pump_out"
  BY <1>1 DEF Top, TopOf
<1>4. PICK b \in Bases : Moves(stk, b)
  BY <1>3, StackCases DEF TlsInv
<1>5. Base = b /\ ~Done /\ BaseOf(stk') = b
      /\ (stk' \in Shapes(b)) /\ (n = 0 => TopOf(stk') # "push") /\ (n # 0 => TopOf(stk') = "push")
  BY <1>1, <1>3, <1>4 DEF Moves, Base, Top, Done
<1>6. chunk = <<>> /\ Left = 0 /\ InHand = {}
  BY <1>3, Before
<1>7. /\ chunk' \in Seq(Units) /\ Len(chunk') = n /\ \A i \in 1 .. n : chunk'[i] = wbio[i]
      /\ Elems(chunk') = {wbio[i] : i \in 1 .. n}
  BY <1>1, <1>2, Before, Prefix, Zenon
<1>8. /\ wbio' \in Seq(Units) /\ Len(wbio') = Len(wbio) - n
      /\ \A i \in 1 .. Len(wbio') : wbio'[i] = wbio[n + i]
      /\ Elems(wbio') = {wbio[i] : i \in n + 1 .. Len(wbio)}
  BY <1>1, <1>2, Before, Suffix, Zenon
<1>9. StackInv'
  <2>1. n = 0 => chunk' = <<>>
    BY <1>7
  <2>2. n # 0 => off' < Len(chunk')
    BY <1>1, <1>2, <1>7
  <2> QED BY <1>5, <2>1, <2>2 DEF StackInv, Top
<1>10. Left' = n
  <2>1. CASE n = 0
    BY <1>7, <2>1 DEF Left
  <2>2. CASE n # 0
    <3>1. chunk' # <<>>
      BY <1>7, <2>2, EmptyOut
    <3> QED BY <1>1, <1>2, <1>7, <3>1 DEF Left
  <2> QED BY <2>1, <2>2
<1>11. InHand' \cup Elems(wbio') = Elems(wbio)
  <2>1. InHand' = {wbio[i] : i \in 1 .. n}
    <3>1. off' + 1 .. Len(chunk') = 1 .. n
      BY <1>1, <1>7
    <3> QED BY <1>7, <3>1, Zenon DEF InHand
  <2>2. (1 .. n) \cup (n + 1 .. Len(wbio)) = 1 .. Len(wbio)
    BY <1>2, Before
  <2> QED BY <1>8, <2>1, <2>2, Zenon DEF Elems
<1>12. FlowInv'
  <2> SUFFICES ASSUME Connected
               PROVE  /\ Len(out') + Left' + Len(wbio') = made'
                      /\ Elems(out') \cup InHand' \cup Elems(wbio') = 1 .. made'
    BY <1>1, Zenon DEF FlowInv, Connected
  <2>1. /\ Len(out) + Left + Len(wbio) = made
        /\ Elems(out) \cup InHand \cup Elems(wbio) = 1 .. made
    BY DEF TlsInv, FlowInv
  <2>2. Len(out') + Left' + Len(wbio') = made'
    <3>1. Len(out') = Len(out) /\ made' = made
      BY <1>1
    <3> QED BY <1>2, <1>6, <1>8, <1>10, <2>1, <3>1, Before
  <2> QED BY <1>1, <1>6, <1>11, <2>1, <2>2, Zenon
<1>13. OrderInv'
  <2> SUFFICES ASSUME ~setup.bursts
               PROVE  OrderInv'
    BY DEF OrderInv
  <2>1. Connected' <=> Connected
    BY <1>1 DEF Connected
  <2>2. \A i \in 1 .. Len(out') : out'[i] = i
    BY <1>1 DEF TlsInv, OrderInv
  <2>3. Connected /\ Base' # "closed" => Len(wbio') <= Chunk /\ (chunk' # <<>> => wbio' = <<>>)
    <3> SUFFICES ASSUME Connected, Base # "closed"
                 PROVE  Len(wbio') = 0
      BY <1>5, <1>8, Bounds DEF Base
    <3>1. Len(wbio) <= Chunk
      BY DEF TlsInv, OrderInv
    <3> QED BY <1>2, <1>8, <3>1, Before
  <2>4. ASSUME Connected
        PROVE  /\ \A i \in 1 .. Len(chunk') : i > off' => chunk'[i] = Len(out') + (i - off')
               /\ \A i \in 1 .. Len(wbio') : wbio'[i] = Len(out') + Left' + i
    <3>1. \A i \in 1 .. Len(wbio) : wbio[i] = Len(out) + i
      BY <1>5, <1>6, <2>4, Before DEF TlsInv, OrderInv
    <3>2. Len(out') = Len(out) /\ off' = 0
      BY <1>1
    <3>3. \A i \in 1 .. Len(chunk') : chunk'[i] = Len(out') + (i - off')
      <4> TAKE i \in 1 .. Len(chunk')
      <4>1. i \in 1 .. n /\ i \in 1 .. Len(wbio) /\ i - 0 = i
        BY <1>2, <1>7, Before
      <4> QED BY <1>7, <3>1, <3>2, <4>1
    <3>4. ASSUME NEW i \in 1 .. Len(wbio') PROVE wbio'[i] = Len(out') + Left' + i
      <4>1. n + i \in 1 .. Len(wbio) /\ wbio'[i] = wbio[n + i]
        BY <1>2, <1>8, Before
      <4> QED BY <1>2, <1>10, <3>1, <3>2, <4>1, Before
    <3> QED BY <3>3, <3>4
  <2> QED BY <2>1, <2>2, <2>3, <2>4 DEF OrderInv
<1>14. TypeOK'
  <2>1. OutTypes'
    <3>1. made' \in 0 .. MaxUnits /\ off' \in 0 .. Chunk
      BY <1>1, Before, Bounds
    <3> QED BY <1>1, <1>2, <1>7, <1>8, <3>1, Before DEF OutTypes
  <2>2. OtherTypes' /\ InTypes'
    BY <1>1, TypeParts DEF TlsInv, OtherTypes, InTypes, incoming
  <2> QED BY <2>1, <2>2, TypePartsPrimed
<1>15. PhaseInv'
  <2>1. ssl = "new" => wbio' = <<>>
    <3> SUFFICES ASSUME ssl = "new" PROVE Len(wbio') = 0
      BY <1>8
    <3>1. Len(wbio) = 0
      BY EmptyOut DEF TlsInv, PhaseInv
    <3>2. n = 0
      BY <1>2, <3>1
    <3> QED BY <1>8, <3>1, <3>2
  <2> QED BY <1>1, <1>5, <2>1 DEF TlsInv, PhaseInv, Base
<1> QED BY <1>9, <1>12, <1>13, <1>14, <1>15 DEF TlsInv

\* The socket takes the chunk, or a part of it.
LEMMA PushSomeKeeps ==
  ASSUME TlsInv, stk # <<>>, setup' = setup, PushSome
  PROVE  TlsInv'
<1>1. /\ Head(stk) = "push" /\ tcp = "open"
      /\ out' = Append(out, chunk[off + 1]) /\ off' = off + 1
      /\ stk' = IF off' = Len(chunk) THEN Tail(stk) ELSE stk
      /\ chunk' = IF off' = Len(chunk) THEN <<>> ELSE chunk
      /\ phase' = phase /\ tcp' = tcp /\ ssl' = ssl /\ live' = live /\ made' = made /\ wbio' = wbio
      /\ UNCHANGED incoming /\ ret' = ret
  BY DEF PushSome
<1>2. Top = "push"
  BY <1>1 DEF Top, TopOf
<1>3. PICK b \in Bases : Moves(stk, b)
  BY <1>2, StackCases DEF TlsInv
<1>4. off < Len(chunk) /\ chunk # <<>> /\ Left = Len(chunk) - off
  BY <1>2, Before
<1>5. Base = b /\ ~Done /\ BaseOf(stk') = b
      /\ (off' = Len(chunk) => stk' \in Shapes(b) /\ TopOf(stk') = "pump_out")
  BY <1>1, <1>2, <1>3 DEF Moves, Base, Top, Done
<1>6. StackInv'
  <2>1. CASE off' = Len(chunk)
    BY <1>1, <1>5, <2>1 DEF StackInv, Top
  <2>2. CASE off' # Len(chunk)
    <3>1. stk' = stk /\ chunk' = chunk /\ off' < Len(chunk')
      BY <1>1, <1>4, <2>2, Before
    <3> QED BY <1>2, <3>1 DEF TlsInv, StackInv, Top
  <2> QED BY <2>1, <2>2
<1>7. chunk[off + 1] \in Units /\ off + 1 \in 1 .. Len(chunk)
  BY <1>4, Before
<1>8. /\ out' \in Seq(Units) /\ Len(out') = Len(out) + 1
      /\ \A i \in 1 .. Len(out) : out'[i] = out[i]
      /\ out'[Len(out) + 1] = chunk[off + 1]
  BY <1>1, <1>7, Before
<1>9. Elems(out') = Elems(out) \cup {chunk[off + 1]}
  <2>1. \A i \in 1 .. Len(out') : i \in 1 .. Len(out) \/ i = Len(out) + 1
    BY <1>8, Before
  <2>2. \A i \in 1 .. Len(out) : i \in 1 .. Len(out')
    BY <1>8, Before
  <2>3. Len(out) + 1 \in 1 .. Len(out')
    BY <1>8, Before
  <2> QED BY <1>8, <2>1, <2>2, <2>3 DEF Elems
<1>10. Left' = Left - 1 /\ {chunk[off + 1]} \cup InHand' = InHand
  <2>1. CASE off' = Len(chunk)
    <3>1. chunk' = <<>> /\ Len(chunk') = 0 /\ off' + 1 .. Len(chunk') = {}
      BY <1>1, <2>1, Before, EmptyOut
    <3>2. InHand' = {} /\ Left' = 0
      BY <3>1 DEF InHand, Left
    <3>3. off + 1 .. Len(chunk) = {off + 1}
      BY <1>1, <2>1, Before
    <3>4. InHand = {chunk[off + 1]}
      BY <3>3 DEF InHand
    <3> QED BY <1>1, <1>4, <2>1, <3>2, <3>4, Before
  <2>2. CASE off' # Len(chunk)
    <3>1. chunk' = chunk /\ off + 1 .. Len(chunk) = {off + 1} \cup (off' + 1 .. Len(chunk'))
      BY <1>1, <1>4, <2>2, Before
    <3>2. InHand' = {chunk[i] : i \in off' + 1 .. Len(chunk')}
      BY <3>1 DEF InHand
    <3>3. Left' = Len(chunk) - off'
      BY <1>4, <3>1 DEF Left
    <3>4. {chunk[off + 1]} \cup InHand' = InHand
      BY <3>1, <3>2 DEF InHand
    <3>5. Left' = Left - 1
      BY <1>1, <1>4, <3>3, Before
    <3> QED BY <3>4, <3>5
  <2> QED BY <2>1, <2>2
<1>11. Left \in Nat
  BY <1>4, Before
<1>12. Connected /\ Connected'
  BY <1>1 DEF TlsInv, PhaseInv, Connected
<1>13. FlowInv'
  <2>1. /\ Len(out) + Left + Len(wbio) = made
        /\ Elems(out) \cup InHand \cup Elems(wbio) = 1 .. made
    BY <1>12 DEF TlsInv, FlowInv
  <2>2. Len(wbio') = Len(wbio) /\ made' = made /\ Elems(wbio') = Elems(wbio)
    BY <1>1
  <2>3. Len(out') + Left' + Len(wbio') = made'
    BY <1>8, <1>10, <1>11, <2>1, <2>2, Before
  <2> QED BY <1>9, <1>10, <2>1, <2>2, <2>3 DEF FlowInv
<1>14. OrderInv'
  <2> SUFFICES ASSUME ~setup.bursts
               PROVE  OrderInv'
    BY DEF OrderInv
  <2>1. /\ \A i \in 1 .. Len(out) : out[i] = i
        /\ \A i \in 1 .. Len(chunk) : i > off => chunk[i] = Len(out) + (i - off)
        /\ \A i \in 1 .. Len(wbio) : wbio[i] = Len(out) + Left + i
        /\ Base # "closed" => Len(wbio) <= Chunk /\ (chunk # <<>> => wbio = <<>>)
    BY <1>5, <1>12 DEF TlsInv, OrderInv
  <2>2. chunk[off + 1] = Len(out) + 1
    BY <1>7, <2>1, Before
  <2>3. \A i \in 1 .. Len(out') : out'[i] = i
    <3> TAKE i \in 1 .. Len(out')
    <3>1. i \in 1 .. Len(out) \/ i = Len(out) + 1
      BY <1>8, Before
    <3> QED BY <1>8, <2>1, <2>2, <3>1
  <2>4. Base' # "closed" => Len(wbio') <= Chunk /\ (chunk' # <<>> => wbio' = <<>>)
    BY <1>1, <1>4, <1>5, <2>1 DEF Base
  <2>5. \A i \in 1 .. Len(chunk') : i > off' => chunk'[i] = Len(out') + (i - off')
    <3>1. CASE off' = Len(chunk)
      <4>1. Len(chunk') = 0
        BY <1>1, <3>1, EmptyOut
      <4> QED BY <4>1
    <3>2. CASE off' # Len(chunk)
      <4>1. chunk' = chunk
        BY <1>1, <3>2
      <4> SUFFICES ASSUME NEW i \in 1 .. Len(chunk), i > off + 1
                   PROVE  chunk[i] = Len(out) + 1 + (i - (off + 1))
        BY <1>1, <1>8, <4>1
      <4>2. i \in Nat /\ i > off
        BY Before
      <4>3. chunk[i] = Len(out) + (i - off)
        BY <2>1, <4>2
      <4> QED BY <4>2, <4>3, Before
    <3> QED BY <3>1, <3>2
  <2>6. \A i \in 1 .. Len(wbio') : wbio'[i] = Len(out') + Left' + i
    <3>1. wbio' = wbio
      BY <1>1
    <3> TAKE i \in 1 .. Len(wbio')
    <3>2. i \in Nat /\ wbio[i] = Len(out) + Left + i
      BY <2>1, <3>1, Before
    <3> QED BY <1>8, <1>10, <1>11, <3>1, <3>2, Before
  <2> QED BY <2>3, <2>4, <2>5, <2>6 DEF OrderInv
<1>15. TypeOK'
  <2>1. chunk' \in Seq(Units) /\ Len(chunk') <= Chunk
    <3>1. CASE chunk' = <<>>
      BY <3>1, EmptyOut, Bounds
    <3>2. CASE chunk' = chunk
      BY <3>2, Before
    <3> QED BY <1>1, <3>1, <3>2
  <2>2. OutTypes'
    <3>1. made' \in 0 .. MaxUnits /\ off' \in 0 .. Chunk
      BY <1>1, <1>4, Before, Bounds
    <3> QED BY <1>1, <1>8, <2>1, <3>1, Before DEF OutTypes
  <2>3. OtherTypes' /\ InTypes'
    BY <1>1, TypeParts DEF TlsInv, OtherTypes, InTypes, incoming
  <2> QED BY <2>2, <2>3, TypePartsPrimed
<1>16. PhaseInv'
  BY <1>1, <1>5 DEF TlsInv, PhaseInv, Base
<1> QED BY <1>6, <1>13, <1>14, <1>15, <1>16 DEF TlsInv

\* The socket is full: what is left of the chunk goes back to the write BIO.
LEMMA PushBlockedKeeps ==
  ASSUME TlsInv, stk # <<>>, setup' = setup, PushBlocked
  PROVE  TlsInv'
<1> DEFINE tail == SubSeq(chunk, off + 1, Len(chunk))
<1>1. /\ Head(stk) = "push" /\ tcp = "open"
      /\ wbio' = wbio \o tail /\ chunk' = <<>> /\ stk' = Tail(Tail(stk))
      /\ phase' = phase /\ tcp' = tcp /\ ssl' = ssl /\ live' = live /\ made' = made
      /\ off' = off /\ out' = out
      /\ UNCHANGED incoming /\ ret' = ret
  BY DEF PushBlocked
<1>2. Top = "push"
  BY <1>1 DEF Top, TopOf
<1>3. PICK b \in Bases : Moves(stk, b)
  BY <1>2, StackCases DEF TlsInv
<1>4. off < Len(chunk) /\ chunk # <<>> /\ Left = Len(chunk) - off
  BY <1>2, Before
<1>5. Base = b /\ ~Done /\ BaseOf(stk') = b /\ stk' \in Shapes(b) /\ TopOf(stk') # "push"
      /\ (b = "closed" => Ends(stk'))
  BY <1>1, <1>2, <1>3 DEF Moves, Base, Top, Done
<1>6. StackInv'
  BY <1>1, <1>5 DEF StackInv, Top
<1>7. /\ tail \in Seq(Units) /\ Len(tail) = Left
      /\ \A i \in 1 .. Len(tail) : tail[i] = chunk[off + i]
      /\ Elems(tail) = InHand
  <2>1. off \in 0 .. Len(chunk) /\ chunk \in Seq(Units)
    BY <1>4, Before
  <2>2. /\ tail \in Seq(Units) /\ Len(tail) = Len(chunk) - off
        /\ \A i \in 1 .. Len(tail) : tail[i] = chunk[off + i]
        /\ Elems(tail) = {chunk[i] : i \in off + 1 .. Len(chunk)}
    BY <2>1, Suffix
  <2> HIDE DEF tail
  <2> QED BY <1>4, <2>2 DEF InHand
<1> HIDE DEF tail
<1>8. /\ wbio' \in Seq(Units) /\ Len(wbio') = Len(wbio) + Left
      /\ \A i \in 1 .. Len(wbio) : wbio'[i] = wbio[i]
      /\ \A i \in 1 .. Left : wbio'[Len(wbio) + i] = chunk[off + i]
      /\ Elems(wbio') = Elems(wbio) \cup InHand
  <2>1. /\ wbio \o tail \in Seq(Units) /\ Len(wbio \o tail) = Len(wbio) + Len(tail)
        /\ \A i \in 1 .. Len(wbio) : (wbio \o tail)[i] = wbio[i]
        /\ \A i \in 1 .. Len(tail) : (wbio \o tail)[Len(wbio) + i] = tail[i]
        /\ Elems(wbio \o tail) = Elems(wbio) \cup Elems(tail)
    <3>1. wbio \in Seq(Units)
      BY Before
    <3>2. tail \in Seq(Units)
      BY <1>7
    <3> QED BY <3>1, <3>2, Concat, ZenonT(60)
  <2> QED BY <1>1, <1>7, <2>1
<1>9. Left' = 0 /\ InHand' = {} /\ Len(chunk') = 0
  <2>1. Len(chunk') = 0
    BY <1>1, EmptyOut
  <2>2. off' + 1 .. Len(chunk') = {}
    BY <1>1, <2>1, Before
  <2> QED BY <1>1, <2>1, <2>2 DEF Left, InHand
<1>10. Left \in Nat /\ Left <= Chunk
  BY <1>4, Before, Bounds
<1>11. Connected /\ Connected'
  BY <1>1 DEF TlsInv, PhaseInv, Connected
<1>12. FlowInv'
  <2>1. /\ Len(out) + Left + Len(wbio) = made
        /\ Elems(out) \cup InHand \cup Elems(wbio) = 1 .. made
    BY <1>11 DEF TlsInv, FlowInv
  <2>2. Len(out') = Len(out) /\ made' = made /\ Elems(out') = Elems(out)
    BY <1>1
  <2>3. Len(out') + Left' + Len(wbio') = made'
    BY <1>8, <1>9, <1>10, <2>1, <2>2, Before
  <2> QED BY <1>8, <1>9, <2>1, <2>2, <2>3 DEF FlowInv
<1>13. OrderInv'
  <2> SUFFICES ASSUME ~setup.bursts
               PROVE  OrderInv'
    BY DEF OrderInv
  <2>1. /\ \A i \in 1 .. Len(out) : out[i] = i
        /\ \A i \in 1 .. Len(chunk) : i > off => chunk[i] = Len(out) + (i - off)
        /\ Base # "closed" => wbio = <<>>
    BY <1>4, <1>5, <1>11 DEF TlsInv, OrderInv
  <2>2. \A i \in 1 .. Len(out') : out'[i] = i
    BY <1>1, <2>1
  <2>3. CASE Base = "closed"
    BY <1>5, <2>2, <2>3 DEF OrderInv, Base, Done
  <2>4. CASE Base # "closed"
    <3>1. Len(wbio) = 0
      BY <2>1, <2>4, EmptyOut
    <3>2. Len(wbio') = Left /\ \A i \in 1 .. Left : wbio'[i] = chunk[off + i]
      BY <1>8, <1>10, <3>1
    <3>3. \A i \in 1 .. Left : wbio'[i] = Len(out) + i
      <4> TAKE i \in 1 .. Left
      <4> DEFINE j == off + i
      <4>1. j \in 1 .. Len(chunk) /\ j > off /\ j - off = i
        BY <1>4, <1>10, Before
      <4> HIDE DEF j
      <4>2. chunk[j] = Len(out) + i
        BY <2>1, <4>1
      <4>3. wbio'[i] = chunk[j]
        BY <3>2 DEF j
      <4> QED BY <4>2, <4>3
    <3>4. \A i \in 1 .. Len(wbio') : wbio'[i] = Len(out') + Left' + i
      <4>1. Len(out') = Len(out) /\ Left' = 0
        BY <1>1, <1>9
      <4> QED BY <3>2, <3>3, <4>1, Before
    <3>5. Len(wbio') <= Chunk /\ chunk' = <<>>
      BY <1>1, <1>10, <3>2
    <3> QED BY <1>9, <2>2, <3>4, <3>5 DEF OrderInv
  <2> QED BY <2>3, <2>4
<1>14. TypeOK'
  <2>1. OutTypes'
    <3>1. made' \in 0 .. MaxUnits /\ off' \in 0 .. Chunk
      BY <1>1, Before, Bounds
    <3> QED BY <1>1, <1>8, <3>1, Before, EmptyOut, Bounds DEF OutTypes
  <2>2. OtherTypes' /\ InTypes'
    BY <1>1, TypeParts DEF TlsInv, OtherTypes, InTypes, incoming
  <2> QED BY <2>1, <2>2, TypePartsPrimed
<1>15. PhaseInv'
  <2>1. ssl # "new"
    <3> SUFFICES ASSUME ssl = "new" PROVE FALSE
      OBVIOUS
    <3>1. made = 0 /\ Len(out) + Left + Len(wbio) = made
      BY <1>11 DEF TlsInv, PhaseInv, FlowInv
    <3> QED BY <1>4, <3>1, Before
  <2> QED BY <1>1, <1>5, <2>1 DEF TlsInv, PhaseInv, Base
<1> QED BY <1>6, <1>12, <1>13, <1>14, <1>15 DEF TlsInv

\* Erase makes no sequence longer.
LEMMA ErasedLength ==
  ASSUME NEW S, NEW s \in Seq(S), NEW x
  PROVE  Erase(s, x) \in Seq(S) /\ Len(Erase(s, x)) <= Len(s)
<1>1. Erase(s, x) \in Seq(S) /\ Thinned(Erase(s, x), s, x, Len(s))
  BY EraseProperties
<1> QED BY <1>1, ThinnedLen

\* What a read of the socket can bring.
LEMMA ArrivalTypes ==
  ASSUME TlsInv, NEW a \in Arrivals
  PROVE  a \in Seq(Kinds \cup {"part"}) /\ Len(a) <= MaxRead + 1
<1>1. setup.kinds \subseteq Kinds /\ MaxRead \in Nat
  BY TlsConstants DEF TlsInv, TypeOK
<1> DEFINE whole == UNION {[1 .. n -> setup.kinds] : n \in 0 .. MaxRead}
<1>2. \A w \in whole : w \in Seq(setup.kinds) /\ Len(w) <= MaxRead
  BY <1>1
<1>3. Arrivals \subseteq whole \cup {Append(w, "part") : w \in whole}
  BY DEF Arrivals
<1> HIDE DEF whole
<1>4. a \in whole \/ \E w \in whole : a = Append(w, "part")
  BY <1>3
<1>5. \A w \in whole : w \in Seq(Kinds \cup {"part"}) /\ Len(w) <= MaxRead
  BY <1>1, <1>2
<1>6. CASE a \in whole
  BY <1>1, <1>5, <1>6
<1>7. ASSUME NEW w \in whole, a = Append(w, "part")
      PROVE  a \in Seq(Kinds \cup {"part"}) /\ Len(a) <= MaxRead + 1
  BY <1>1, <1>5, <1>7
<1> QED BY <1>4, <1>6, <1>7

\* OpenSSL looks at no more records than there are.
LEMMA LookedBound ==
  ASSUME TlsInv
  PROVE  Looked \in 0 .. Len(rbio)
<1>1. rbio \in Seq(Kinds \cup {"part"}) /\ Len(rbio) \in Nat
  BY DEF TlsInv, TypeOK
<1>2. CASE \E i \in 1 .. Len(rbio) : rbio[i] # "ctl"
  <2> DEFINE T == {i \in 1 .. Len(rbio) : rbio[i] # "ctl"}
  <2>1. T \subseteq Nat /\ T # {}
    BY <1>2
  <2>2. PICK i \in T : \A k \in T : i <= k
    BY <2>1, Least, Zenon
  <2>3. i \in 1 .. Len(rbio) /\ rbio[i] # "ctl" /\ \A j \in 1 .. i - 1 : rbio[j] = "ctl"
    BY <1>1, <2>2
  <2>4. Looked \in 1 .. Len(rbio)
    BY <1>2, <2>3 DEF Looked
  <2> QED BY <1>1, <2>4
<1>3. CASE ~\E i \in 1 .. Len(rbio) : rbio[i] # "ctl"
  BY <1>1, <1>3 DEF Looked
<1> QED BY <1>2, <1>3

\* What is left of the read BIO.
LEMMA RestTypes ==
  ASSUME TlsInv
  PROVE  /\ rbio \in Seq(Kinds \cup {"part"}) /\ Len(rbio) <= HighWater + MaxRead
         /\ Rest \in Seq(Kinds \cup {"part"}) /\ Len(Rest) <= HighWater + MaxRead
         /\ <<>> \in Seq(Kinds \cup {"part"}) /\ Len(<<>>) <= HighWater + MaxRead
         /\ \A n \in 1 .. Len(rbio) :
              /\ SubSeq(rbio, n + 1, Len(rbio)) \in Seq(Kinds \cup {"part"})
              /\ Len(SubSeq(rbio, n + 1, Len(rbio))) <= HighWater + MaxRead
<1>1. /\ rbio \in Seq(Kinds \cup {"part"}) /\ Len(rbio) \in Nat
      /\ Len(rbio) <= HighWater + MaxRead
  BY DEF TlsInv, TypeOK
<1>2. \A n \in 0 .. Len(rbio) :
        /\ SubSeq(rbio, n + 1, Len(rbio)) \in Seq(Kinds \cup {"part"})
        /\ Len(SubSeq(rbio, n + 1, Len(rbio))) = Len(rbio) - n
  BY <1>1, Suffix
<1>3. \A n \in 0 .. Len(rbio) :
        /\ SubSeq(rbio, n + 1, Len(rbio)) \in Seq(Kinds \cup {"part"})
        /\ Len(SubSeq(rbio, n + 1, Len(rbio))) <= HighWater + MaxRead
  BY <1>1, <1>2, Bounds
<1>4. Rest \in Seq(Kinds \cup {"part"}) /\ Len(Rest) <= HighWater + MaxRead
  BY <1>3, LookedBound DEF Rest
<1>5. <<>> \in Seq(Kinds \cup {"part"}) /\ Len(<<>>) <= HighWater + MaxRead
  BY EmptyOut, Bounds
<1> QED BY <1>1, <1>3, <1>4, <1>5

\* The stacks that calls and handlers start with.
LEMMA Entries ==
  ASSUME NEW b \in Bases
  PROVE  /\ Calm(<<b>>) /\ BaseOf(<<b>>) = b /\ (b = "closed" => Ends(<<b>>))
         /\ Calm(<<"dead", b>>) /\ BaseOf(<<"dead", b>>) = b
         /\ b = "closed" => Ends(<<"dead", b>>)
         /\ Calm(Pump \o <<b>>) /\ BaseOf(Pump \o <<b>>) = b
         /\ Calm(<<"pump_out">> \o <<b>>) /\ BaseOf(<<"pump_out">> \o <<b>>) = b
         /\ Calm(<<"pump_in", "pump_out", b>>) /\ BaseOf(<<"pump_in", "pump_out", b>>) = b
         /\ <<>> \o <<b>> = <<b>>
<1>0. b \notin {"dead", "pump_out", "pump_in", "pull", "push"}
  BY DEF Bases
<1>1. Pump \o <<b>> = <<"pump_out", "pump_in", b>>
  <2> DEFINE S == {"pump_out", "pump_in", b}
  <2>1. "pump_out" \in S /\ "pump_in" \in S /\ <<b>> \in Seq(S)
    OBVIOUS
  <2>2. <<"pump_out", "pump_in">> \o <<b>> = <<"pump_out">> \o (<<"pump_in">> \o <<b>>)
    BY <2>1, Push2
  <2>3. <<"pump_in">> \o <<b>> = <<"pump_in", b>>
    BY Join2
  <2>4. <<"pump_out">> \o <<"pump_in", b>> = <<"pump_out", "pump_in", b>>
    BY Join3
  <2> QED BY <2>2, <2>3, <2>4, Zenon DEF Pump
<1>2. <<"pump_out">> \o <<b>> = <<"pump_out", b>>
  BY Join2
<1>3. \A s \in {<<b>>, <<"dead", b>>, <<"pump_out", "pump_in", b>>, <<"pump_out", b>>,
                <<"pump_in", "pump_out", b>>} : s \in Shapes(b) /\ Moves(s, b)
  <2>1. \A s \in {<<b>>, <<"dead", b>>, <<"pump_out", "pump_in", b>>, <<"pump_out", b>>,
                <<"pump_in", "pump_out", b>>} : s \in Shapes(b)
    BY DEF Shapes
  <2> QED BY <2>1, ShapeMoves
<1>4. /\ TopOf(<<b>>) # "push" /\ TopOf(<<"dead", b>>) # "push"
      /\ TopOf(<<"pump_out", "pump_in", b>>) # "push" /\ TopOf(<<"pump_out", b>>) # "push"
      /\ TopOf(<<"pump_in", "pump_out", b>>) # "push"
  BY <1>0 DEF TopOf
<1>5. b = "closed" => Ends(<<b>>) /\ Ends(<<"dead", b>>)
  BY DEF Ends, BaseOf
<1>6. <<>> \o <<b>> = <<b>>
  OBVIOUS
<1> QED BY <1>1, <1>2, <1>3, <1>4, <1>5, <1>6, Zenon DEF Calm, Moves

\* A pump that meets a dead socket.
LEMMA PumpFailsKeeps ==
  ASSUME TlsInv, stk # <<>>, setup' = setup, PumpFails
  PROVE  TlsInv'
<1>1. /\ Top \in {"push", "pull"}
      /\ tcp' = "dead" /\ chunk' = <<>> /\ stk' = <<"dead", stk[Len(stk)]>>
      /\ phase' = phase /\ ssl' = ssl /\ live' = live /\ made' = made /\ wbio' = wbio
      /\ off' = off /\ out' = out /\ UNCHANGED incoming /\ ret' = ret
  BY DEF PumpFails, Top, TopOf
<1>2. PICK b \in Bases : Moves(stk, b)
  BY <1>1, StackCases DEF TlsInv
<1>3. /\ Base = b /\ stk' = <<"dead", b>>
  <2>1. BaseOf(stk) = b
    BY <1>2 DEF Moves
  <2>2. stk[Len(stk)] = b
    BY <2>1 DEF BaseOf
  <2> QED BY <1>1, <2>1, <2>2, Zenon DEF Base
<1>4. StackInv' /\ BaseOf(stk') = b
  <2>1. Calm(<<"dead", b>>) /\ BaseOf(<<"dead", b>>) = b
    BY Entries, Zenon
  <2>2. Calm(stk') /\ BaseOf(stk') = b
    BY <1>3, <2>1
  <2> QED BY <1>1, <2>2 DEF Calm, StackInv, Top
<1>5. PhaseInv'
  BY <1>1, <1>3, <1>4 DEF TlsInv, PhaseInv, Base
<1>6. FlowInv' /\ OrderInv'
  BY <1>1 DEF TlsInv, FlowInv, OrderInv, Connected
<1>7. OutTypes'
  BY <1>1, TypeParts, EmptyOut, Bounds DEF TlsInv, OutTypes
<1>8. OtherTypes' /\ InTypes'
  BY <1>1, TypeParts DEF TlsInv, OtherTypes, InTypes, incoming
<1> QED BY <1>4, <1>5, <1>6, <1>7, <1>8, TypePartsPrimed DEF TlsInv

\* connect(): a new socket.
LEMMA ConnectKeeps ==
  ASSUME TlsInv, Connect
  PROVE  TlsInv'
<1>1. /\ stk = <<>> /\ (ssl = "none" \/ setup.reuses)
      /\ \/ tcp' = "opening" /\ phase' = "ConnectingTcp" /\ ret' = "true"
         \/ tcp' = "closed" /\ phase' = "Error" /\ ret' = "false"
      /\ eof' = FALSE
      /\ setup' = setup /\ ssl' = ssl /\ live' = live /\ UNCHANGED outgoing
      /\ rbio' = rbio /\ plain' = plain /\ readAny' = readAny /\ stk' = stk
  BY DEF Connect, Quiet
<1>2. StackInv'
  BY <1>1 DEF TlsInv, StackInv, Top, outgoing
<1>3. PhaseInv'
  BY <1>1, EmptyTop DEF TlsInv, PhaseInv, Base, outgoing
<1>4. FlowInv' /\ OrderInv'
  BY <1>1 DEF TlsInv, FlowInv, OrderInv, Connected, outgoing
<1>5. OutTypes' /\ OtherTypes'
  BY <1>1, TypeParts DEF TlsInv, OutTypes, OtherTypes, outgoing
<1>6. InTypes'
  <2>1. eof' \in BOOLEAN
    BY <1>1, Zenon
  <2> QED BY <1>1, <2>1, TypeParts DEF TlsInv, InTypes
<1> QED BY <1>2, <1>3, <1>4, <1>5, <1>6, TypePartsPrimed DEF TlsInv

\* fail(), and what the call returns.
LEMMA FailKeeps ==
  ASSUME TlsInv, setup' = setup, Fail,
         NEW r \in {"failed", "error"}, Return(r)
  PROVE  TlsInv'
<1>1. /\ ssl' = "none" /\ live' = (IF ssl = "none" THEN live ELSE live - 1)
      /\ made' = 0 /\ wbio' = <<>> /\ chunk' = <<>> /\ off' = 0 /\ out' = <<>>
      /\ rbio' = <<>> /\ plain' = FALSE
      /\ tcp' = "closed" /\ phase' = "Error" /\ eof' = eof /\ readAny' = readAny
      /\ stk' = <<>> /\ ret' = r
  BY DEF Fail, Freed, Return
<1>2. InTypes'
  <2>1. plain' \in BOOLEAN
    BY <1>1, Zenon
  <2> QED BY <1>1, <2>1, TypeParts, RestTypes DEF TlsInv, InTypes
<1>3. OtherTypes'
  <2>1. live' \in Nat
    BY <1>1, TypeParts DEF TlsInv, OtherTypes, PhaseInv
  <2> QED BY <1>1, <2>1, TypeParts DEF TlsInv, OtherTypes
<1> QED BY <1>1, <1>2, <1>3, EmptyTop, FreshKeeps

\* What the frame on top says of the whole stack.
LEMMA TopFrame ==
  ASSUME TlsInv, stk # <<>>
  PROVE  /\ Top = Head(stk)
         /\ Top = "handshake" => Base = "handshake" /\ ~Done
         /\ Top \in Bases => Base = Top /\ (Top # "closed" => ~Done)
         /\ Top \in {"dead", "pump_in", "pull"} => \E b \in Bases : Moves(stk, b)
<1>1. Top = Head(stk)
  BY DEF Top, TopOf
<1>2. CASE stk = <<"handshake">> /\ Base = "handshake" /\ Top = "handshake"
  BY <1>1, <1>2 DEF Bases, Done, Ends, Base
<1>3. CASE \E b \in Bases : Moves(stk, b)
  <2>1. PICK b \in Bases : Moves(stk, b)
    BY <1>3
  <2>2. Top \in {"dead", "pump_out", "pump_in", "pull", "push", b} /\ Base = b
    BY <2>1 DEF Moves, Top, Base
  <2>3. b \notin {"handshake", "dead", "pump_out", "pump_in", "pull", "push"}
    BY DEF Bases
  <2>4. Top \in Bases => Top = b
    BY <2>2 DEF Bases
  <2> QED BY <1>1, <2>1, <2>2, <2>3, <2>4 DEF Done, Ends, Base
<1> QED BY <1>2, <1>3, StackCases DEF TlsInv

\* No call runs between calls.
LEMMA QuietStack ==
  ASSUME TlsInv, Quiet
  PROVE  stk = <<>> /\ chunk = <<>> /\ Base = "none" /\ ~Done
<1>1. stk = <<>> /\ Top = "none" /\ Base = "none" /\ ~Done
  BY EmptyTop DEF Quiet, Top, Base, Done
<1> QED BY <1>1, Before

\* A step between calls, or of a call, that leaves the connection as it is.
LEMMA PassKeeps ==
  ASSUME TlsInv, chunk = <<>>, Base # "closed", ~Done,
         UNCHANGED <<setup, tcp, ssl, live, outgoing>>, InTypes',
         Calm(stk'), BaseOf(stk') = "hs_done" => ssl \in Up,
         phase' = phase \/ (phase' = "Established" /\ ssl \in Up),
         ret' = ret \/ ret' \in {"none", "connecting", "open", "closed", "failed", "data",
                                 "written", "again", "eof", "error"}
  PROVE  TlsInv'
<1>1. /\ setup' = setup /\ tcp' = tcp /\ ssl' = ssl /\ live' = live
      /\ UNCHANGED <<setup, tcp, live, made, wbio, chunk, off, out>>
  BY DEF outgoing
<1>2. OtherTypes'
  BY <1>1, TypeParts DEF TlsInv, OtherTypes
<1>3. phase' = "Established" => ssl \in Up
  BY DEF TlsInv, PhaseInv
<1> QED BY <1>1, <1>2, <1>3, StayKeeps

\* Steps that leave what came in alone.
LEMMA SameIncoming ==
  ASSUME TlsInv, UNCHANGED incoming
  PROVE  InTypes'
  BY TypeParts DEF TlsInv, InTypes, incoming

\* The stack of a handshake.
LEMMA HandshakeStack ==
  /\ Calm(<<"handshake">>) /\ BaseOf(<<"handshake">>) = "handshake"
  /\ "handshake" \notin Bases
  BY DEF Calm, TopOf, BaseOf, Bases

\* poll_open(), once the socket is open.
LEMMA PollOpenKeeps ==
  ASSUME TlsInv, PollOpen
  PROVE  TlsInv'
<1>1. /\ stk' \in {<<>>, <<"handshake">>} /\ ret' \in {"none", "open", "closed", "failed"}
      /\ phase' = phase /\ UNCHANGED incoming
      /\ UNCHANGED <<setup, tcp, ssl, live, outgoing>>
  BY DEF PollOpen, Start, Return
<1>2. Calm(stk') /\ BaseOf(stk') # "hs_done"
  BY <1>1, EmptyTop, HandshakeStack
<1>3. Quiet
  BY DEF PollOpen
<1> QED BY <1>1, <1>2, <1>3, QuietStack, SameIncoming, PassKeeps

\* read().
LEMMA ReadKeeps ==
  ASSUME TlsInv, Read
  PROVE  TlsInv'
<1>1. /\ \/ stk' = Pump \o <<"ssl_read">> /\ ret' = "none"
         \/ stk' = <<"pump_out">> \o <<"ssl_read">> /\ ret' = "none"
         \/ stk' = <<>> /\ ret' = "again"
      /\ phase' = phase /\ UNCHANGED incoming
      /\ UNCHANGED <<setup, tcp, ssl, live, outgoing>>
  BY Zenon DEF Read, Refill, Start, Return
<1>2. "ssl_read" \in Bases
  BY DEF Bases
<1>3. Calm(stk') /\ BaseOf(stk') \in {"ssl_read", "none"}
  BY <1>1, <1>2, EmptyTop, Entries, Zenon
<1>4. Quiet
  BY DEF Read
<1> QED BY <1>1, <1>3, <1>4, QuietStack, SameIncoming, PassKeeps

\* poll_open() while the socket connects: the SSL object is made.
LEMMA PollTcpKeeps ==
  ASSUME TlsInv, PollTcp
  PROVE  TlsInv'
<1>1. Quiet /\ phase = "ConnectingTcp" /\ setup' = setup
  BY DEF PollTcp
<1>2. CASE ret' = "connecting" /\ UNCHANGED <<phase, tcp, ssl, live, outgoing, incoming, stk>>
  <2>1. stk' = <<>> /\ phase' = phase /\ UNCHANGED incoming
        /\ UNCHANGED <<setup, tcp, ssl, live, outgoing>>
    BY <1>1, <1>2 DEF Quiet
  <2>2. Calm(stk') /\ BaseOf(stk') # "hs_done"
    BY <2>1, EmptyTop
  <2> QED BY <1>1, <1>2, <2>1, <2>2, QuietStack, SameIncoming, PassKeeps
<1>3. CASE Fail /\ Return("failed")
  BY <1>1, <1>3, FailKeeps
<1>4. CASE /\ ssl' = "new" /\ live' = live + 1
           /\ made' = 0 /\ wbio' = <<>> /\ chunk' = <<>> /\ off' = 0 /\ out' = <<>>
           /\ rbio' = <<>> /\ plain' = FALSE
           /\ tcp' = "open" /\ phase' = "Handshaking"
           /\ Start(<<"handshake">>)
           /\ UNCHANGED <<eof, readAny>>
  <2>1. stk' = <<"handshake">> /\ ret' = "none"
    BY <1>4 DEF Start
  <2>2. OtherTypes'
    BY <1>1, <1>4, <2>1, TypeParts DEF TlsInv, OtherTypes
  <2>3. InTypes'
    <3>1. plain' \in BOOLEAN
      BY <1>4, Zenon
    <3> QED BY <1>4, <3>1, TypeParts, RestTypes DEF TlsInv, InTypes
  <2>4. ~setup.reuses => ssl = "none"
    BY <1>1 DEF TlsInv, PhaseInv
  <2> QED BY <1>1, <1>4, <2>1, <2>2, <2>3, <2>4, HandshakeStack, FreshKeeps
<1>5. CASE /\ ssl' = "none" /\ tcp' = "closed"
           /\ phase' \in {"Error", "Crashed"}
           /\ Return("failed")
           /\ UNCHANGED <<live, outgoing, incoming>>
  <2>1. /\ stk' = stk /\ ret' = "failed" /\ live' = live /\ UNCHANGED outgoing
        /\ made' = made /\ wbio' = wbio /\ chunk' = chunk /\ off' = off /\ out' = out
    BY <1>1, <1>5 DEF Return, Quiet, outgoing
  <2>2. StackInv'
    BY <2>1 DEF TlsInv, StackInv, Top
  <2>3. PhaseInv'
    BY <1>1, <1>5, <2>1, QuietStack DEF TlsInv, PhaseInv, Base, Up
  <2>4. FlowInv' /\ OrderInv'
    BY <1>1, <1>5, <2>1 DEF TlsInv, FlowInv, OrderInv, Connected
  <2>5. OutTypes' /\ OtherTypes' /\ InTypes'
    <3>1. OtherTypes'
      BY <1>1, <1>5, <2>1, TypeParts DEF TlsInv, OtherTypes
    <3>2. OutTypes'
      BY <2>1, TypeParts DEF TlsInv, OutTypes
    <3> QED BY <1>5, <3>1, <3>2, SameIncoming
  <2> QED BY <2>2, <2>3, <2>4, <2>5, TypePartsPrimed DEF TlsInv
<1> QED BY <1>2, <1>3, <1>4, <1>5, Zenon DEF PollTcp, BeginHandshake

\* write(): SSL_write makes a record.
LEMMA WriteKeeps ==
  ASSUME TlsInv, Write
  PROVE  TlsInv'
<1>1. /\ Quiet /\ UNCHANGED incoming /\ phase' = phase
      /\ setup' = setup /\ tcp' = tcp /\ ssl' = ssl /\ live' = live
  BY DEF Write
<1>2. ASSUME phase = "Established", NEW n \in 1 .. MaxUnits - made - 1,
             setup.bursts \/ Len(wbio) + n < Chunk, Make(n), Start(Pump \o <<"written">>)
      PROVE  TlsInv'
  <2>1. n \in Nat /\ n >= 1 /\ made + n < MaxUnits
    BY Before, Bounds
  <2>2. ssl \in Up
    BY <1>2 DEF TlsInv, PhaseInv
  <2>3. "written" \in Bases
    BY DEF Bases
  <2>4. Calm(stk') /\ BaseOf(stk') = "written" /\ ret' = "none"
    BY <1>2, <2>3, Entries, Zenon DEF Start
  <2>5. OtherTypes'
    BY <1>1, <2>4, TypeParts DEF TlsInv, OtherTypes
  <2>6. InTypes'
    BY <1>1, SameIncoming
  <2>7. chunk = <<>> /\ Base = "none" /\ ~Done
    BY <1>1, QuietStack
  <2>8. ssl \notin {"none", "new", "hello"}
    BY <2>2 DEF Up
  <2>9. ~setup.bursts => Len(wbio) + n <= Chunk
    BY <1>2, <2>1, Before, Bounds
  <2> QED BY <1>1, <1>2, <2>1, <2>2, <2>4, <2>5, <2>6, <2>7, <2>8, <2>9, Bounds, Before,
             MakeKeeps
<1>3. ASSUME Return("error") \/ Return("again"), UNCHANGED outgoing
      PROVE  TlsInv'
  <2>1. stk' = <<>> /\ ret' \in {"error", "again"} /\ UNCHANGED <<setup, tcp, ssl, live, outgoing>>
    BY <1>1, <1>3 DEF Return
  <2>2. Calm(stk') /\ BaseOf(stk') # "hs_done"
    BY <2>1, EmptyTop
  <2> QED BY <1>1, <2>1, <2>2, QuietStack, SameIncoming, PassKeeps
<1> QED BY <1>2, <1>3 DEF Write

\* close(): the close alert is made, if it still can be.
LEMMA CloseKeeps ==
  ASSUME TlsInv, Close
  PROVE  TlsInv'
<1>1. /\ Quiet /\ UNCHANGED incoming /\ phase' = phase /\ ret' = "none"
      /\ setup' = setup /\ tcp' = tcp /\ ssl' = ssl /\ live' = live
      /\ \/ stk' = Pump \o <<"closed">>
         \/ stk' = <<>> \o <<"closed">>
  BY Zenon DEF Close, Start
<1>2. "closed" \in Bases
  BY DEF Bases
<1>3. Calm(stk') /\ BaseOf(stk') = "closed"
  BY <1>1, <1>2, Entries, Zenon
<1>4. chunk = <<>> /\ Base = "none" /\ ~Done
  BY <1>1, QuietStack
<1>5. InTypes'
  BY <1>1, SameIncoming
<1>6. CASE phase = "Established" /\ ssl # "broken"
  <2>1. Make(1)
    BY <1>6 DEF Close
  <2>2. ssl \in Up /\ made < MaxUnits
    BY <1>4, <1>6 DEF TlsInv, PhaseInv
  <2>3. OtherTypes'
    BY <1>1, TypeParts DEF TlsInv, OtherTypes
  <2>4. ssl \notin {"none", "new", "hello"}
    BY <2>2 DEF Up
  <2>5. made + 1 <= MaxUnits
    BY <2>2, Before, Bounds
  <2> QED BY <1>1, <1>3, <1>4, <1>5, <2>1, <2>2, <2>3, <2>4, <2>5, MakeKeeps
<1>7. CASE ~(phase = "Established" /\ ssl # "broken")
  <2>1. UNCHANGED <<setup, tcp, ssl, live, outgoing>>
    BY <1>1, <1>7 DEF Close
  <2> QED BY <1>1, <1>3, <1>4, <1>5, <2>1, PassKeeps
<1> QED BY <1>6, <1>7

\* A step of pump_in(), or of a close() that does not care: only what is read changes.
LEMMA PullKeeps ==
  ASSUME TlsInv, chunk = <<>>,
         UNCHANGED <<setup, phase, tcp, ssl, live, outgoing, ret>>, InTypes',
         NEW b \in Bases, Base = b, stk' \in Shapes(b), TopOf(stk') # "push", BaseOf(stk') = b,
         Done => Ends(stk')
  PROVE  TlsInv'
<1>1. /\ setup' = setup /\ tcp' = tcp /\ ssl' = ssl /\ live' = live /\ phase' = phase
      /\ ret' = ret /\ UNCHANGED <<setup, tcp, live, made, wbio, chunk, off, out>>
  BY DEF outgoing
<1>2. OtherTypes'
  BY <1>1, TypeParts DEF TlsInv, OtherTypes
<1>3. Calm(stk')
  BY DEF Calm
<1>4. phase' = "Established" \/ BaseOf(stk') = "hs_done" => ssl \in Up
  BY <1>1 DEF TlsInv, PhaseInv
<1> QED BY <1>1, <1>2, <1>3, <1>4, StayKeeps

\* pump_in(), up to the high-water mark of the read BIO.
LEMMA PumpInKeeps ==
  ASSUME TlsInv, stk # <<>>, setup' = setup, PumpIn
  PROVE  TlsInv'
<1>1. /\ Head(stk) = "pump_in" /\ readAny' = FALSE /\ stk' = <<"pull">> \o Tail(stk)
      /\ UNCHANGED <<setup, phase, tcp, ssl, live, outgoing, ret>>
      /\ eof' = eof /\ rbio' = rbio /\ plain' = plain
  BY DEF PumpIn
<1>2. Top = "pump_in" /\ chunk = <<>>
  BY <1>1, TopFrame, Before
<1>3. PICK b \in Bases : Moves(stk, b)
  BY <1>2, TopFrame
<1>4. /\ Base = b /\ stk' \in Shapes(b) /\ TopOf(stk') = "pull" /\ BaseOf(stk') = b
      /\ Done => Ends(stk')
  BY <1>1, <1>2, <1>3 DEF Moves, Base, Top, Done
<1>5. InTypes'
  <2>1. readAny' \in BOOLEAN
    BY <1>1, Zenon
  <2> QED BY <1>1, <2>1, TypeParts DEF TlsInv, InTypes
<1> QED BY <1>1, <1>2, <1>4, <1>5, PullKeeps

\* The socket has no more, or is gone.
LEMMA PullEndKeeps ==
  ASSUME TlsInv, stk # <<>>, setup' = setup, PullEnd
  PROVE  TlsInv'
<1>1. /\ Head(stk) = "pull" /\ eof' \in {eof, TRUE} /\ stk' = Tail(stk)
      /\ UNCHANGED <<setup, phase, tcp, ssl, live, outgoing, ret>>
      /\ readAny' = readAny /\ rbio' = rbio /\ plain' = plain
  BY Zenon DEF PullEnd
<1>2. Top = "pull" /\ chunk = <<>>
  BY <1>1, TopFrame, Before
<1>3. PICK b \in Bases : Moves(stk, b)
  BY <1>2, TopFrame
<1>4. /\ Base = b /\ stk' \in Shapes(b) /\ TopOf(stk') # "push" /\ BaseOf(stk') = b
      /\ Done => Ends(stk')
  BY <1>1, <1>2, <1>3 DEF Moves, Base, Top, Done
<1>5. InTypes'
  <2>1. eof \in BOOLEAN
    BY TypeParts DEF TlsInv, InTypes
  <2>2. eof' \in BOOLEAN
    BY <1>1, <2>1, Zenon
  <2> QED BY <1>1, <2>2, TypeParts DEF TlsInv, InTypes
<1> QED BY <1>1, <1>2, <1>4, <1>5, PullKeeps

\* The socket has more.
LEMMA PullMoreKeeps ==
  ASSUME TlsInv, stk # <<>>, setup' = setup, PullMore
  PROVE  TlsInv'
<1>1. /\ Head(stk) = "pull" /\ Len(rbio) < HighWater /\ stk' = stk /\ readAny' = TRUE
      /\ UNCHANGED <<setup, phase, tcp, ssl, live, outgoing, ret>>
      /\ eof' = eof /\ plain' = plain
  BY DEF PullMore
<1>2. PICK a \in Arrivals : rbio' = Whole(rbio) \o a
  BY DEF PullMore
<1>3. Top = "pull" /\ chunk = <<>>
  BY <1>1, TopFrame, Before
<1>4. PICK b \in Bases : stk \in Shapes(b)
  <2>1. stk # <<"handshake">>
    BY <1>3, <1>1
  <2> QED BY <2>1 DEF TlsInv, StackInv
<1>5. Moves(stk, b)
  BY <1>4, ShapeMoves
<1>6. /\ Base = b /\ stk' \in Shapes(b) /\ TopOf(stk') # "push" /\ BaseOf(stk') = b
      /\ Done => Ends(stk')
  BY <1>1, <1>3, <1>4, <1>5 DEF Moves, Base, Top, Done
<1>7. InTypes'
  <2>1. readAny' \in BOOLEAN
    BY <1>1, Zenon
  <2>2. rbio \in Seq(Kinds \cup {"part"}) /\ Len(rbio) \in Nat
    BY RestTypes
  <2>3. Whole(rbio) \in Seq(Kinds \cup {"part"}) /\ Len(Whole(rbio)) <= Len(rbio)
        /\ Len(Whole(rbio)) \in Nat
    BY <2>2, ErasedLength DEF Whole
  <2>4. a \in Seq(Kinds \cup {"part"}) /\ Len(a) <= MaxRead + 1 /\ Len(a) \in Nat
    BY ArrivalTypes
  <2>5. /\ rbio' \in Seq(Kinds \cup {"part"}) /\ Len(rbio') = Len(Whole(rbio)) + Len(a)
    BY <1>2, <2>3, <2>4, Concat, ZenonT(60)
  <2>6. Len(rbio') <= HighWater + MaxRead
    BY <1>1, <2>2, <2>3, <2>4, <2>5, Bounds
  <2> QED BY <1>1, <2>1, <2>5, <2>6, TypeParts DEF TlsInv, InTypes
<1> QED BY <1>1, <1>3, <1>6, <1>7, PullKeeps

\* A call that failed.
LEMMA DeadKeeps ==
  ASSUME TlsInv, stk # <<>>, setup' = setup, Dead
  PROVE  TlsInv'
<1>1. Head(stk) = "dead"
  BY DEF Dead
<1>2. Top = "dead" /\ chunk = <<>>
  BY <1>1, TopFrame, Before
<1>3. PICK b \in Bases : Moves(stk, b)
  BY <1>2, TopFrame
<1>4. Base = b /\ stk[2] = b /\ Tail(stk) = <<b>>
  BY <1>2, <1>3 DEF Moves, Base, Top
<1>5. CASE /\ stk[2] \in {"hs_done", "hs_again"}
           /\ Return("failed")
           /\ UNCHANGED <<phase, tcp, ssl, live, outgoing, incoming>>
  <2>1. /\ stk' = <<>> /\ ret' = "failed" /\ phase' = phase /\ UNCHANGED incoming
        /\ UNCHANGED <<setup, tcp, ssl, live, outgoing>>
    BY <1>5 DEF Return
  <2>2. Calm(stk') /\ BaseOf(stk') # "hs_done"
    BY <2>1, EmptyTop
  <2>3. Base # "closed" /\ ~Done
    BY <1>4, <1>5 DEF Done, Ends, Base
  <2> QED BY <1>2, <2>1, <2>2, <2>3, SameIncoming, PassKeeps
<1>6. CASE Fail /\ Return("error")
  BY <1>6, FailKeeps
<1>7. CASE /\ stk[2] = "closed"
           /\ stk' = Tail(stk)
           /\ UNCHANGED <<phase, tcp, ssl, live, outgoing, incoming, ret>>
  <2>1. UNCHANGED <<setup, phase, tcp, ssl, live, outgoing, ret>> /\ UNCHANGED incoming
    BY <1>7
  <2>2. stk' = <<b>> /\ b = "closed"
    BY <1>4, <1>7
  <2>3. stk' \in Shapes(b) /\ TopOf(stk') # "push" /\ BaseOf(stk') = b /\ Ends(stk')
    BY <2>2, Entries, Zenon DEF Calm, Shapes
  <2> QED BY <1>2, <1>4, <2>1, <2>3, SameIncoming, PullKeeps
<1> QED BY <1>5, <1>6, <1>7 DEF Dead

\* Where SSL_do_handshake() is called, pump_out() has nothing in hand.
LEMMA HandshakeTop ==
  ASSUME TlsInv, stk # <<>>, Head(stk) = "handshake"
  PROVE  chunk = <<>> /\ Base = "handshake" /\ ~Done
  BY TopFrame, Before

\* The handshake wants to read or to write.
LEMMA HandshakeWantsKeeps ==
  ASSUME TlsInv, stk # <<>>, setup' = setup, HandshakeWants
  PROVE  TlsInv'
<1>1. /\ Head(stk) = "handshake" /\ stk' = <<"pump_in", "pump_out", "hs_again">>
      /\ setup' = setup /\ phase' = phase /\ tcp' = tcp /\ live' = live /\ ret' = ret
      /\ eof' = eof /\ plain' = plain /\ readAny' = readAny
  BY DEF HandshakeWants
<1>2. chunk = <<>> /\ Base = "handshake" /\ ~Done
  BY <1>1, HandshakeTop
<1>3. "hs_again" \in Bases
  BY DEF Bases
<1>4. Calm(stk') /\ BaseOf(stk') = "hs_again"
  BY <1>1, <1>3, Entries, Zenon
<1>5. rbio' \in {rbio, <<>>} => InTypes'
  BY <1>1, TypeParts, RestTypes, Zenon DEF TlsInv, InTypes
<1>6. ssl' \in {"hello", ssl} => OtherTypes'
  BY <1>1, TypeParts DEF TlsInv, OtherTypes
<1>7. phase # "Established" \/ ssl \in Up
  BY DEF TlsInv, PhaseInv
<1>8. CASE ssl = "new" /\ ssl' = "hello" /\ Make(1) /\ UNCHANGED rbio
  <2>1. made = 0 /\ Len(wbio) = 0
    BY <1>8, EmptyOut DEF TlsInv, PhaseInv
  <2>2. phase # "Established"
    BY <1>7, <1>8 DEF Up
  <2>3. made + 1 <= MaxUnits /\ made + 1 + 2 <= MaxUnits /\ Len(wbio) + 1 <= Chunk
    BY <2>1, Bounds
  <2> QED BY <1>1, <1>2, <1>4, <1>5, <1>6, <1>8, <2>2, <2>3, MakeKeeps DEF Up
<1>9. CASE ssl = "hello" /\ rbio' = <<>> /\ UNCHANGED <<ssl, outgoing>>
  <2>1. UNCHANGED <<setup, tcp, ssl, live, outgoing>>
    BY <1>1, <1>9
  <2> QED BY <1>1, <1>2, <1>4, <1>5, <1>9, <2>1, PassKeeps
<1>10. CASE /\ ssl = "hello" /\ rbio # <<>> /\ wbio = <<>> /\ made + 3 <= MaxUnits
            /\ rbio' = <<>> /\ Make(1) /\ UNCHANGED ssl
  <2>1. phase # "Established"
    BY <1>7, <1>10 DEF Up
  <2>2. made + 1 <= MaxUnits /\ made + 1 + 2 <= MaxUnits /\ Len(wbio) + 1 <= Chunk
    BY <1>10, Before, Bounds, EmptyOut
  <2> QED BY <1>1, <1>2, <1>4, <1>5, <1>6, <1>10, <2>1, <2>2, MakeKeeps DEF Up
<1> QED BY <1>8, <1>9, <1>10 DEF HandshakeWants

\* The handshake is made.
LEMMA HandshakeDoneKeeps ==
  ASSUME TlsInv, stk # <<>>, setup' = setup, HandshakeDone
  PROVE  TlsInv'
<1>1. /\ Head(stk) = "handshake" /\ stk' = Pump \o <<"hs_done">>
      /\ setup' = setup /\ phase' = phase /\ tcp' = tcp /\ live' = live /\ ret' = ret
      /\ eof' = eof /\ plain' = plain /\ readAny' = readAny
  BY DEF HandshakeDone
<1>2. chunk = <<>> /\ Base = "handshake" /\ ~Done
  BY <1>1, HandshakeTop
<1>3. "hs_done" \in Bases
  BY DEF Bases
<1>4. Calm(stk') /\ BaseOf(stk') = "hs_done"
  BY <1>1, <1>3, Entries, Zenon
<1>5. CASE /\ ssl = "hello" /\ wbio = <<>> /\ ssl' = "up"
           /\ \E n \in 1 .. Len(rbio) : rbio' = SubSeq(rbio, n + 1, Len(rbio))
           /\ Make(1)
  <2>1. InTypes'
    BY <1>1, <1>5, TypeParts, RestTypes DEF TlsInv, InTypes
  <2>2. OtherTypes'
    BY <1>1, <1>5, TypeParts DEF TlsInv, OtherTypes
  <2>3. made + 2 <= MaxUnits
    BY <1>5 DEF TlsInv, PhaseInv
  <2>4. made + 1 <= MaxUnits /\ made + 1 < MaxUnits /\ Len(wbio) + 1 <= Chunk
    BY <1>5, <2>3, Before, Bounds, EmptyOut
  <2> QED BY <1>1, <1>2, <1>4, <1>5, <2>1, <2>2, <2>4, MakeKeeps DEF Up
<1>6. CASE ssl = "up" /\ UNCHANGED <<ssl, rbio, outgoing>>
  <2>1. UNCHANGED <<setup, tcp, ssl, live, outgoing>>
    BY <1>1, <1>6
  <2>2. InTypes'
    BY <1>1, <1>6, TypeParts DEF TlsInv, InTypes
  <2> QED BY <1>1, <1>2, <1>4, <1>6, <2>1, <2>2, PassKeeps DEF Up
<1> QED BY <1>5, <1>6 DEF HandshakeDone

\* The last step of a call that has pumped and decrypted what it could.
LEMMA ReturnKeeps ==
  ASSUME TlsInv, stk # <<>>, Head(stk) \in Bases \ {"closed"},
         UNCHANGED <<setup, tcp, live, outgoing>>, InTypes',
         ssl' = ssl \/ (ssl \in Up /\ ssl' \in Up),
         NEW r \in {"connecting", "open", "data", "written", "again", "eof", "error"}, Return(r),
         phase' = phase \/ (phase' = "Established" /\ ssl \in Up)
  PROVE  TlsInv'
<1>1. chunk = <<>> /\ Base # "closed" /\ ~Done
  BY TopFrame, Before DEF Bases
<1>2. stk' = <<>> /\ ret' = r
  BY DEF Return
<1>3. /\ setup' = setup /\ tcp' = tcp /\ live' = live
      /\ UNCHANGED <<setup, tcp, live, made, wbio, chunk, off, out>>
  BY DEF outgoing
<1>4. OtherTypes'
  BY <1>2, <1>3, TypeParts DEF TlsInv, OtherTypes, Up
<1>5. phase' = "Established" => ssl \in Up
  BY DEF TlsInv, PhaseInv
<1>6. Calm(stk') /\ BaseOf(stk') = "none"
  BY <1>2, EmptyTop
<1> QED BY <1>1, <1>3, <1>4, <1>5, <1>6, StayKeeps

\* poll_open() returns after its pumps.
LEMMA HandshakePumpedKeeps ==
  ASSUME TlsInv, stk # <<>>, setup' = setup, HandshakePumped
  PROVE  TlsInv'
<1>1. CASE /\ Head(stk) = "hs_done"
           /\ phase' = "Established" /\ Return("open")
           /\ UNCHANGED <<tcp, ssl, live, outgoing, incoming>>
  <2>1. Head(stk) \in Bases \ {"closed"} /\ Base = "hs_done"
    BY <1>1, TopFrame DEF Bases
  <2>2. ssl \in Up
    BY <2>1 DEF TlsInv, PhaseInv
  <2>3. UNCHANGED <<setup, tcp, live, outgoing>> /\ ssl' = ssl /\ UNCHANGED incoming
    BY <1>1
  <2> QED BY <1>1, <2>1, <2>2, <2>3, SameIncoming, ReturnKeeps
<1>2. CASE /\ Head(stk) = "hs_again"
           /\ IF readAny THEN stk' = <<"handshake">> /\ UNCHANGED ret ELSE Return("connecting")
           /\ UNCHANGED <<phase, tcp, ssl, live, outgoing, incoming>>
  <2>1. Head(stk) \in Bases \ {"closed"} /\ Base # "closed" /\ ~Done /\ chunk = <<>>
    BY <1>2, TopFrame, Before DEF Bases
  <2>2. /\ UNCHANGED <<setup, tcp, ssl, live, outgoing>> /\ UNCHANGED incoming /\ phase' = phase
    BY <1>2
  <2>3. /\ stk' \in {<<>>, <<"handshake">>} /\ ret' \in {ret, "connecting"}
    BY <1>2 DEF Return
  <2>4. Calm(stk') /\ BaseOf(stk') # "hs_done"
    BY <2>3, EmptyTop, HandshakeStack
  <2> QED BY <2>1, <2>2, <2>3, <2>4, SameIncoming, PassKeeps
<1> QED BY <1>1, <1>2 DEF HandshakePumped

\* SSL_read has data.
LEMMA ReadDataKeeps ==
  ASSUME TlsInv, stk # <<>>, setup' = setup, ReadData
  PROVE  TlsInv'
<1>1. /\ Head(stk) \in Bases \ {"closed"} /\ Return("data")
      /\ rbio' \in {rbio, Rest} /\ plain' \in BOOLEAN /\ eof' = eof /\ readAny' = readAny
      /\ UNCHANGED <<setup, tcp, live, outgoing>> /\ ssl' = ssl /\ phase' = phase
  BY DEF ReadData, Bases
<1>2. InTypes'
  BY <1>1, TypeParts, RestTypes DEF TlsInv, InTypes
<1> QED BY <1>1, <1>2, ReturnKeeps

\* SSL_read wants more, or has to write first.
LEMMA ReadWantsKeeps ==
  ASSUME TlsInv, stk # <<>>, setup' = setup, ReadWants
  PROVE  TlsInv'
<1>1. /\ Head(stk) = "ssl_read" /\ stk' = Pump \o <<"read_again">>
      /\ rbio' = <<>> /\ plain' = plain /\ eof' = eof /\ readAny' = readAny
      /\ UNCHANGED <<setup, tcp, ssl, live, outgoing>> /\ phase' = phase /\ ret' = ret
  BY DEF ReadWants
<1>2. InTypes'
  BY <1>1, TypeParts, RestTypes DEF TlsInv, InTypes
<1>3. "read_again" \in Bases /\ "ssl_read" \in Bases
  BY DEF Bases
<1>4. Calm(stk') /\ BaseOf(stk') = "read_again"
  BY <1>1, <1>3, Entries, Zenon
<1>5. chunk = <<>> /\ Base # "closed" /\ ~Done
  BY <1>1, <1>3, TopFrame, Before
<1> QED BY <1>1, <1>2, <1>4, <1>5, PassKeeps

\* SSL_read() finds the end, or what is no record.
LEMMA ReadOverKeeps ==
  ASSUME TlsInv, stk # <<>>, setup' = setup, ReadEnd \/ ReadError
  PROVE  TlsInv'
<1>1. /\ Head(stk) \in Bases \ {"closed"} /\ (Return("eof") \/ Return("error"))
      /\ rbio' \in {rbio, Rest} /\ plain' = plain /\ eof' = eof /\ readAny' = readAny
      /\ UNCHANGED <<setup, tcp, live, outgoing>> /\ phase' = phase
      /\ ssl \in Up /\ ssl' \in Up
  BY DEF ReadEnd, ReadError, Bases, Up
<1>2. InTypes'
  BY <1>1, TypeParts, RestTypes DEF TlsInv, InTypes
<1> QED BY <1>1, <1>2, ReturnKeeps

\* read() and write() return after the last pump.
LEMMA AnswerKeeps ==
  ASSUME TlsInv, stk # <<>>, setup' = setup, ReadAgain \/ Written
  PROVE  TlsInv'
<1>1. /\ Head(stk) \in Bases \ {"closed"} /\ (Return("again") \/ Return("written"))
      /\ UNCHANGED <<setup, tcp, live, outgoing>> /\ phase' = phase /\ ssl' = ssl
      /\ UNCHANGED incoming
  BY DEF ReadAgain, Written, Bases
<1> QED BY <1>1, SameIncoming, ReturnKeeps

\* close() ends: the SSL object and the socket go.
LEMMA ClosedKeeps ==
  ASSUME TlsInv, stk # <<>>, setup' = setup, Closed
  PROVE  TlsInv'
<1>1. /\ ssl' = "none" /\ live' = (IF ssl = "none" THEN live ELSE live - 1)
      /\ made' = 0 /\ wbio' = <<>> /\ chunk' = <<>> /\ off' = 0 /\ out' = <<>>
      /\ rbio' = <<>> /\ plain' = FALSE
      /\ tcp' = "closed" /\ phase' = "Closed" /\ eof' = eof /\ readAny' = readAny
      /\ stk' = <<>> /\ ret' = ret
  BY DEF Closed, Freed
<1>2. InTypes'
  <2>1. plain' \in BOOLEAN
    BY <1>1, Zenon
  <2> QED BY <1>1, <2>1, TypeParts, RestTypes DEF TlsInv, InTypes
<1>3. OtherTypes'
  <2>1. live' \in Nat
    BY <1>1, TypeParts DEF TlsInv, OtherTypes, PhaseInv
  <2> QED BY <1>1, <2>1, TypeParts DEF TlsInv, OtherTypes
<1> QED BY <1>1, <1>2, <1>3, EmptyTop, FreshKeeps

\* A new stream.
LEMMA TlsInit == Init => TlsInv
<1> SUFFICES ASSUME Init PROVE TlsInv
  OBVIOUS
<1> USE DEF Init
<1>1. Len(<<>>) = 0 /\ Elems(<<>>) = {} /\ \A S : <<>> \in Seq(S)
  BY EmptyOut
<1>2. TypeOK
  <2>1. eof \in BOOLEAN /\ plain \in BOOLEAN /\ readAny \in BOOLEAN
    BY Zenon
  <2>2. OutTypes /\ OtherTypes
    BY <1>1, Bounds DEF OutTypes, OtherTypes
  <2>3. InTypes
    BY <1>1, <2>1, Bounds DEF InTypes
  <2> QED BY <2>2, <2>3, TypeParts
<1>3. StackInv
  BY EmptyTop DEF StackInv, Top
<1>4. PhaseInv
  BY EmptyTop DEF PhaseInv, Base, Up
<1>5. FlowInv /\ OrderInv
  BY <1>1 DEF FlowInv, OrderInv, Connected
<1> QED BY <1>2, <1>3, <1>4, <1>5 DEF TlsInv

\* Every step keeps the invariant.
LEMMA TlsStep == TlsInv /\ [Next]_vars => TlsInv'
<1> SUFFICES ASSUME TlsInv, [Next]_vars PROVE TlsInv'
  OBVIOUS
<1>1. CASE Step
  <2>1. stk # <<>> /\ setup' = setup
    BY <1>1 DEF Step
  <2>2. \/ PumpOut \/ PushSome \/ PushBlocked \/ PumpFails \/ PumpIn \/ PullMore \/ PullEnd
        \/ Dead
        \/ HandshakeWants \/ HandshakeDone \/ HandshakeError \/ HandshakePumped
        \/ ReadData \/ ReadWants \/ ReadAgain \/ ReadEnd \/ ReadError
        \/ Written \/ Closed
    BY <1>1 DEF Step
  <2>3. CASE PumpOut BY <2>1, <2>3, PumpOutKeeps
  <2>4. CASE PushSome BY <2>1, <2>4, PushSomeKeeps
  <2>5. CASE PushBlocked BY <2>1, <2>5, PushBlockedKeeps
  <2>6. CASE PumpFails BY <2>1, <2>6, PumpFailsKeeps
  <2>7. CASE PumpIn BY <2>1, <2>7, PumpInKeeps
  <2>8. CASE PullMore BY <2>1, <2>8, PullMoreKeeps
  <2>9. CASE PullEnd BY <2>1, <2>9, PullEndKeeps
  <2>10. CASE Dead BY <2>1, <2>10, DeadKeeps
  <2>11. CASE HandshakeWants BY <2>1, <2>11, HandshakeWantsKeeps
  <2>12. CASE HandshakeDone BY <2>1, <2>12, HandshakeDoneKeeps
  <2>13. CASE HandshakeError BY <2>1, <2>13, FailKeeps DEF HandshakeError
  <2>14. CASE HandshakePumped BY <2>1, <2>14, HandshakePumpedKeeps
  <2>15. CASE ReadData BY <2>1, <2>15, ReadDataKeeps
  <2>16. CASE ReadWants BY <2>1, <2>16, ReadWantsKeeps
  <2>17. CASE ReadEnd \/ ReadError BY <2>1, <2>17, ReadOverKeeps
  <2>18. CASE ReadAgain \/ Written BY <2>1, <2>18, AnswerKeeps
  <2>19. CASE Closed BY <2>1, <2>19, ClosedKeeps
  <2> QED BY <2>2, <2>3, <2>4, <2>5, <2>6, <2>7, <2>8, <2>9, <2>10, <2>11, <2>12, <2>13,
             <2>14, <2>15, <2>16, <2>17, <2>18, <2>19
<1>2. CASE Connect BY <1>2, ConnectKeeps
<1>3. CASE PollTcp BY <1>3, PollTcpKeeps
<1>4. CASE PollOpen BY <1>4, PollOpenKeeps
<1>5. CASE Read BY <1>5, ReadKeeps
<1>6. CASE Write BY <1>6, WriteKeeps
<1>7. CASE Close BY <1>7, CloseKeeps
<1>8. CASE UNCHANGED vars
  <2>1. /\ setup' = setup /\ phase' = phase /\ tcp' = tcp /\ eof' = eof /\ ssl' = ssl
        /\ live' = live /\ made' = made /\ wbio' = wbio /\ chunk' = chunk /\ off' = off
        /\ out' = out /\ rbio' = rbio /\ plain' = plain /\ readAny' = readAny /\ ret' = ret
        /\ stk' = stk
    BY <1>8 DEF vars
  <2>2. TypeOK'
    BY <2>1 DEF TlsInv, TypeOK
  <2>3. StackInv' /\ PhaseInv'
    BY <2>1 DEF TlsInv, StackInv, PhaseInv, Top, Base
  <2>4. FlowInv' /\ OrderInv'
    BY <2>1 DEF TlsInv, FlowInv, OrderInv, Connected, Left, InHand, Base, Done
  <2> QED BY <2>2, <2>3, <2>4 DEF TlsInv
<1> QED BY <1>1, <1>2, <1>3, <1>4, <1>5, <1>6, <1>7, <1>8 DEF Next

\* The stream's invariant, for every size of chunk, read and high-water mark.
THEOREM StreamInvariant == Spec => []TlsInv
  BY TlsInit, TlsStep, PTL DEF Spec

\* The flow of ciphertext says that none is lost.
LEMMA FlowAll == TlsInv => NoLoss
<1> SUFFICES ASSUME TlsInv PROVE NoLoss
  OBVIOUS
<1> DEFINE tail == SubSeq(chunk, off + 1, Len(chunk))
           all  == out \o tail \o wbio
<1> SUFFICES ASSUME Connected
             PROVE  Len(all) = made /\ Elems(all) = 1 .. made
  BY Zenon DEF TlsInv, NoLoss, Connected, Elems
<1>1. /\ Len(out) + Left + Len(wbio) = made
      /\ Elems(out) \cup InHand \cup Elems(wbio) = 1 .. made
  BY DEF TlsInv, FlowInv
<1>2. tail \in Seq(Units) /\ Len(tail) = Left /\ Elems(tail) = InHand
  <2>1. CASE Top = "push"
    <3>1. chunk \in Seq(Units) /\ off \in 0 .. Len(chunk) /\ Left = Len(chunk) - off
      BY <2>1, Before
    <3>2. /\ tail \in Seq(Units) /\ Len(tail) = Len(chunk) - off
          /\ Elems(tail) = {chunk[i] : i \in off + 1 .. Len(chunk)}
      BY <3>1, Suffix
    <3> QED BY <3>1, <3>2 DEF InHand
  <2>2. CASE Top # "push"
    <3>1. chunk = <<>> /\ Left = 0 /\ InHand = {} /\ off \in Nat /\ Len(chunk) = 0
      BY <2>2, Before, EmptyOut
    <3>2. tail = <<>>
      BY <3>1
    <3> QED BY <3>1, <3>2, EmptyOut, Zenon
  <2> QED BY <2>1, <2>2
<1> HIDE DEF tail
<1>3. /\ out \o tail \in Seq(Units) /\ Len(out \o tail) = Len(out) + Left
      /\ Elems(out \o tail) = Elems(out) \cup InHand
  <2>1. out \in Seq(Units)
    BY Before
  <2>2. tail \in Seq(Units)
    BY <1>2
  <2>3. /\ out \o tail \in Seq(Units) /\ Len(out \o tail) = Len(out) + Len(tail)
        /\ Elems(out \o tail) = Elems(out) \cup Elems(tail)
    BY <2>1, <2>2, Concat, ZenonT(60)
  <2> QED BY <1>2, <2>3
<1>4. /\ Len(all) = Len(out \o tail) + Len(wbio)
      /\ Elems(all) = Elems(out \o tail) \cup Elems(wbio)
  <2>1. wbio \in Seq(Units)
    BY Before
  <2> DEFINE front == out \o tail
  <2>2. front \in Seq(Units)
    BY <1>3
  <2> HIDE DEF front
  <2>3. /\ Len(front \o wbio) = Len(front) + Len(wbio)
        /\ Elems(front \o wbio) = Elems(front) \cup Elems(wbio)
    BY <2>1, <2>2, Concat
  <2> QED BY <2>3 DEF front
<1> HIDE DEF all
<1> QED BY <1>1, <1>3, <1>4

\* While a connection lasts, every unit of ciphertext OpenSSL made is on the
\* socket or still held, once: a socket that takes a part of a chunk, or none of
\* it, loses nothing and sends nothing twice.
THEOREM StreamNoLoss == Spec => []NoLoss
  BY StreamInvariant, FlowAll, PTL

\* The peer gets the ciphertext in the order it was made, unless more than a
\* chunk is made while nothing is taken: what pump_out() puts back then goes
\* behind what is left in the BIO.
THEOREM StreamInOrder == Spec => []InOrderUnlessBursts
<1>1. TlsInv => InOrderUnlessBursts
  BY DEF TlsInv, OrderInv, InOrderUnlessBursts, InOrder
<1> QED BY <1>1, StreamInvariant, PTL

\* Every SSL object but the current one was freed, wherever the handshake or the
\* connection ended, if the owner closes the stream before it connects it again.
THEOREM StreamNoSslLeak == Spec => []NoSslLeak
<1>1. TlsInv => NoSslLeak
  BY DEF TlsInv, PhaseInv, NoSslLeak
<1> QED BY <1>1, StreamInvariant, PTL
=============================================================================
