-------------------------- MODULE LineReaderProofs --------------------------
(***************************************************************************)
(* The receive ring is large enough for every host that counts characters, *)
(* for every size of ring and line: what the ring and the data register    *)
(* hold is the end of what the host has on its books, and what is before   *)
(* it on the books belongs to the line being assembled or executed.        *)
(***************************************************************************)
EXTENDS LineReader, SequenceTheorems, WellFoundedInduction, TLAPS

\* Characters that the main loop has taken off the ring, of those on the host's books.
Arriving == IF dr \in Alphabet THEN 1 ELSE 0
Taken == Len(pending) - Len(rx) - Arriving

\* The main loop has an end of line in hand.
AtEnd == pc \in {"eol", "execute"}

\* The ring and the data register are the end of the books, unless they are to be thrown away.
Discards == pc \in {"abort", "clear", "welcome"}
RingOnBooks ==
  /\ Taken \in Nat
  /\ \A i \in 1..Len(rx) : rx[i] = pending[Taken + i]
  /\ dr \in Alphabet => pending[Len(pending)] = dr
LineOnBooks ==
  /\ AtEnd => Taken >= 1 /\ pending[Taken] = "eol"
  /\ ~Discards => \A i \in 1..Taken : (AtEnd => i < Taken) => pending[i] # "eol"
ResetWaits ==
  /\ dr = "reset" \/ reset \/ Discards => waiting
  /\ reset => dr = "none"
  /\ pc = "abort" => reset
  /\ pc \in {"clear", "welcome"} => dr = "none" /\ ~reset
  /\ pc = "welcome" => rx = <<>>
ReadsHead ==
  /\ pc = "consume" => rx # <<>> /\ c = Head(rx)
  /\ pc # "consume" => c = "none"

IInv == TypeOK /\ RingOnBooks /\ LineOnBooks /\ ResetWaits /\ ReadsHead

-----------------------------------------------------------------------------
(* Types *)

LEMMA InitType == Init => TypeOK
<1> SUFFICES ASSUME Init PROVE TypeOK
  OBVIOUS
<1>1. pending \in Seq(Alphabet) /\ rx \in Seq(Alphabet) /\ line \in Seq({"G", "close"})
      /\ Len(pending) = 0 /\ Len(rx) = 0 /\ Len(line) = 0
  BY EmptySeq DEF Init
<1>2. 0 <= RX_BUFFER_SIZE /\ 0 < LINE_BUFFER_SIZE
  BY ReaderAssumption DEF ReaderAssumption
<1>3. line_flags \in SUBSET {"open", "semicolon", "OVERFLOW"}
  BY DEF Init
<1>4. waiting \in BOOLEAN /\ reset \in BOOLEAN
  BY DEF Init
<1> QED
  BY <1>1, <1>2, <1>3, <1>4 DEF Init, TypeOK

LEMMA SendType ==
  ASSUME TypeOK, NEW x \in Alphabet, Send(x)
  PROVE  TypeOK'
<1>1. pending' \in Seq(Alphabet) /\ Len(pending') = Len(pending) + 1
  BY DEF Send, TypeOK
<1>2. Len(pending') <= RX_BUFFER_SIZE
  BY <1>1, ReaderAssumption DEF ReaderAssumption, Send, TypeOK
<1> QED
  BY <1>1, <1>2 DEF Send, Arrive, lineVars, TypeOK

LEMMA SendResetType == TypeOK /\ SendReset => TypeOK'
  BY DEF SendReset, Arrive, lineVars, TypeOK

LEMMA RxIsrType == TypeOK /\ RxIsr => TypeOK'
<1> SUFFICES ASSUME TypeOK, RxIsr PROVE TypeOK'
  OBVIOUS
<1>1. CASE dr \in Alphabet /\ ~Full /\ rx' = Append(rx, dr)
  <2>1. rx' \in Seq(Alphabet) /\ Len(rx') = Len(rx) + 1
    BY <1>1 DEF TypeOK
  <2>2. Len(rx) + 1 <= RX_BUFFER_SIZE
    BY <1>1, ReaderAssumption DEF ReaderAssumption, Full, TypeOK
  <2> QED
    BY <1>1, <2>1, <2>2 DEF RxIsr, hostVars, lineVars, TypeOK
<1>2. CASE UNCHANGED rx
  BY <1>2 DEF RxIsr, hostVars, lineVars, TypeOK
<1> QED
  BY <1>1, <1>2 DEF RxIsr, TypeOK

\* Only letters and closing brackets get into the line.
LEMMA FilterType ==
  ASSUME TypeOK, c \in Alphabet, c # "eol", Filter
  PROVE  /\ line' \in Seq({"G", "close"}) /\ Len(line') < LINE_BUFFER_SIZE
         /\ line_flags' \in SUBSET {"open", "semicolon", "OVERFLOW"}
<1>1. CASE line_flags # {}
  BY <1>1 DEF Filter, TypeOK
<1>2. CASE line_flags = {} /\ c \in {"space", "open", "semicolon"}
  BY <1>2 DEF Filter, TypeOK, lineVars
<1>3. CASE line_flags = {} /\ c \notin {"space", "open", "semicolon"}
  <2>1. Upcase(c) \in {"G", "close"}
    BY <1>3, ReaderAssumption DEF ReaderAssumption, Letters, Upcase
  <2>2. IF Len(line) >= LINE_BUFFER_SIZE - 1 THEN line_flags' = {"OVERFLOW"} /\ UNCHANGED line
        ELSE line' = Append(line, Upcase(c)) /\ UNCHANGED line_flags
    BY <1>3 DEF Filter
  <2>3. CASE Len(line) >= LINE_BUFFER_SIZE - 1
    BY <2>2, <2>3 DEF TypeOK
  <2>4. CASE Len(line) < LINE_BUFFER_SIZE - 1
    <3>1. line' = Append(line, Upcase(c)) /\ line_flags' = line_flags
      BY <2>2, <2>4, ReaderAssumption DEF ReaderAssumption, TypeOK
    <3>2. line' \in Seq({"G", "close"}) /\ Len(line') = Len(line) + 1
      BY <2>1, <3>1 DEF TypeOK
    <3> QED
      BY <2>4, <3>1, <3>2, ReaderAssumption DEF ReaderAssumption, TypeOK
  <2> QED
    BY <2>3, <2>4, ReaderAssumption DEF ReaderAssumption, TypeOK
<1> QED
  BY <1>1, <1>2, <1>3

\* When a line is executed, what the main loop has taken is the host's first unanswered line.
LEMMA TakenIsLine ==
  ASSUME TypeOK, RingOnBooks, LineOnBooks, pc = "execute"
  PROVE  Taken \in 1..Len(pending) /\ Ends # {} /\ FirstEnd = Taken
<1>1. Taken \in 1..Len(pending) /\ pending[Taken] = "eol"
  BY DEF TypeOK, RingOnBooks, LineOnBooks, AtEnd, Arriving, Taken
<1>2. \A i \in 1..Len(pending) : i < Taken => pending[i] # "eol"
  BY <1>1 DEF LineOnBooks, AtEnd, Discards
<1>3. Taken \in Ends /\ \A j \in Ends : Taken <= j
  BY <1>1, <1>2 DEF Ends, TypeOK
<1>4. \A i \in Ends : (\A j \in Ends : i <= j) => i = Taken
  BY <1>3 DEF Ends, TypeOK
<1> QED
  BY <1>1, <1>3, <1>4 DEF FirstEnd

LEMMA DropIsRest ==
  ASSUME TypeOK, RingOnBooks, LineOnBooks, pc = "execute"
  PROVE  /\ Drop \in Seq(Alphabet) /\ Len(Drop) = Len(pending) - Taken
         /\ \A i \in 1..Len(Drop) : Drop[i] = pending[Taken + i]
<1>1. Taken \in 1..Len(pending) /\ Drop = SubSeq(pending, Taken + 1, Len(pending))
  BY TakenIsLine DEF Drop
<1>2. \A i \in Taken + 1 .. Len(pending) : pending[i] \in Alphabet
  BY <1>1 DEF TypeOK
<1>3. Len(pending) \in Nat
  BY DEF TypeOK
<1>4. /\ Drop \in Seq(Alphabet)
      /\ Len(Drop) = IF Taken + 1 <= Len(pending) THEN Len(pending) - (Taken + 1) + 1 ELSE 0
      /\ \A i \in 1 .. Len(pending) - (Taken + 1) + 1 : Drop[i] = pending[Taken + 1 + i - 1]
  BY <1>1, <1>2, <1>3, SubSeqProperties
<1> QED
  BY <1>1, <1>3, <1>4

LEMMA MainType == IInv /\ Main => TypeOK'
<1> SUFFICES ASSUME TypeOK, RingOnBooks, LineOnBooks, ReadsHead, Main PROVE TypeOK'
  BY DEF IInv
<1> USE DEF hostVars, lineVars
<1>1. CASE Read
  BY <1>1 DEF Read, TypeOK
<1>2. CASE Consume
  <2>1. c \in Alphabet /\ rx' \in Seq(Alphabet) /\ Len(rx') <= RX_BUFFER_SIZE
    BY <1>2, HeadTailProperties, ReaderAssumption DEF ReaderAssumption, Consume, ReadsHead, TypeOK
  <2>2. /\ line' \in Seq({"G", "close"}) /\ Len(line') < LINE_BUFFER_SIZE
        /\ line_flags' \in SUBSET {"open", "semicolon", "OVERFLOW"}
    <3>1. CASE c = "eol"
      BY <1>2, <3>1 DEF Consume, TypeOK
    <3>2. CASE c # "eol"
      BY <1>2, <2>1, <3>2, FilterType DEF Consume
    <3> QED
      BY <3>1, <3>2
  <2> QED
    BY <1>2, <2>1, <2>2 DEF Consume, TypeOK
<1>3. CASE EndOfLine
  BY <1>3 DEF EndOfLine, TypeOK
<1>4. CASE NoMore
  BY <1>4 DEF NoMore, TypeOK
<1>5. CASE Execute
  <2>1. Drop \in Seq(Alphabet) /\ Len(Drop) <= RX_BUFFER_SIZE
    BY <1>5, DropIsRest, TakenIsLine, ReaderAssumption DEF ReaderAssumption, Execute, TypeOK
  <2> QED
    BY <1>5, <2>1, ReaderAssumption DEF ReaderAssumption, Execute, TypeOK
<1>6. CASE ClearFlags
  BY <1>6 DEF ClearFlags, TypeOK
<1>7. CASE ResetReadBuffer
  BY <1>7, ReaderAssumption DEF ReaderAssumption, ResetReadBuffer, TypeOK
<1>8. CASE Welcome
  <2>1. pending' \in Seq(Alphabet) /\ line' \in Seq({"G", "close"}) /\ Len(pending') = 0 /\ Len(line') = 0
    BY <1>8, EmptySeq DEF Welcome
  <2>2. 0 <= RX_BUFFER_SIZE /\ 0 < LINE_BUFFER_SIZE
    BY ReaderAssumption DEF ReaderAssumption
  <2>3. line_flags' \in SUBSET {"open", "semicolon", "OVERFLOW"} /\ waiting' \in BOOLEAN
    BY <1>8 DEF Welcome
  <2> QED
    BY <1>8, <2>1, <2>2, <2>3 DEF Welcome, TypeOK
<1> QED
  BY <1>1, <1>2, <1>3, <1>4, <1>5, <1>6, <1>7, <1>8 DEF Main

-----------------------------------------------------------------------------
(* What is on the books *)

LEMMA InitBooks == Init => RingOnBooks /\ LineOnBooks /\ ResetWaits /\ ReadsHead
  BY ReaderAssumption DEF ReaderAssumption, Letters, Init, RingOnBooks, LineOnBooks, ResetWaits, ReadsHead,
     Taken, Arriving, AtEnd, Discards

LEMMA NotCharacters == "none" \notin Alphabet /\ "reset" \notin Alphabet
  BY ReaderAssumption DEF ReaderAssumption, Letters

LEMMA SendBooks ==
  ASSUME IInv, NEW x \in Alphabet, Send(x)
  PROVE  RingOnBooks' /\ LineOnBooks' /\ ResetWaits' /\ ReadsHead'
<1> USE DEF IInv, Send, Arrive, lineVars
<1>1. Arriving = 0 /\ Arriving' = 1 /\ dr' = x /\ dr = "none"
  BY NotCharacters DEF Arriving
<1>2. pending' \in Seq(Alphabet) /\ Len(pending') = Len(pending) + 1 /\ pending'[Len(pending) + 1] = x
      /\ \A i \in 1..Len(pending) : pending'[i] = pending[i]
  BY DEF TypeOK
<1>3. Taken' = Taken
  BY <1>1, <1>2 DEF Taken, TypeOK
<1>4. RingOnBooks'
  BY <1>1, <1>2, <1>3 DEF RingOnBooks, Taken, TypeOK
<1>5. LineOnBooks'
  BY <1>1, <1>2, <1>3 DEF LineOnBooks, RingOnBooks, Taken, AtEnd, Discards, TypeOK
<1>6. ResetWaits' /\ ReadsHead'
  BY <1>1, NotCharacters DEF ResetWaits, ReadsHead, Discards
<1> QED
  BY <1>4, <1>5, <1>6

LEMMA SendResetBooks ==
  ASSUME IInv, SendReset
  PROVE  RingOnBooks' /\ LineOnBooks' /\ ResetWaits' /\ ReadsHead'
<1> USE DEF IInv, SendReset, Arrive, lineVars
<1>1. Arriving = 0 /\ Arriving' = 0 /\ Taken' = Taken
  BY NotCharacters DEF Arriving, Taken
<1> QED
  BY <1>1, NotCharacters DEF RingOnBooks, LineOnBooks, ResetWaits, ReadsHead, AtEnd, Discards

\* The character moves from the data register to the ring, which has room for it.
LEMMA Room == IInv => (dr \in Alphabet => ~Full)
  BY DEF IInv, TypeOK, RingOnBooks, Taken, Arriving, Full

LEMMA RxIsrBooks ==
  ASSUME IInv, RxIsr
  PROVE  RingOnBooks' /\ LineOnBooks' /\ ResetWaits' /\ ReadsHead'
<1> USE DEF IInv, RxIsr, hostVars, lineVars
<1>0. Arriving' = 0
  BY NotCharacters DEF Arriving
<1>1. CASE dr = "reset"
  <2>1. Taken' = Taken
    BY <1>0, <1>1, NotCharacters DEF Arriving, Taken
  <2> QED
    BY <1>1, <2>1, NotCharacters DEF RingOnBooks, LineOnBooks, ResetWaits, ReadsHead, AtEnd, Discards
<1>2. CASE dr \in Alphabet
  <2>1. rx' = Append(rx, dr) /\ UNCHANGED reset
    BY <1>2, Room, NotCharacters
  <2>2. Len(rx') = Len(rx) + 1 /\ rx'[Len(rx) + 1] = dr /\ \A i \in 1..Len(rx) : rx'[i] = rx[i]
    BY <1>2, <2>1 DEF TypeOK
  <2>3. Taken' = Taken
    BY <1>0, <1>2, <2>2 DEF Arriving, Taken, TypeOK
  <2>4. RingOnBooks'
    <3>1. Taken + Len(rx) + 1 = Len(pending) /\ pending[Len(pending)] = dr
      BY <1>2 DEF RingOnBooks, Taken, Arriving, TypeOK
    <3>2. \A i \in 1..Len(rx') : i = Len(rx) + 1 \/ i \in 1..Len(rx)
      BY <2>2 DEF TypeOK
    <3>3. ASSUME NEW i \in 1..Len(rx') PROVE rx'[i] = pending[Taken + i]
      <4>1. CASE i = Len(rx) + 1
        <5>1. Taken \in Nat /\ Len(rx) \in Nat
          BY DEF RingOnBooks, TypeOK
        <5>2. Taken + i = Len(pending)
          BY <3>1, <4>1, <5>1
        <5> QED
          BY <2>2, <3>1, <4>1, <5>2
      <4>2. CASE i \in 1..Len(rx)
        BY <2>2, <4>2 DEF RingOnBooks
      <4> QED
        BY <3>2, <4>1, <4>2
    <3>4. dr' \notin Alphabet
      BY NotCharacters
    <3> QED
      BY <2>3, <3>3, <3>4 DEF RingOnBooks
  <2>5. LineOnBooks'
    BY <2>3 DEF LineOnBooks, AtEnd, Discards
  <2>6. ResetWaits'
    BY <1>2, <2>1, NotCharacters DEF ResetWaits, Discards
  <2>7. ReadsHead'
    BY <2>1, <2>2 DEF ReadsHead, TypeOK
  <2> QED
    BY <2>4, <2>5, <2>6, <2>7
<1> QED
  BY <1>1, <1>2 DEF TypeOK

LEMMA ConsumeBooks ==
  ASSUME IInv, Consume
  PROVE  RingOnBooks' /\ LineOnBooks' /\ ResetWaits' /\ ReadsHead'
<1> USE DEF IInv, Consume, hostVars, lineVars
<1>1. rx # <<>> /\ rx \in Seq(Alphabet) /\ c = rx[1]
  BY DEF ReadsHead, TypeOK
<1>2. Len(rx') = Len(rx) - 1 /\ \A i \in 1..Len(rx') : rx'[i] = rx[i + 1]
  BY <1>1, HeadTailProperties
<1>3. Taken' = Taken + 1 /\ Taken \in Nat /\ Arriving' = Arriving
  BY <1>1, <1>2 DEF Taken, Arriving, RingOnBooks, TypeOK
<1>4. c = pending[Taken + 1]
  BY <1>1, EmptySeq DEF RingOnBooks, TypeOK
<1>5. RingOnBooks'
  BY <1>1, <1>2, <1>3 DEF RingOnBooks, TypeOK
<1>6. LineOnBooks'
  BY <1>3, <1>4 DEF LineOnBooks, AtEnd, Discards
<1>7. ResetWaits' /\ ReadsHead'
  BY DEF ResetWaits, ReadsHead, Discards
<1> QED
  BY <1>5, <1>6, <1>7

LEMMA ExecuteBooks ==
  ASSUME IInv, Execute
  PROVE  RingOnBooks' /\ LineOnBooks' /\ ResetWaits' /\ ReadsHead'
<1> USE DEF IInv, Execute
<1>1. Taken \in 1..Len(pending) /\ Len(pending') = Len(pending) - Taken
      /\ \A i \in 1..Len(pending') : pending'[i] = pending[Taken + i]
  BY TakenIsLine, DropIsRest
<1>2. Taken' = 0 /\ Arriving' = Arriving /\ Len(pending') = Len(rx) + Arriving
  BY <1>1 DEF Taken, Arriving, TypeOK
<1>3. RingOnBooks'
  <2>1. rx' = rx /\ dr' = dr /\ Len(rx) \in Nat /\ Len(pending) \in Nat /\ Arriving \in {0, 1}
        /\ (dr \in Alphabet => Arriving = 1)
    BY DEF TypeOK, Arriving
  <2>2. ASSUME NEW i \in 1..Len(rx) PROVE rx[i] = pending'[Taken' + i]
    <3>1. i \in 1..Len(pending') /\ Taken' + i = i
      BY <1>2, <2>1, <2>2
    <3>2. pending'[i] = pending[Taken + i]
      BY <1>1, <3>1
    <3> QED
      BY <3>1, <3>2 DEF RingOnBooks
  <2>3. ASSUME dr \in Alphabet PROVE pending'[Len(pending')] = dr
    <3>1. Len(pending') \in 1..Len(pending') /\ Taken + Len(pending') = Len(pending)
      BY <1>1, <1>2, <2>1, <2>3
    <3>2. pending'[Len(pending')] = pending[Taken + Len(pending')]
      BY <1>1, <3>1
    <3> QED
      BY <2>3, <3>1, <3>2 DEF RingOnBooks
  <2> QED
    BY <1>2, <2>1, <2>2, <2>3 DEF RingOnBooks
<1>4. LineOnBooks' /\ ResetWaits' /\ ReadsHead'
  BY <1>2 DEF LineOnBooks, ResetWaits, ReadsHead, AtEnd, Discards
<1> QED
  BY <1>3, <1>4

LEMMA MainBooks ==
  ASSUME IInv, Main
  PROVE  RingOnBooks' /\ LineOnBooks' /\ ResetWaits' /\ ReadsHead'
<1> USE DEF IInv, hostVars, lineVars
<1>1. CASE Read
  BY <1>1 DEF Read, RingOnBooks, LineOnBooks, ResetWaits, ReadsHead, Taken, Arriving, AtEnd, Discards
<1>2. CASE Consume
  BY <1>2, ConsumeBooks
<1>3. CASE EndOfLine
  BY <1>3 DEF EndOfLine, RingOnBooks, LineOnBooks, ResetWaits, ReadsHead, Taken, Arriving, AtEnd, Discards
<1>4. CASE NoMore
  BY <1>4 DEF NoMore, RingOnBooks, LineOnBooks, ResetWaits, ReadsHead, Taken, Arriving, AtEnd, Discards
<1>5. CASE Execute
  BY <1>5, ExecuteBooks
<1>6. CASE ClearFlags
  BY <1>6 DEF ClearFlags, RingOnBooks, LineOnBooks, ResetWaits, ReadsHead, Taken, Arriving, AtEnd, Discards
<1>7. CASE ResetReadBuffer
  BY <1>7, NotCharacters
     DEF ResetReadBuffer, RingOnBooks, LineOnBooks, ResetWaits, ReadsHead, Taken, Arriving, AtEnd, Discards, TypeOK
<1>8. CASE Welcome
  BY <1>8, NotCharacters
     DEF Welcome, RingOnBooks, LineOnBooks, ResetWaits, ReadsHead, Taken, Arriving, AtEnd, Discards
<1> QED
  BY <1>1, <1>2, <1>3, <1>4, <1>5, <1>6, <1>7, <1>8 DEF Main

-----------------------------------------------------------------------------
(* Induction, over a set of numbers, and functions defined by recursion *)

\* Every set of numbers that is not empty has a least element.
LEMMA LeastNumber ==
  ASSUME NEW S \in SUBSET Nat, S # {}
  PROVE  \E m \in S : \A n \in S : m <= n
<1> DEFINE R == OpToRel(<, Nat)
<1>1. IsWellFoundedOn(R, Nat)
  BY NatLessThanWellFounded
<1>2. \A n, m \in Nat : n < m => <<n, m>> \in R
  BY DEF OpToRel
<1> HIDE DEF R
<1>3. PICK m \in S : \A n \in S : ~(<<n, m>> \in R)
  BY <1>1, WFMin
<1>4. \A n \in S : ~(n < m)
  BY <1>2, <1>3
<1> QED
  BY <1>4

\* A set with 0 and with the successor of every number in it has all numbers.
LEMMA Induction ==
  ASSUME NEW S, 0 \in S, \A n \in Nat : n \in S => n + 1 \in S
  PROVE  \A n \in Nat : n \in S
<1> DEFINE T == {n \in Nat : n \notin S}
<1> SUFFICES ASSUME T # {} PROVE FALSE
  OBVIOUS
<1>1. PICK m \in T : \A n \in T : m <= n
  BY LeastNumber
<1>2. m \in Nat /\ m # 0 /\ m - 1 \in Nat
  BY <1>1
<1>3. m - 1 \in S
  BY <1>1, <1>2
<1> QED
  BY <1>1, <1>2, <1>3

\* f is made by recursion up to n: its value at 0 is base, and each other one a step from the
\* one before it.
StepsOn(D) == [Nat -> [D -> D]]
Made(f, D, base, step, n) == f \in [0..n -> D] /\ f[0] = base /\ \A i \in 1..n : f[i] = step[i][f[i - 1]]
MadeForAll(f, D, base, step) == f \in [Nat -> D] /\ f[0] = base /\ \A i \in Nat \ {0} : f[i] = step[i][f[i - 1]]

LEMMA RecursionUpTo ==
  ASSUME NEW D, NEW base \in D, NEW step \in StepsOn(D), NEW n \in Nat
  PROVE  \E f : Made(f, D, base, step, n)
<1> DEFINE S == {k \in Nat : \E f : Made(f, D, base, step, k)}
<1>1. 0 \in S
  <2>1. Made([i \in 0..0 |-> base], D, base, step, 0)
    BY DEF Made
  <2> QED
    BY <2>1
<1>2. ASSUME NEW k \in Nat, k \in S PROVE k + 1 \in S
  <2>1. PICK f : Made(f, D, base, step, k)
    BY <1>2
  <2> DEFINE g == [i \in 0..k + 1 |-> IF i = k + 1 THEN step[k + 1][f[k]] ELSE f[i]]
  <2>2. step[k + 1][f[k]] \in D
    BY <2>1 DEF Made, StepsOn
  <2>3. g \in [0..k + 1 -> D]
    BY <2>1, <2>2 DEF Made
  <2>4. \A i \in 0..k : g[i] = f[i]
    OBVIOUS
  <2>5. g[k + 1] = step[k + 1][f[k]]
    OBVIOUS
  <2> HIDE DEF g
  <2>6. ASSUME NEW i \in 1..k + 1 PROVE g[i] = step[i][g[i - 1]]
    <3>1. CASE i = k + 1
      BY <3>1, <2>4, <2>5
    <3>2. CASE i \in 1..k
      BY <3>2, <2>1, <2>4 DEF Made
    <3> QED
      BY <3>1, <3>2
  <2>7. g[0] = base
    BY <2>1, <2>4 DEF Made
  <2>8. Made(g, D, base, step, k + 1)
    BY <2>3, <2>6, <2>7 DEF Made
  <2> QED
    BY <2>8
<1> HIDE DEF S
<1>3. n \in S
  BY <1>1, <1>2, Induction
<1> QED
  BY <1>3 DEF S

\* The function for all numbers, which every definition by recursion relies on.
LEMMA Recursion ==
  ASSUME NEW D, NEW base \in D, NEW step \in StepsOn(D)
  PROVE  \E f : MadeForAll(f, D, base, step)
<1> DEFINE g == [n \in Nat |-> CHOOSE f : Made(f, D, base, step, n)]
           h == [n \in Nat |-> g[n][n]]
<1>1. ASSUME NEW n \in Nat PROVE Made(g[n], D, base, step, n)
  BY RecursionUpTo
<1> HIDE DEF g
<1>2. \A n \in Nat : h[n] \in D
  BY <1>1 DEF Made
<1>3. h[0] = base
  BY <1>1 DEF Made
<1>4. ASSUME NEW n \in Nat \ {0} PROVE h[n] = step[n][h[n - 1]]
  <2>1. n \in Nat /\ n - 1 \in Nat /\ n - 1 <= n
    OBVIOUS
  <2>2. Made(g[n], D, base, step, n) /\ Made(g[n - 1], D, base, step, n - 1)
    BY <1>1, <2>1
  <2> DEFINE S == {i \in Nat : i <= n - 1 => g[n - 1][i] = g[n][i]}
  <2>3. n - 1 \in S
    <3>1. 0 \in S
      BY <2>2 DEF Made
    <3>2. ASSUME NEW i \in Nat, i \in S PROVE i + 1 \in S
      <4>1. i + 1 <= n - 1 => g[n - 1][i + 1] = step[i + 1][g[n - 1][i]]
        BY <2>1, <2>2 DEF Made
      <4>2. i + 1 <= n - 1 => g[n][i + 1] = step[i + 1][g[n][i]]
        BY <2>1, <2>2 DEF Made
      <4> QED
        BY <3>2, <4>1, <4>2
    <3> HIDE DEF S
    <3> QED
      BY <2>1, <3>1, <3>2, Induction
  <2>4. g[n][n] = step[n][g[n][n - 1]]
    BY <2>1, <2>2 DEF Made
  <2> QED
    BY <2>1, <2>3, <2>4
<1>5. h \in [Nat -> D]
  BY <1>2
<1>6. MadeForAll(h, D, base, step)
  BY <1>3, <1>4, <1>5 DEF MadeForAll
<1> QED
  BY <1>6

-----------------------------------------------------------------------------
(* What Comment and Text compute *)

Comments == {"none", "open", "semicolon"}

LEMMA CommentDef ==
  ASSUME NEW s
  PROVE  /\ Comment(s)[0] = "none"
         /\ \A i \in Nat : Comment(s)[i] \in Comments
         /\ \A i \in Nat \ {0} : Comment(s)[i] = CommentAfter(Comment(s)[i - 1], s[i])
<1> DEFINE step == [i \in Nat |-> [x \in Comments |-> CommentAfter(x, s[i])]]
           Value(f, i) == IF i = 0 THEN "none" ELSE CommentAfter(f[i - 1], s[i])
<1>1. step \in StepsOn(Comments)
  BY DEF StepsOn, CommentAfter, Comments
<1>2. "none" \in Comments
  BY DEF Comments
<1> HIDE DEF step
<1>3. PICK f : MadeForAll(f, Comments, "none", step)
  BY <1>1, <1>2, Recursion
<1>4. ASSUME NEW i \in Nat \ {0} PROVE f[i] = CommentAfter(f[i - 1], s[i])
  <2>1. f[i] = step[i][f[i - 1]] /\ f[i - 1] \in Comments /\ i \in Nat
    BY <1>3 DEF MadeForAll
  <2> QED
    BY <2>1 DEF step
<1>5. f = [i \in Nat |-> Value(f, i)]
  BY <1>3, <1>4 DEF MadeForAll
<1>6. Comment(s) = CHOOSE g : g = [i \in Nat |-> Value(g, i)]
  BY DEF Comment
<1>7. Comment(s) = [i \in Nat |-> Value(Comment(s), i)]
  BY <1>5, <1>6
<1> HIDE DEF Value
<1>8. \A i \in Nat : Comment(s)[i] = Value(Comment(s), i)
  BY <1>7
<1>9. Comment(s)[0] = "none" /\ \A i \in Nat \ {0} : Comment(s)[i] = CommentAfter(Comment(s)[i - 1], s[i])
  BY <1>8 DEF Value
<1> DEFINE S == {i \in Nat : Comment(s)[i] \in Comments}
<1>10. 0 \in S
  BY <1>2, <1>9
<1>11. ASSUME NEW i \in Nat, i \in S PROVE i + 1 \in S
  <2>1. Comment(s)[i + 1] = CommentAfter(Comment(s)[i], s[i + 1])
    BY <1>9
  <2> QED
    BY <1>11, <2>1 DEF CommentAfter, Comments
<1> HIDE DEF S
<1>12. \A i \in Nat : i \in S
  BY <1>10, <1>11, Induction
<1> QED
  BY <1>9, <1>12 DEF S

LEMMA TextDef ==
  ASSUME NEW s
  PROVE  /\ TextUpTo(s)[0] = <<>>
         /\ \A i \in Nat \ {0} : TextUpTo(s)[i] = TextAfter(TextUpTo(s)[i - 1], s, i)
<1> DEFINE D == Seq({Upcase(s[i]) : i \in Nat})
           step == [i \in Nat |-> [x \in D |-> TextAfter(x, s, i)]]
           Value(f, i) == IF i = 0 THEN <<>> ELSE TextAfter(f[i - 1], s, i)
<1>1. <<>> \in D
  BY EmptySeq
<1>2. ASSUME NEW x \in D, NEW i \in Nat PROVE TextAfter(x, s, i) \in D
  BY <1>2, AppendProperties DEF TextAfter
<1> HIDE DEF D
<1>3. step \in StepsOn(D)
  BY <1>2 DEF StepsOn
<1> HIDE DEF step
<1>4. PICK f : MadeForAll(f, D, <<>>, step)
  BY <1>1, <1>3, Recursion
<1>5. ASSUME NEW i \in Nat \ {0} PROVE f[i] = TextAfter(f[i - 1], s, i)
  <2>1. f[i] = step[i][f[i - 1]] /\ f[i - 1] \in D /\ i \in Nat
    BY <1>4 DEF MadeForAll
  <2> QED
    BY <2>1 DEF step
<1>6. f = [i \in Nat |-> Value(f, i)]
  BY <1>4, <1>5 DEF MadeForAll
<1>7. TextUpTo(s) = CHOOSE g : g = [i \in Nat |-> Value(g, i)]
  BY DEF TextUpTo
<1>8. TextUpTo(s) = [i \in Nat |-> Value(TextUpTo(s), i)]
  BY <1>6, <1>7
<1> HIDE DEF Value
<1>9. \A i \in Nat : TextUpTo(s)[i] = Value(TextUpTo(s), i)
  BY <1>8
<1> QED
  BY <1>9 DEF Value

\* Both only depend on what has been read: sequences that agree up to n have the same comments
\* and the same text up to n.
Agree(s, t, n) == \A i \in 1..n : s[i] = t[i]

LEMMA CommentPrefix ==
  ASSUME NEW s, NEW t, NEW n \in Nat, Agree(s, t, n)
  PROVE  \A i \in 0..n : Comment(s)[i] = Comment(t)[i]
<1> DEFINE S == {i \in Nat : i <= n => Comment(s)[i] = Comment(t)[i]}
<1>1. 0 \in S
  BY CommentDef
<1>2. ASSUME NEW i \in Nat, i \in S PROVE i + 1 \in S
  <2>1. Comment(s)[i + 1] = CommentAfter(Comment(s)[i], s[i + 1])
    BY CommentDef
  <2>2. Comment(t)[i + 1] = CommentAfter(Comment(t)[i], t[i + 1])
    BY CommentDef
  <2> QED
    BY <1>2, <2>1, <2>2 DEF Agree
<1> HIDE DEF S
<1>3. \A i \in Nat : i \in S
  BY <1>1, <1>2, Induction
<1> QED
  BY <1>3 DEF S

LEMMA TextPrefix ==
  ASSUME NEW s, NEW t, NEW n \in Nat, Agree(s, t, n)
  PROVE  \A i \in 0..n : TextUpTo(s)[i] = TextUpTo(t)[i]
<1> DEFINE S == {i \in Nat : i <= n => TextUpTo(s)[i] = TextUpTo(t)[i]}
<1>1. 0 \in S
  BY TextDef
<1>2. ASSUME NEW i \in Nat, i \in S PROVE i + 1 \in S
  <2>1. TextUpTo(s)[i + 1] = TextAfter(TextUpTo(s)[i], s, i + 1)
    BY TextDef
  <2>2. TextUpTo(t)[i + 1] = TextAfter(TextUpTo(t)[i], t, i + 1)
    BY TextDef
  <2>3. i + 1 <= n => Comment(s)[i] = Comment(t)[i] /\ s[i + 1] = t[i + 1]
    BY CommentPrefix DEF Agree
  <2> QED
    BY <1>2, <2>1, <2>2, <2>3 DEF TextAfter
<1> HIDE DEF S
<1>3. \A i \in Nat : i \in S
  BY <1>1, <1>2, Induction
<1> QED
  BY <1>3 DEF S

\* A text is a sequence of characters.
LEMMA TextType == ASSUME NEW s, NEW n \in Nat PROVE TextUpTo(s)[n] \in Seq({Upcase(s[i]) : i \in Nat})
<1> DEFINE D == Seq({Upcase(s[i]) : i \in Nat})
           S == {i \in Nat : TextUpTo(s)[i] \in D}
<1>1. 0 \in S
  BY TextDef, EmptySeq
<1>2. ASSUME NEW i \in Nat, i \in S PROVE i + 1 \in S
  <2>1. TextUpTo(s)[i + 1] = TextAfter(TextUpTo(s)[i], s, i + 1)
    BY TextDef
  <2>2. TextUpTo(s)[i] \in D /\ Upcase(s[i + 1]) \in {Upcase(s[j]) : j \in Nat}
    BY <1>2
  <2>3. Append(TextUpTo(s)[i], Upcase(s[i + 1])) \in D
    BY <2>2, AppendProperties
  <2> HIDE DEF D
  <2>4. TextUpTo(s)[i + 1] \in D
    BY <2>1, <2>2, <2>3 DEF TextAfter
  <2> QED
    BY <2>4
<1> HIDE DEF S
<1>3. \A i \in Nat : i \in S
  BY <1>1, <1>2, Induction
<1> QED
  BY <1>3 DEF S

-----------------------------------------------------------------------------
(* The line is what has been read *)

\* Of what has been taken off the ring, the line has the text, and the flag the comment, if
\* any; or the text has been found too long.
Reading == {Comment(pending)[Taken]} \ {"none"}
LineRead ==
  ~Discards =>
    \/ line = TextUpTo(pending)[Taken] /\ line_flags = Reading
    \/ line_flags = {"OVERFLOW"} /\ Len(TextUpTo(pending)[Taken]) >= LINE_BUFFER_SIZE

\* A new line begins empty.
LEMMA NothingRead ==
  /\ line = <<>> /\ line_flags = {} /\ Taken = 0 => LineRead
  /\ line' = <<>> /\ line_flags' = {} /\ Taken' = 0 => LineRead'
<1>1. Comment(pending)[0] = "none" /\ TextUpTo(pending)[0] = <<>>
  BY CommentDef, TextDef
<1>2. Comment(pending')[0] = "none" /\ TextUpTo(pending')[0] = <<>>
  BY CommentDef, TextDef
<1> QED
  BY <1>1, <1>2 DEF LineRead, Reading

\* What is sent later does not matter.
LEMMA SendRead == ASSUME IInv, LineRead, NEW x \in Alphabet, Send(x) PROVE LineRead'
<1> USE DEF IInv, Send, Arrive, lineVars
<1>1. Arriving = 0 /\ Arriving' = 1
  BY NotCharacters DEF Arriving
<1>2. Len(pending') = Len(pending) + 1 /\ Agree(pending, pending', Len(pending))
  BY DEF TypeOK, Agree
<1>3. Taken' = Taken /\ Taken \in 0..Len(pending) /\ Len(pending) \in Nat
  BY <1>1, <1>2 DEF Taken, RingOnBooks, TypeOK
<1>4. Comment(pending)[Taken] = Comment(pending')[Taken] /\ TextUpTo(pending)[Taken] = TextUpTo(pending')[Taken]
  BY <1>2, <1>3, CommentPrefix, TextPrefix
<1> QED
  BY <1>3, <1>4 DEF LineRead, Reading, Discards

\* A character is dealt with.
LEMMA ConsumeRead == ASSUME IInv, LineRead, Consume PROVE LineRead'
<1> USE DEF IInv, Consume, hostVars, lineVars
<1> DEFINE text == TextUpTo(pending)[Taken]
           next == TextUpTo(pending)[Taken + 1]
           comment == Comment(pending)[Taken]
           after == Comment(pending)[Taken + 1]
<1>1. rx # <<>> /\ rx \in Seq(Alphabet) /\ c = rx[1] /\ 1 \in 1..Len(rx)
  BY EmptySeq DEF ReadsHead, TypeOK
<1>2. Taken' = Taken + 1 /\ Taken \in Nat
  BY <1>1, HeadTailProperties DEF Taken, Arriving, RingOnBooks, TypeOK
<1>3. pending[Taken + 1] = c /\ c \in Alphabet
  BY <1>1 DEF RingOnBooks
<1>4. after = CommentAfter(comment, c) /\ comment \in Comments
  BY <1>2, <1>3, CommentDef
<1>5. next = IF comment = "none" /\ c \notin {"space", "open", "semicolon", "eol"}
             THEN Append(text, Upcase(c)) ELSE text
  BY <1>2, <1>3, TextDef DEF TextAfter
<1>6. Len(next) >= Len(text) /\ Len(text) \in Nat
      /\ (next = Append(text, Upcase(c)) => Len(next) = Len(text) + 1)
  BY <1>2, <1>5, TextType
<1>7. LINE_BUFFER_SIZE \in Nat /\ Len(line) \in Nat
  BY ReaderAssumption DEF ReaderAssumption, TypeOK
<1> HIDE DEF text, next, comment, after
<1>8. (line' = next /\ line_flags' = {after} \ {"none"})
      \/ (line_flags' = {"OVERFLOW"} /\ Len(next) >= LINE_BUFFER_SIZE) => LineRead'
  BY <1>2 DEF LineRead, Reading, next, after
<1>9. CASE line_flags = {"OVERFLOW"} /\ Len(text) >= LINE_BUFFER_SIZE
  <2>1. line_flags' = {"OVERFLOW"}
    BY <1>9 DEF Filter
  <2> QED
    BY <1>6, <1>7, <1>8, <1>9, <2>1
<1>10. CASE line = text /\ line_flags = {comment} \ {"none"}
  <2>1. CASE comment # "none"
    <3>1. next = text /\ line' = line
      BY <1>5, <1>10, <2>1 DEF Filter
    <3>2. line_flags = {comment} /\ (c = "eol" => line_flags' = line_flags)
          /\ (c # "eol" => line_flags' = IF c = "close" THEN line_flags \ {"open"} ELSE line_flags)
      BY <1>10, <2>1 DEF Filter
    <3>3. line_flags' = {after} \ {"none"}
      BY <1>4, <2>1, <3>2 DEF CommentAfter, Comments
    <3> QED
      BY <1>8, <1>10, <3>1, <3>3
  <2>2. CASE comment = "none"
    <3>0. line_flags = {} /\ after = IF c \in {"open", "semicolon"} THEN c ELSE "none"
      BY <1>4, <1>10, <2>2 DEF CommentAfter
    <3>1. CASE c \in {"eol", "space"}
      BY <3>0, <3>1, <1>5, <1>8, <1>10 DEF Filter
    <3>2. CASE c \in {"open", "semicolon"}
      BY <3>0, <3>2, <1>5, <1>8, <1>10 DEF Filter
    <3>3. CASE c \notin {"eol", "space", "open", "semicolon"}
      <4>1. next = Append(text, Upcase(c)) /\ after = "none"
        BY <3>0, <3>3, <1>5, <2>2
      <4>2. CASE Len(line) >= LINE_BUFFER_SIZE - 1
        <5>1. line_flags' = {"OVERFLOW"}
          BY <3>0, <3>3, <4>2 DEF Filter
        <5>2. Len(next) >= LINE_BUFFER_SIZE
          BY <1>6, <1>7, <1>10, <4>1, <4>2
        <5> QED
          BY <1>8, <5>1, <5>2
      <4>3. CASE ~(Len(line) >= LINE_BUFFER_SIZE - 1)
        <5>1. line' = Append(line, Upcase(c)) /\ line_flags' = {}
          BY <3>0, <3>3, <4>3 DEF Filter
        <5> QED
          BY <1>8, <1>10, <4>1, <5>1
      <4> QED
        BY <4>2, <4>3
    <3> QED
      BY <3>1, <3>2, <3>3
  <2> QED
    BY <2>1, <2>2
<1> QED
  BY <1>9, <1>10 DEF LineRead, Reading, Discards, text, comment

LEMMA MainRead == ASSUME IInv, LineRead, Main PROVE LineRead'
<1> USE DEF hostVars, lineVars
<1>1. CASE Read \/ EndOfLine \/ NoMore
  <2>1. Taken' = Taken /\ pending' = pending /\ line' = line /\ line_flags' = line_flags /\ ~Discards
    BY <1>1 DEF Read, EndOfLine, NoMore, Taken, Arriving, Discards
  <2> QED
    BY <2>1 DEF LineRead, Reading
<1>2. CASE Consume
  BY <1>2, ConsumeRead
<1>3. CASE Execute
  <2>1. Len(pending') = Len(pending) - Taken
    BY <1>3, TakenIsLine, DropIsRest DEF IInv, Execute
  <2>2. Taken' = 0
    BY <1>3, <2>1 DEF Execute, Taken, Arriving, IInv, TypeOK
  <2> QED
    BY <1>3, <2>2, NothingRead DEF Execute
<1>4. CASE ClearFlags \/ ResetReadBuffer
  BY <1>4 DEF ClearFlags, ResetReadBuffer, LineRead, Discards
<1>5. CASE Welcome
  <2>1. Taken' = 0
    BY <1>5, NotCharacters DEF Welcome, Taken, Arriving, IInv, ResetWaits, Discards
  <2> QED
    BY <1>5, <2>1, NothingRead DEF Welcome
<1> QED
  BY <1>1, <1>2, <1>3, <1>4, <1>5 DEF Main

-----------------------------------------------------------------------------
(* Theorems *)

LEMMA Invariance == Spec => []IInv
<1>1. Init => IInv
  BY InitType, InitBooks DEF IInv
<1>2. IInv /\ [Next]_vars => IInv'
  <2> SUFFICES ASSUME IInv, [Next]_vars PROVE IInv'
    OBVIOUS
  <2> USE DEF IInv
  <2>1. ASSUME NEW x \in Alphabet, Send(x) PROVE IInv'
    BY <2>1, SendType, SendBooks
  <2>2. CASE SendReset
    BY <2>2, SendResetType, SendResetBooks
  <2>3. CASE RxIsr
    BY <2>3, RxIsrType, RxIsrBooks
  <2>4. CASE Main
    BY <2>4, MainType, MainBooks
  <2>5. CASE UNCHANGED vars
    BY <2>5 DEF vars, hostVars, lineVars, TypeOK, RingOnBooks, LineOnBooks, ResetWaits, ReadsHead, Taken,
       Arriving, AtEnd, Discards
  <2> QED
    BY <2>1, <2>2, <2>3, <2>4, <2>5 DEF Next
<1> QED
  BY <1>1, <1>2, PTL DEF Spec

\* Every variable keeps its type; the line with its terminator stays within its buffer.
THEOREM TypeCorrect == Spec => []TypeOK
<1>1. IInv => TypeOK
  BY DEF IInv
<1> QED
  BY <1>1, Invariance, PTL

\* The receive interrupt never finds the ring full, for every size of ring and line, whatever is
\* read or reset meanwhile.
THEOREM AlwaysRoom == Spec => []NeverFull
<1>1. IInv => NeverFull
  BY Room DEF NeverFull
<1> QED
  BY <1>1, Invariance, PTL

\* The main loop executes the host's first unanswered line, and nothing of the next one has been
\* taken off the ring.
LineBoundary == pc = "execute" => Ends # {} /\ Taken = FirstEnd
THEOREM OneLineAtATime == Spec => []LineBoundary
<1>1. IInv => LineBoundary
  BY TakenIsLine DEF IInv, LineBoundary
<1> QED
  BY <1>1, Invariance, PTL

\* What is executed is the host's first unanswered line, whole and without its comments and
\* spaces, and it is refused exactly if that is too long: for every size of ring and line.
THEOREM Intact == Spec => []LineIntact
<1>1. Init => LineRead
  <2> SUFFICES ASSUME Init PROVE LineRead
    OBVIOUS
  <2>1. Len(pending) = 0 /\ Len(rx) = 0 /\ Arriving = 0
    BY NotCharacters, EmptySeq DEF Init, Arriving
  <2> QED
    BY <2>1, NothingRead DEF Init, Taken
<1>2. IInv /\ LineRead /\ [Next]_vars => LineRead'
  <2> SUFFICES ASSUME IInv, LineRead, [Next]_vars PROVE LineRead'
    OBVIOUS
  <2> USE DEF hostVars, lineVars
  <2>1. ASSUME NEW x \in Alphabet, Send(x) PROVE LineRead'
    BY <2>1, SendRead
  <2>2. CASE SendReset \/ RxIsr \/ UNCHANGED vars
    <3>1. Taken' = Taken
      <4>1. CASE SendReset \/ UNCHANGED vars
        BY <4>1, NotCharacters DEF SendReset, Arrive, vars, Taken, Arriving
      <4>2. CASE RxIsr /\ dr = "reset"
        BY <4>2, NotCharacters DEF RxIsr, Taken, Arriving
      <4>3. CASE RxIsr /\ dr \in Alphabet
        <5>1. rx' = Append(rx, dr) /\ Len(rx') = Len(rx) + 1 /\ Arriving = 1 /\ Arriving' = 0
          BY <4>3, Room, NotCharacters DEF RxIsr, Arriving, IInv, TypeOK
        <5>2. Len(pending) \in Nat /\ Len(rx) \in Nat /\ pending' = pending
          BY <4>3 DEF RxIsr, IInv, TypeOK
        <5> QED
          BY <5>1, <5>2 DEF Taken
      <4> QED
        BY <2>2, <4>1, <4>2, <4>3 DEF RxIsr, IInv, TypeOK
    <3>2. pending' = pending /\ line' = line /\ line_flags' = line_flags /\ (Discards' <=> Discards)
      BY <2>2 DEF SendReset, RxIsr, vars, Discards
    <3> QED
      BY <3>1, <3>2 DEF LineRead, Reading
  <2>3. CASE Main
    BY <2>3, MainRead
  <2> QED
    BY <2>1, <2>2, <2>3 DEF Next
<1>3. IInv /\ LineRead => LineIntact
  <2> SUFFICES ASSUME IInv, LineRead, pc = "execute"
               PROVE  /\ Ends # {}
                      /\ LET text == Text(SubSeq(pending, 1, FirstEnd)) IN
                         IF Len(text) < LINE_BUFFER_SIZE THEN line = text /\ "OVERFLOW" \notin line_flags
                         ELSE "OVERFLOW" \in line_flags
    BY DEF LineIntact
  <2> DEFINE first == SubSeq(pending, 1, Taken)
             text == TextUpTo(pending)[Taken]
  <2>1. Ends # {} /\ FirstEnd = Taken /\ Taken \in 1..Len(pending) /\ pending \in Seq(Alphabet)
    BY TakenIsLine DEF IInv, TypeOK
  <2>2. Len(first) = Taken /\ Agree(first, pending, Taken)
    BY <2>1 DEF Agree
  <2>3. TextUpTo(first)[Taken] = text
    BY <2>1, <2>2, TextPrefix
  <2>4. Text(SubSeq(pending, 1, FirstEnd)) = text
    BY <2>1, <2>2, <2>3 DEF Text
  <2>5. Len(text) \in Nat /\ LINE_BUFFER_SIZE \in Nat /\ Len(line) < LINE_BUFFER_SIZE
    BY <2>1, TextType, ReaderAssumption DEF ReaderAssumption, IInv, TypeOK
  <2>6. Comment(pending)[Taken] \in Comments
    BY <2>1, CommentDef
  <2> HIDE DEF text, first
  <2>7. CASE line = text /\ line_flags = Reading
    BY <2>1, <2>4, <2>5, <2>6, <2>7 DEF Reading, Comments
  <2>8. CASE line_flags = {"OVERFLOW"} /\ Len(text) >= LINE_BUFFER_SIZE
    BY <2>1, <2>4, <2>5, <2>8
  <2> QED
    BY <2>7, <2>8 DEF LineRead, Discards, text
<1> QED
  BY <1>1, <1>2, <1>3, Invariance, PTL DEF Spec
=============================================================================
