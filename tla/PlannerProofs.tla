---------------------------- MODULE PlannerProofs ----------------------------
(***************************************************************************)
(* The plan of the ring is feasible and optimal at every moment, although  *)
(* planner_recalculate() begins at the stop-compute pointer, and           *)
(* st_prep_buffer() changes the block at the tail all the while: for every *)
(* size of the ring, every line, junction and rate, and any number of      *)
(* lines, overrides, holds and resets.                                     *)
(*                                                                         *)
(* The argument is about the line of blocks from the tail to the last one, *)
(* Line, freed from the ring. A speed of the plan is tight if it is bound  *)
(* by its maximum, by the block before it or by the way to the end. When   *)
(* every speed is tight the plan is the best one, for blocks have lengths  *)
(* (TightIsBest). The reverse pass lowers no speed that could be kept      *)
(* before (Raises), so that a speed bound from before, or at its maximum,  *)
(* stays bound: those are the places where the pointer may stand.          *)
(***************************************************************************)
EXTENDS Planner, TLAPS, WellFoundedInduction

-----------------------------------------------------------------------------
(* The ring *)

LEMMA RingSize == N \in Nat /\ N >= 3
  BY PlannerAssumption DEF PlannerAssumption, N

LEMMA Modulo == ASSUME NEW x \in Int, 0 <= x, x < 2 * N PROVE x % N = IF x < N THEN x ELSE x - N
<1>1. CASE x < N
  BY <1>1, RingSize
<1>2. CASE x >= N
  <2>1. x = 1 * N + (x - N) /\ x - N \in 0..N - 1
    BY <1>2, RingSize
  <2> QED
    BY <2>1, RingSize
<1> QED
  BY <1>1, <1>2, RingSize

\* Going forward on the ring, and how far.
LEMMA AheadIs ==
  ASSUME NEW i \in Slots, NEW k \in 0..N
  PROVE  Ahead(i, k) = (IF i + k < N THEN i + k ELSE i + k - N) /\ Ahead(i, k) \in Slots
<1>1. i + k \in Int /\ 0 <= i + k /\ i + k < 2 * N
  BY RingSize DEF Slots
<1> DEFINE x == i + k
<1>2. x \in Int /\ 0 <= x /\ x < 2 * N
  BY <1>1
<1>3. Ahead(i, k) = x % N
  BY DEF Ahead
<1> HIDE DEF x
<1>4. Ahead(i, k) = IF x < N THEN x ELSE x - N
  BY <1>2, <1>3, Modulo
<1> QED
  BY <1>1, <1>4, RingSize DEF x, Slots

LEMMA StepsIs ==
  ASSUME NEW i \in Slots, NEW j \in Slots
  PROVE  Steps(i, j) = (IF i <= j THEN j - i ELSE j - i + N) /\ Steps(i, j) \in 0..N - 1
<1>1. j + N - i \in Int /\ 0 <= j + N - i /\ j + N - i < 2 * N
  BY RingSize DEF Slots
<1> DEFINE x == j + N - i
<1>2. x \in Int /\ 0 <= x /\ x < 2 * N
  BY <1>1
<1>3. Steps(i, j) = x % N
  BY DEF Steps
<1> HIDE DEF x
<1>4. Steps(i, j) = IF x < N THEN x ELSE x - N
  BY <1>2, <1>3, Modulo
<1> QED
  BY <1>1, <1>4, RingSize DEF x, Slots

LEMMA AheadSteps == ASSUME NEW i \in Slots, NEW j \in Slots PROVE Ahead(i, Steps(i, j)) = j
<1> DEFINE k == Steps(i, j)
<1>1. k = (IF i <= j THEN j - i ELSE j - i + N) /\ k \in 0..N
  BY StepsIs, RingSize
<1> HIDE DEF k
<1>2. Ahead(i, k) = IF i + k < N THEN i + k ELSE i + k - N
  BY <1>1, AheadIs
<1> QED
  BY <1>1, <1>2, RingSize DEF k, Slots

LEMMA StepsAhead == ASSUME NEW i \in Slots, NEW k \in 0..N - 1 PROVE Steps(i, Ahead(i, k)) = k
<1> DEFINE j == Ahead(i, k)
<1>1. j = (IF i + k < N THEN i + k ELSE i + k - N) /\ j \in Slots
  BY AheadIs, RingSize
<1> HIDE DEF j
<1>2. Steps(i, j) = IF i <= j THEN j - i ELSE j - i + N
  BY <1>1, StepsIs
<1> QED
  BY <1>1, <1>2, RingSize DEF j, Slots

LEMMA AheadAhead ==
  ASSUME NEW i \in Slots, NEW j \in 0..N - 1, NEW k \in 0..N - 1, j + k <= N - 1
  PROVE  Ahead(Ahead(i, j), k) = Ahead(i, j + k)
<1> DEFINE a == Ahead(i, j)
<1>1. a = (IF i + j < N THEN i + j ELSE i + j - N) /\ a \in Slots
  BY AheadIs, RingSize
<1> HIDE DEF a
<1>2. Ahead(a, k) = IF a + k < N THEN a + k ELSE a + k - N
  BY <1>1, AheadIs, RingSize
<1>3. j + k \in 0..N
  BY RingSize
<1>4. Ahead(i, j + k) = IF i + (j + k) < N THEN i + (j + k) ELSE i + (j + k) - N
  BY <1>3, AheadIs
<1> QED
  BY <1>1, <1>2, <1>4, RingSize DEF a, Slots

LEMMA StepsBetween ==
  ASSUME NEW i \in Slots, NEW j \in 0..N - 1, NEW k \in 0..N - 1
  PROVE  Steps(Ahead(i, j), Ahead(i, k)) = (IF j <= k THEN k - j ELSE k - j + N)
<1> DEFINE a == Ahead(i, j)
           b == Ahead(i, k)
<1>1. a = (IF i + j < N THEN i + j ELSE i + j - N) /\ a \in Slots
  BY AheadIs, RingSize
<1>2. b = (IF i + k < N THEN i + k ELSE i + k - N) /\ b \in Slots
  BY AheadIs, RingSize
<1> HIDE DEF a, b
<1>3. Steps(a, b) = IF a <= b THEN b - a ELSE b - a + N
  BY <1>1, <1>2, StepsIs
<1> QED
  BY <1>1, <1>2, <1>3, RingSize DEF a, b, Slots

LEMMA AfterIs ==
  ASSUME NEW i \in Slots
  PROVE  After(i) \in Slots /\ After(i) = Ahead(i, 1) /\ Before(After(i)) = i /\ Before(i) \in Slots
<1>1. After(i) \in Slots /\ Before(i) \in Slots /\ Before(After(i)) = i
  BY RingSize DEF After, Before, Slots
<1>2. After(i) = Ahead(i, 1)
  BY AheadIs, RingSize DEF After, Slots
<1> QED
  BY <1>1, <1>2

-----------------------------------------------------------------------------
(* Induction, and recursion over it *)

LEMMA LeastNumber ==
  ASSUME NEW S \in SUBSET Nat, S # {}
  PROVE  \E m \in S : \A n \in S : m <= n
<1> DEFINE R == OpToRel(<, Nat)
<1>1. IsWellFoundedOn(R, Nat)
  BY NatLessThanWellFounded
<1>2. \A n, m \in Nat : n < m => <<n, m>> \in R
  BY DEF OpToRel
<1> HIDE DEF R
<1>3. PICK m \in S : \A n \in S : ~(<<n, m>> \in R)
  BY <1>1, WFMin
<1>4. \A n \in S : ~(n < m)
  BY <1>2, <1>3
<1> QED
  BY <1>4

\* A set with 0 and with the successor of every number in it has all numbers.
LEMMA Induction ==
  ASSUME NEW S, 0 \in S, \A n \in Nat : n \in S => n + 1 \in S
  PROVE  \A n \in Nat : n \in S
<1> DEFINE T == {n \in Nat : n \notin S}
<1> SUFFICES ASSUME T # {} PROVE FALSE
  OBVIOUS
<1>1. PICK m \in T : \A n \in T : m <= n
  BY LeastNumber
<1>2. m \in Nat /\ m # 0 /\ m - 1 \in Nat
  BY <1>1
<1>3. m - 1 \in S
  BY <1>1, <1>2
<1> QED
  BY <1>1, <1>2, <1>3

\* f is made by recursion up to n: its value at 0 is base, and each other one a step from the
\* one before it.
StepsOn(D) == [Nat -> [D -> D]]
Made(f, D, base, step, n) == f \in [0..n -> D] /\ f[0] = base /\ \A i \in 1..n : f[i] = step[i][f[i - 1]]

LEMMA RecursionUpTo ==
  ASSUME NEW D, NEW base \in D, NEW step \in StepsOn(D), NEW n \in Nat
  PROVE  \E f : Made(f, D, base, step, n)
<1> DEFINE S == {k \in Nat : \E f : Made(f, D, base, step, k)}
<1>1. 0 \in S
  <2>1. Made([i \in 0..0 |-> base], D, base, step, 0)
    BY DEF Made
  <2> QED
    BY <2>1
<1>2. ASSUME NEW k \in Nat, k \in S PROVE k + 1 \in S
  <2>1. PICK f : Made(f, D, base, step, k)
    BY <1>2
  <2> DEFINE g == [i \in 0..k + 1 |-> IF i = k + 1 THEN step[k + 1][f[k]] ELSE f[i]]
  <2>2. step[k + 1][f[k]] \in D
    BY <2>1 DEF Made, StepsOn
  <2>3. g \in [0..k + 1 -> D]
    BY <2>1, <2>2 DEF Made
  <2>4. \A i \in 0..k : g[i] = f[i]
    OBVIOUS
  <2>5. g[k + 1] = step[k + 1][f[k]]
    OBVIOUS
  <2> HIDE DEF g
  <2>6. ASSUME NEW i \in 1..k + 1 PROVE g[i] = step[i][g[i - 1]]
    <3>1. CASE i = k + 1
      BY <3>1, <2>4, <2>5
    <3>2. CASE i \in 1..k
      BY <3>2, <2>1, <2>4 DEF Made
    <3> QED
      BY <3>1, <3>2
  <2>7. g[0] = base
    BY <2>1, <2>4 DEF Made
  <2>8. Made(g, D, base, step, k + 1)
    BY <2>3, <2>6, <2>7 DEF Made
  <2> QED
    BY <2>8
<1> HIDE DEF S
<1>3. n \in S
  BY <1>1, <1>2, Induction
<1> QED
  BY <1>3 DEF S

-----------------------------------------------------------------------------
(* The two passes *)

Blocks == [length : Nat, junction : Nat, rate : Nat, max_entry : Nat, entry : Nat]
Rings == [Slots -> Blocks]

LEMMA LeastIs ==
  ASSUME NEW a \in Nat, NEW b \in Nat
  PROVE  Least(a, b) \in Nat /\ Least(a, b) <= a /\ Least(a, b) <= b /\ Least(a, b) \in {a, b}
  BY DEF Least

\* Block d before the last one, and what the reverse pass makes of its entry speed.
Back(b, h, d) == b[Ahead(Before(h), N - d)]
Raised(block, next) ==
  IF block.entry = block.max_entry THEN block.entry ELSE Least(next + block.length, block.max_entry)

LEMMA RaisedIs ==
  ASSUME NEW block \in Blocks, NEW next \in Nat
  PROVE  /\ Raised(block, next) \in Nat
         /\ Raised(block, next) <= block.max_entry
         /\ Raised(block, next) \in {block.max_entry, next + block.length}
         /\ block.entry # block.max_entry => Raised(block, next) <= next + block.length
<1>1. block.length \in Nat /\ block.max_entry \in Nat /\ block.entry \in Nat
  BY DEF Blocks
<1> QED
  BY <1>1 DEF Raised, Least

LEMMA ReverseDef ==
  ASSUME NEW b \in Rings, NEW h \in Slots, NEW p
  PROVE  /\ Reverse(b, h, p) \in [0..N - 1 -> Nat]
         /\ Reverse(b, h, p)[0] = Least(Back(b, h, 0).max_entry, Back(b, h, 0).length)
         /\ \A d \in 1..N - 1 : Reverse(b, h, p)[d] = Raised(Back(b, h, d), Reverse(b, h, p)[d - 1])
<1> DEFINE base == Least(Back(b, h, 0).max_entry, Back(b, h, 0).length)
           step == [d \in Nat |-> [x \in Nat |-> IF d \in 0..N - 1 THEN Raised(Back(b, h, d), x) ELSE x]]
           Value(f, d) == IF d = 0 THEN base ELSE Raised(Back(b, h, d), f[d - 1])
<1>0. N - 1 \in Nat /\ Before(h) \in Slots
  BY RingSize, AfterIs
<1>1. ASSUME NEW d \in 0..N - 1 PROVE Back(b, h, d) \in Blocks
  <2>1. N - d \in 0..N
    BY RingSize
  <2>2. Ahead(Before(h), N - d) \in Slots
    BY <1>0, <2>1, AheadIs
  <2> QED
    BY <2>2 DEF Back, Rings
<1>2. base \in Nat
  <2>1. Back(b, h, 0) \in Blocks
    BY <1>0, <1>1
  <2> QED
    BY <2>1, LeastIs DEF Blocks
<1>3. ASSUME NEW d \in 0..N - 1, NEW x \in Nat PROVE Raised(Back(b, h, d), x) \in Nat
  <2>1. Back(b, h, d) \in Blocks
    BY <1>1
  <2> QED
    BY <2>1, RaisedIs
<1> HIDE DEF base
<1>4. step \in StepsOn(Nat)
  BY <1>3 DEF StepsOn
<1> HIDE DEF step
<1>5. PICK f : Made(f, Nat, base, step, N - 1)
  BY <1>0, <1>2, <1>4, RecursionUpTo
<1>6. ASSUME NEW d \in 1..N - 1 PROVE f[d] = Raised(Back(b, h, d), f[d - 1])
  <2>1. f[d] = step[d][f[d - 1]] /\ f[d - 1] \in Nat /\ d \in Nat /\ d \in 0..N - 1
    BY <1>0, <1>5 DEF Made
  <2> QED
    BY <2>1 DEF step
<1>7. f = [d \in 0..N - 1 |-> Value(f, d)]
  BY <1>0, <1>5, <1>6 DEF Made
<1>8. Reverse(b, h, p) = CHOOSE g : g = [d \in 0..N - 1 |-> Value(g, d)]
  BY DEF Reverse, base, Raised, Back
<1>9. Reverse(b, h, p) = [d \in 0..N - 1 |-> Value(Reverse(b, h, p), d)]
  BY <1>7, <1>8
<1>10. \A d \in 0..N - 1 : Reverse(b, h, p)[d] = Value(Reverse(b, h, p), d)
  BY <1>9
<1>11. Reverse(b, h, p)[0] = base
  BY <1>0, <1>10
<1>12. \A d \in 1..N - 1 : Reverse(b, h, p)[d] = Raised(Back(b, h, d), Reverse(b, h, p)[d - 1])
  BY <1>0, <1>10
<1> DEFINE S == {d \in Nat : d <= N - 1 => Reverse(b, h, p)[d] \in Nat}
<1>13. 0 \in S
  BY <1>2, <1>11
<1>14. ASSUME NEW d \in Nat, d \in S PROVE d + 1 \in S
  <2>1. SUFFICES ASSUME d + 1 <= N - 1 PROVE Reverse(b, h, p)[d + 1] \in Nat
    OBVIOUS
  <2>2. d + 1 \in 1..N - 1 /\ d + 1 \in 0..N - 1 /\ (d + 1) - 1 = d
    BY <1>0, <2>1
  <2>3. Reverse(b, h, p)[d] \in Nat
    BY <1>0, <1>14, <2>1
  <2>4. Reverse(b, h, p)[d + 1] = Raised(Back(b, h, d + 1), Reverse(b, h, p)[d])
    BY <1>12, <2>2
  <2> QED
    BY <1>3, <2>2, <2>3, <2>4
<1> HIDE DEF S
<1>15. \A d \in Nat : d \in S
  BY <1>13, <1>14, Induction
<1>16. \A d \in 0..N - 1 : Reverse(b, h, p)[d] \in Nat
  BY <1>0, <1>15 DEF S
<1>17. Reverse(b, h, p) \in [0..N - 1 -> Nat]
  BY <1>9, <1>16
<1> QED
  BY <1>11, <1>12, <1>17 DEF base

\* A block's place behind the pointer, seen from the last block.
LEMMA BackIs ==
  ASSUME NEW b, NEW h \in Slots, NEW p \in Slots, NEW k \in 0..Depth(h, p)
  PROVE  Back(b, h, Depth(h, p) - k) = b[Ahead(p, k)] /\ Depth(h, p) \in 0..N - 1
<1> DEFINE c == Depth(h, p)
           g == Before(h)
<1>1. g \in Slots
  BY AfterIs
<1>2. c = (IF p <= g THEN g - p ELSE g - p + N) /\ c \in 0..N - 1
  BY <1>1, StepsIs DEF Depth
<1> HIDE DEF c, g
<1>3. k \in 0..N /\ N - (c - k) \in 0..N
  BY <1>2, RingSize DEF c
<1>4. Ahead(p, k) = IF p + k < N THEN p + k ELSE p + k - N
  BY <1>3, AheadIs
<1>5. Ahead(g, N - (c - k)) = IF g + (N - (c - k)) < N THEN g + (N - (c - k)) ELSE g + (N - (c - k)) - N
  BY <1>1, <1>3, AheadIs
<1>6. Ahead(g, N - (c - k)) = Ahead(p, k)
  BY <1>1, <1>2, <1>3, <1>4, <1>5, RingSize DEF Slots, c
<1> QED
  BY <1>2, <1>6 DEF Back, c, g

\* Entry speeds e from the pointer on, planned backward (r) and forward over the blocks x.
PlansBack(x, c, r) ==
  /\ r \in [1..c -> Nat]
  /\ r[c] = Least(x[c].max_entry, x[c].length)
  /\ \A k \in 1..c - 1 : r[k] = Raised(x[k], r[k + 1])
Plans(x, c, r, e) ==
  /\ PlansBack(x, c, r)
  /\ e \in [0..c -> Nat] /\ e[0] = x[0].entry
  /\ \A k \in 1..c : e[k] = Least(r[k], e[k - 1] + x[k - 1].length)

LEMMA BackwardPass ==
  ASSUME NEW b \in Rings, NEW h \in Slots, NEW p \in Slots, Depth(h, p) >= 1
  PROVE  PlansBack([k \in 0..Depth(h, p) |-> b[Ahead(p, k)]], Depth(h, p),
                   [k \in 1..Depth(h, p) |-> Reverse(b, h, p)[Depth(h, p) - k]])
<1> DEFINE c == Depth(h, p)
           x == [k \in 0..c |-> b[Ahead(p, k)]]
           r == [k \in 1..c |-> Reverse(b, h, p)[c - k]]
<1>1. c \in 1..N - 1
  <2>1. 0 \in 0..Depth(h, p) \/ Depth(h, p) \notin Int
    OBVIOUS
  <2>2. Depth(h, p) \in 0..N - 1
    BY StepsIs, AfterIs DEF Depth
  <2> QED
    BY <2>2, RingSize
<1>2. \A k \in 0..c : x[k] = Back(b, h, c - k)
  BY BackIs
<1> HIDE DEF c
<1>3. \A k \in 1..c : r[k] = Reverse(b, h, p)[c - k]
  OBVIOUS
<1> HIDE DEF x
<1>4. \A k \in 1..c : r[k] \in Nat
  <2>1. SUFFICES ASSUME NEW k \in 1..c PROVE Reverse(b, h, p)[c - k] \in Nat
    BY <1>3
  <2>2. c - k \in 0..N - 1
    BY <1>1, RingSize
  <2>3. Reverse(b, h, p) \in [0..N - 1 -> Nat]
    BY ReverseDef
  <2> QED
    BY <2>2, <2>3
<1>5. r \in [1..c -> Nat]
  BY <1>4
<1> HIDE DEF r
<1>6. r[c] = Least(x[c].max_entry, x[c].length)
  <2>1. r[c] = Reverse(b, h, p)[0] /\ x[c] = Back(b, h, 0)
    <3>1. c \in 1..c /\ c \in 0..c /\ c - c = 0
      BY <1>1, RingSize
    <3> QED
      BY <1>2, <1>3, <3>1
  <2> QED
    BY <2>1, ReverseDef
<1>7. ASSUME NEW k \in 1..c - 1 PROVE r[k] = Raised(x[k], r[k + 1])
  <2>1. k \in 1..c /\ k \in 0..c /\ k + 1 \in 1..c /\ c - k \in 1..N - 1 /\ c - (k + 1) = (c - k) - 1
    BY <1>1, RingSize
  <2>2. r[k] = Reverse(b, h, p)[c - k] /\ r[k + 1] = Reverse(b, h, p)[(c - k) - 1] /\ x[k] = Back(b, h, c - k)
    BY <1>2, <1>3, <2>1
  <2> QED
    BY <2>1, <2>2, ReverseDef
<1> QED
  BY <1>5, <1>6, <1>7 DEF PlansBack, c, x, r

\* The forward pass.
Planning(b, h, p, k) == IF k = 0 THEN b[p].entry ELSE Reverse(b, h, p)[Depth(h, p) - k]
Forward(b, h, p) ==
  CHOOSE f : f = [k \in 0..Depth(h, p) |->
    IF k = 0 THEN Planning(b, h, p, 0)
    ELSE Least(Planning(b, h, p, k), f[k - 1] + b[Ahead(p, k - 1)].length)]
Bounds(b, h, p) ==
  {k \in 1..Depth(h, p) : \/ Forward(b, h, p)[k] < Planning(b, h, p, k)
                          \/ Forward(b, h, p)[k] = b[Ahead(p, k)].max_entry}

LEMMA RecalculatedDef ==
  ASSUME NEW b, NEW h, NEW p
  PROVE  Recalculated(b, h, p) =
    [ring    |-> [i \in Slots |-> IF Steps(p, i) \in 1 .. Depth(h, p)
                                  THEN [b[i] EXCEPT !.entry = Forward(b, h, p)[Steps(p, i)]] ELSE b[i]],
     planned |-> IF Bounds(b, h, p) = {} THEN p ELSE Ahead(p, Max(Bounds(b, h, p)))]
  BY DEF Recalculated, Forward, Planning, Bounds

LEMMA ForwardPass ==
  ASSUME NEW b \in Rings, NEW h \in Slots, NEW p \in Slots, Depth(h, p) >= 1
  PROVE  Plans([k \in 0..Depth(h, p) |-> b[Ahead(p, k)]], Depth(h, p),
               [k \in 1..Depth(h, p) |-> Reverse(b, h, p)[Depth(h, p) - k]], Forward(b, h, p))
<1> DEFINE c == Depth(h, p)
           x == [k \in 0..c |-> b[Ahead(p, k)]]
           r == [k \in 1..c |-> Reverse(b, h, p)[c - k]]
           base == b[p].entry
           step == [k \in Nat |-> [v \in Nat |-> IF k \in 1..c THEN Least(r[k], v + x[k - 1].length) ELSE v]]
           Value(f, k) == IF k = 0 THEN base ELSE Least(r[k], f[k - 1] + x[k - 1].length)
<1>1. PlansBack(x, c, r)
  BY BackwardPass
<1>2. c \in 1..N - 1
  BY StepsIs, AfterIs, RingSize DEF Depth
<1>3. \A k \in 0..c : x[k] \in Blocks
  <2>1. SUFFICES ASSUME NEW k \in 0..c PROVE b[Ahead(p, k)] \in Blocks
    OBVIOUS
  <2>2. k \in 0..N
    BY <1>2, RingSize
  <2>3. Ahead(p, k) \in Slots
    BY <2>2, AheadIs
  <2> QED
    BY <2>3 DEF Rings
<1>4. base \in Nat /\ x[0].entry = base
  <2>1. Ahead(p, 0) = p /\ b[p] \in Blocks
    BY AheadIs, RingSize DEF Slots, Rings
  <2>2. 0 \in 0..c
    BY <1>2, RingSize
  <2> QED
    BY <2>1, <2>2 DEF Blocks
<1>5. Forward(b, h, p) = CHOOSE f : f = [k \in 0..c |-> Value(f, k)]
  <2>1. \A k \in 0..c : k = 0 \/ (k \in 1..c /\ k - 1 \in 0..c)
    BY <1>2, RingSize
  <2>2. \A f : [k \in 0..c |-> Value(f, k)] =
               [k \in 0..c |-> IF k = 0 THEN Planning(b, h, p, 0)
                               ELSE Least(Planning(b, h, p, k), f[k - 1] + b[Ahead(p, k - 1)].length)]
    BY <2>1 DEF Planning
  <2> QED
    BY <2>2 DEF Forward
<1> HIDE DEF base, x, r, c
<1>6. ASSUME NEW k \in 1..c, NEW v \in Nat PROVE Least(r[k], v + x[k - 1].length) \in Nat
  <2>1. r[k] \in Nat
    BY <1>1 DEF PlansBack
  <2>2. x[k - 1].length \in Nat
    BY <1>2, <1>3, RingSize DEF Blocks
  <2>3. v + x[k - 1].length \in Nat
    BY <2>2
  <2> QED
    BY <2>1, <2>3, LeastIs
<1>7. step \in StepsOn(Nat)
  BY <1>6 DEF StepsOn
<1> HIDE DEF step
<1>8. PICK f : Made(f, Nat, base, step, c)
  <2>1. c \in Nat
    BY <1>2, RingSize
  <2> QED
    BY <2>1, <1>4, <1>7, RecursionUpTo
<1>9. ASSUME NEW k \in 1..c PROVE f[k] = Least(r[k], f[k - 1] + x[k - 1].length)
  <2>1. f[k] = step[k][f[k - 1]] /\ f[k - 1] \in Nat /\ k \in Nat
    BY <1>2, <1>8, RingSize DEF Made
  <2> QED
    BY <2>1 DEF step
<1>10. f = [k \in 0..c |-> Value(f, k)]
  BY <1>2, <1>8, <1>9, RingSize DEF Made
<1> DEFINE e == Forward(b, h, p)
<1>11. e = [k \in 0..c |-> Value(e, k)]
  BY <1>5, <1>10
<1>12. \A k \in 0..c : e[k] = Value(e, k)
  BY <1>11
<1>13. e[0] = x[0].entry
  BY <1>2, <1>4, <1>12, RingSize
<1>14. \A k \in 1..c : e[k] = Least(r[k], e[k - 1] + x[k - 1].length)
  BY <1>2, <1>12, RingSize
<1> HIDE DEF e
<1> DEFINE S == {k \in Nat : k <= c => e[k] \in Nat}
<1>15. 0 \in S
  BY <1>4, <1>13
<1>16. ASSUME NEW k \in Nat, k \in S PROVE k + 1 \in S
  <2>1. SUFFICES ASSUME k + 1 <= c PROVE e[k + 1] \in Nat
    OBVIOUS
  <2>2. k + 1 \in 1..c /\ (k + 1) - 1 = k /\ e[k] \in Nat
    BY <1>2, <1>16, <2>1, RingSize
  <2>3. e[k + 1] = Least(r[k + 1], e[k] + x[k].length)
    BY <1>14, <2>2
  <2> QED
    BY <1>6, <2>2, <2>3
<1> HIDE DEF S
<1>17. \A k \in Nat : k \in S
  BY <1>15, <1>16, Induction
<1>18. e \in [0..c -> Nat]
  BY <1>2, <1>11, <1>17, RingSize DEF S
<1> QED
  BY <1>1, <1>13, <1>14, <1>18 DEF Plans, c, x, r, e

LEMMA MaxIs ==
  ASSUME NEW c \in Nat, NEW S \in SUBSET (1..c), S # {}
  PROVE  Max(S) \in S /\ \A k \in S : k <= Max(S)
<1> DEFINE T == {d \in Nat : c - d \in S}
<1>1. PICK k \in S : TRUE
  OBVIOUS
<1>2. k \in Nat /\ k <= c /\ c - k \in Nat /\ c - (c - k) = k
  BY <1>1
<1>3. c - k \in T
  BY <1>1, <1>2
<1>4. T \in SUBSET Nat /\ T # {}
  BY <1>3
<1>5. PICK d \in T : \A n \in T : d <= n
  BY <1>4, LeastNumber
<1>6. c - d \in S
  BY <1>5
<1>7. ASSUME NEW n \in S PROVE c - d >= n
  <2>1. n \in Nat /\ n <= c /\ c - n \in Nat /\ c - (c - n) = n
    OBVIOUS
  <2>2. c - n \in T
    BY <2>1
  <2>3. d <= c - n /\ d \in Nat
    BY <1>5, <2>2
  <2> QED
    BY <2>1, <2>3
<1> HIDE DEF T
<1>8. \E m \in S : \A n \in S : m >= n
  BY <1>6, <1>7
<1>9. Max(S) \in S /\ \A n \in S : Max(S) >= n
  BY <1>8 DEF Max
<1> QED
  BY <1>9

\* What is left of a block's way down after block k of x, with entry speeds e; the last one ends
\* at rest.
Leave(e, c, k) == IF k = c THEN 0 ELSE e[k + 1]
Entries(x, c) == [k \in 0..c |-> x[k].entry]

\* The plan e respects the maxima and what lies before and behind a block, and none of its speeds
\* can be raised.
CappedBy(x, c, e) == \A k \in 1..c : e[k] <= x[k].max_entry
SlowsDown(x, c, e) == \A k \in 1..c : e[k] <= x[k].length + Leave(e, c, k)
SpeedsUp(x, c, e) == \A k \in 1..c : e[k] <= e[k - 1] + x[k - 1].length
TightAt(x, c, e, k) ==
  \/ e[k] = x[k].max_entry
  \/ e[k] = e[k - 1] + x[k - 1].length
  \/ e[k] = x[k].length + Leave(e, c, k)
TightPlan(x, c, e) == \A k \in 1..c : TightAt(x, c, e, k)

\* The reverse pass lowers no entry speed, if the blocks could be left at what was planned before.
LEMMA Raises ==
  ASSUME NEW c \in Nat, c >= 1, NEW x \in [0..c -> Blocks], NEW r, PlansBack(x, c, r),
         CappedBy(x, c, Entries(x, c)), SlowsDown(x, c, Entries(x, c))
  PROVE  \A k \in 1..c : x[k].entry <= r[k] /\ r[k] <= x[k].length + Leave(r, c, k)
<1>0. \A k \in 0..c : x[k].length \in Nat /\ x[k].max_entry \in Nat /\ x[k].entry \in Nat /\ x[k] \in Blocks
  BY DEF Blocks
<1>1. \A k \in 1..c : r[k] \in Nat
  BY DEF PlansBack
<1>a. \A k \in 0..c : Entries(x, c)[k] = x[k].entry
  BY DEF Entries
<1>b. \A k \in 1..c : k \in 0..c /\ (k # c => k + 1 \in 0..c)
  OBVIOUS
<1>2. \A k \in 1..c : x[k].entry <= x[k].max_entry
  BY <1>a, <1>b DEF CappedBy
<1>3. x[c].entry <= x[c].length
  <2>1. c \in 1..c
    OBVIOUS
  <2> QED
    BY <1>0, <1>a, <1>b, <2>1 DEF SlowsDown, Leave
<1>4. \A k \in 1..c - 1 : x[k].entry <= x[k].length + x[k + 1].entry
  <2>1. SUFFICES ASSUME NEW k \in 1..c - 1 PROVE x[k].entry <= x[k].length + x[k + 1].entry
    OBVIOUS
  <2>2. k \in 1..c /\ k # c /\ k + 1 \in 0..c
    OBVIOUS
  <2> QED
    BY <1>a, <1>b, <2>2 DEF SlowsDown, Leave
<1>5. r[c] = Least(x[c].max_entry, x[c].length)
  BY DEF PlansBack
<1>6. x[c].entry <= r[c] /\ r[c] <= x[c].length
  <2>1. c \in 1..c /\ c \in 0..c
    OBVIOUS
  <2>2. x[c].length \in Nat /\ x[c].max_entry \in Nat /\ x[c].entry \in Nat /\ x[c].entry <= x[c].max_entry
    BY <1>0, <1>2, <2>1
  <2> QED
    BY <1>3, <1>5, <2>2 DEF Least
<1>7. ASSUME NEW k \in 1..c - 1, x[k + 1].entry <= r[k + 1]
      PROVE  x[k].entry <= r[k] /\ r[k] <= x[k].length + r[k + 1]
  <2>1. k \in 1..c /\ k \in 0..c /\ k + 1 \in 1..c /\ k + 1 \in 0..c
    OBVIOUS
  <2>2. r[k] = Raised(x[k], r[k + 1])
    BY DEF PlansBack
  <2>3. x[k].entry <= x[k].length + x[k + 1].entry /\ x[k].entry <= x[k].max_entry
    BY <1>2, <1>4, <2>1
  <2>4. /\ x[k].length \in Nat /\ x[k].max_entry \in Nat /\ x[k].entry \in Nat
        /\ x[k + 1].entry \in Nat /\ r[k + 1] \in Nat
    BY <1>0, <1>1, <2>1
  <2> QED
    BY <1>7, <2>2, <2>3, <2>4 DEF Raised, Least
<1> DEFINE S == {d \in Nat : d < c => x[c - d].entry <= r[c - d]}
<1>8. 0 \in S
  BY <1>6
<1>9. ASSUME NEW d \in Nat, d \in S PROVE d + 1 \in S
  <2>1. SUFFICES ASSUME d + 1 < c PROVE x[c - (d + 1)].entry <= r[c - (d + 1)]
    OBVIOUS
  <2>2. c - (d + 1) \in 1..c - 1 /\ (c - (d + 1)) + 1 = c - d
    BY <2>1
  <2>3. x[c - d].entry <= r[c - d]
    BY <1>9, <2>1
  <2> QED
    BY <1>7, <2>2, <2>3
<1> HIDE DEF S
<1>10. \A d \in Nat : d \in S
  BY <1>8, <1>9, Induction
<1>11. \A k \in 1..c : x[k].entry <= r[k]
  <2>1. SUFFICES ASSUME NEW k \in 1..c PROVE x[k].entry <= r[k]
    OBVIOUS
  <2>2. c - k \in Nat /\ c - k < c /\ c - (c - k) = k
    OBVIOUS
  <2>3. c - k \in S
    BY <1>10, <2>2
  <2> QED
    BY <2>2, <2>3 DEF S
<1>12. ASSUME NEW k \in 1..c PROVE r[k] <= x[k].length + Leave(r, c, k)
  <2>1. CASE k = c
    BY <1>0, <1>6, <2>1 DEF Leave
  <2>2. CASE k # c
    <3>1. k \in 1..c - 1 /\ k + 1 \in 1..c
      BY <2>2
    <3>2. r[k] <= x[k].length + r[k + 1]
      BY <1>7, <1>11, <3>1
    <3> QED
      BY <2>2, <3>2 DEF Leave
  <2> QED
    BY <2>1, <2>2
<1> QED
  BY <1>11, <1>12

\* Whatever was planned before, the passes keep to the maxima and to what the machine can speed up.
LEMMA PlanBounded ==
  ASSUME NEW c \in Nat, c >= 1, NEW x \in [0..c -> Blocks], NEW r, NEW e, Plans(x, c, r, e)
  PROVE  CappedBy(x, c, e) /\ SpeedsUp(x, c, e)
<1>0. \A k \in 0..c : x[k].length \in Nat /\ x[k].max_entry \in Nat /\ x[k].entry \in Nat /\ x[k] \in Blocks
  BY DEF Blocks
<1>1. PlansBack(x, c, r) /\ \A k \in 1..c : r[k] \in Nat
  BY DEF Plans, PlansBack
<1>2. \A k \in 0..c : e[k] \in Nat
  BY DEF Plans
<1>3. ASSUME NEW k \in 1..c PROVE r[k] <= x[k].max_entry
  <2>0. k \in 0..c /\ x[k].length \in Nat /\ x[k].max_entry \in Nat /\ x[k] \in Blocks
    BY <1>0
  <2>1. CASE k = c
    <3>1. r[c] = Least(x[c].max_entry, x[c].length)
      BY <1>1 DEF PlansBack
    <3>2. x[c].max_entry \in Nat /\ x[c].length \in Nat
      BY <1>0
    <3>3. r[c] <= x[c].max_entry
      BY <3>1, <3>2, LeastIs
    <3> QED
      BY <2>1, <3>3
  <2>2. CASE k # c
    <3>1. k \in 1..c - 1 /\ k + 1 \in 1..c
      BY <2>2
    <3>2. r[k] = Raised(x[k], r[k + 1]) /\ r[k + 1] \in Nat
      BY <1>1, <3>1 DEF PlansBack
    <3> QED
      BY <2>0, <3>2, RaisedIs
  <2> QED
    BY <2>1, <2>2
<1>4. ASSUME NEW k \in 1..c PROVE e[k] <= r[k] /\ e[k] <= e[k - 1] + x[k - 1].length
  <2>1. k - 1 \in 0..c /\ e[k - 1] \in Nat /\ x[k - 1].length \in Nat /\ r[k] \in Nat
    BY <1>0, <1>1, <1>2
  <2>2. e[k] = Least(r[k], e[k - 1] + x[k - 1].length)
    BY DEF Plans
  <2> QED
    BY <2>1, <2>2 DEF Least
<1>5. ASSUME NEW k \in 1..c PROVE e[k] <= x[k].max_entry
  <2>1. k \in 0..c /\ e[k] \in Nat /\ r[k] \in Nat /\ x[k].max_entry \in Nat
    BY <1>0, <1>1, <1>2
  <2> QED
    BY <1>3, <1>4, <2>1
<1> QED
  BY <1>4, <1>5 DEF CappedBy, SpeedsUp

\* If the blocks could be left at what was planned before, they can be left at what is planned
\* now, and none of its speeds can be raised.
LEMMA PlanSound ==
  ASSUME NEW c \in Nat, c >= 1, NEW x \in [0..c -> Blocks], NEW r, NEW e, Plans(x, c, r, e),
         CappedBy(x, c, Entries(x, c)), SlowsDown(x, c, Entries(x, c))
  PROVE  /\ SlowsDown(x, c, e) /\ TightPlan(x, c, e)
         /\ x[0].entry <= x[0].length + x[1].entry => e[0] <= x[0].length + e[1]
<1>0. \A k \in 0..c : x[k].length \in Nat /\ x[k].max_entry \in Nat /\ x[k].entry \in Nat /\ x[k] \in Blocks
  BY DEF Blocks
<1>1. PlansBack(x, c, r) /\ \A k \in 1..c : r[k] \in Nat
  BY DEF Plans, PlansBack
<1>2. \A k \in 0..c : e[k] \in Nat
  BY DEF Plans
<1>3. \A k \in 1..c : x[k].entry <= r[k] /\ r[k] <= x[k].length + Leave(r, c, k)
  BY <1>1, Raises
<1>4. ASSUME NEW k \in 1..c
      PROVE  e[k] = Least(r[k], e[k - 1] + x[k - 1].length) /\ e[k - 1] \in Nat /\ x[k - 1].length \in Nat
  <2>1. k - 1 \in 0..c
    OBVIOUS
  <2> QED
    BY <1>0, <1>2, <2>1 DEF Plans
<1>5. ASSUME NEW k \in 1..c - 1 PROVE e[k + 1] = Least(r[k + 1], e[k] + x[k].length)
  <2>1. k + 1 \in 1..c /\ (k + 1) - 1 = k
    OBVIOUS
  <2> QED
    BY <1>4, <2>1
<1>6. ASSUME NEW k \in 1..c PROVE e[k] <= x[k].length + Leave(e, c, k)
  <2>0. e[k] \in Nat /\ r[k] \in Nat /\ x[k].length \in Nat
    BY <1>0, <1>1, <1>2
  <2>1. e[k] <= r[k]
    BY <1>4, <2>0 DEF Least
  <2>2. CASE k = c
    BY <1>3, <2>0, <2>1, <2>2 DEF Leave
  <2>3. CASE k # c
    <3>1. k \in 1..c - 1 /\ k + 1 \in 1..c /\ k + 1 \in 0..c
      BY <2>3
    <3>2. r[k] <= x[k].length + r[k + 1]
      BY <1>3, <2>3 DEF Leave
    <3>3. e[k + 1] = Least(r[k + 1], e[k] + x[k].length) /\ r[k + 1] \in Nat
      BY <1>1, <1>5, <3>1
    <3> QED
      BY <2>0, <2>1, <2>3, <3>2, <3>3 DEF Leave, Least
  <2> QED
    BY <2>2, <2>3
<1>7. ASSUME NEW k \in 1..c PROVE TightAt(x, c, e, k)
  <2>0. /\ k \in 0..c /\ e[k] \in Nat /\ r[k] \in Nat /\ x[k].length \in Nat /\ x[k].max_entry \in Nat
        /\ x[k] \in Blocks
    BY <1>0, <1>1, <1>2
  <2>1. e[k] = r[k] \/ e[k] = e[k - 1] + x[k - 1].length
    BY <1>4 DEF Least
  <2>2. CASE e[k] = r[k]
    <3>1. CASE k = c
      <4>1. r[k] \in {x[k].max_entry, x[k].length}
        BY <1>1, <2>0, <3>1, LeastIs DEF PlansBack
      <4> QED
        BY <2>0, <2>2, <3>1, <4>1 DEF TightAt, Leave
    <3>2. CASE k # c
      <4>1. k \in 1..c - 1 /\ k + 1 \in 1..c /\ k + 1 \in 0..c
        BY <3>2
      <4>2. r[k] = Raised(x[k], r[k + 1]) /\ r[k + 1] \in Nat
        BY <1>1, <4>1 DEF PlansBack
      <4>3. r[k] = x[k].max_entry \/ r[k] = r[k + 1] + x[k].length
        BY <2>0, <4>2, RaisedIs
      <4>4. CASE r[k] = r[k + 1] + x[k].length
        <5>1. e[k + 1] = Least(r[k + 1], e[k] + x[k].length)
          BY <1>5, <4>1
        <5>2. e[k + 1] = r[k + 1]
          BY <2>0, <2>2, <4>2, <4>4, <5>1 DEF Least
        <5> QED
          BY <2>0, <2>2, <3>2, <4>2, <4>4, <5>2 DEF TightAt, Leave
      <4> QED
        BY <2>2, <4>3, <4>4 DEF TightAt
    <3> QED
      BY <3>1, <3>2
  <2> QED
    BY <2>1, <2>2 DEF TightAt
<1>8. ASSUME x[0].entry <= x[0].length + x[1].entry PROVE e[0] <= x[0].length + e[1]
  <2>1. 1 \in 1..c /\ 1 \in 0..c /\ 0 \in 0..c
    OBVIOUS
  <2>2. e[1] = Least(r[1], e[0] + x[0].length) /\ e[0] = x[0].entry
    BY <1>4, <2>1 DEF Plans
  <2>3. x[1].entry <= r[1]
    BY <1>3, <2>1
  <2>4. e[0] \in Nat /\ r[1] \in Nat /\ x[0].length \in Nat /\ x[1].entry \in Nat
    BY <1>0, <1>1, <1>2, <2>1
  <2> QED
    BY <1>8, <2>2, <2>3, <2>4 DEF Least
<1> QED
  BY <1>6, <1>7, <1>8 DEF SlowsDown, TightPlan

\* The result of planner_recalculate(): the blocks behind the pointer p have the entry speeds e, and
\* the pointer moves to the last that cannot become faster whatever is planned behind it.
Replanned(b, p, c, x, e, m, plan) ==
  /\ plan.ring \in Rings
  /\ \A i \in Slots : Steps(p, i) \notin 1..c => plan.ring[i] = b[i]
  /\ \A k \in 1..c : plan.ring[Ahead(p, k)] = [x[k] EXCEPT !.entry = e[k]]
  /\ plan.planned = Ahead(p, m)
  /\ m > 0 => e[m] = x[m].max_entry \/ e[m] = e[m - 1] + x[m - 1].length
  /\ e[c] = x[c].max_entry => m = c

\* The blocks of ring b from slot t on, up to the one c behind it.
LineOf(b, t, c) == [k \in 0..c |-> b[Ahead(t, k)]]

Passed(b, p, c, x, plan) ==
  /\ c \in 1..N - 1 /\ x \in [0..c -> Blocks]
  /\ \E r, e : \E m \in 0..c : Plans(x, c, r, e) /\ Replanned(b, p, c, x, e, m, plan)

LEMMA Passes ==
  ASSUME NEW b \in Rings, NEW h \in Slots, NEW p \in Slots, Depth(h, p) >= 1
  PROVE  Passed(b, p, Depth(h, p), LineOf(b, p, Depth(h, p)), Recalculated(b, h, p))
<1> DEFINE c == Depth(h, p)
           x == LineOf(b, p, c)
<1> c = Depth(h, p) /\ c >= 1
  OBVIOUS
<1> x = [k \in 0..c |-> b[Ahead(p, k)]]
  BY DEF LineOf
<1> HIDE DEF c, x
<1> DEFINE r == [k \in 1..c |-> Reverse(b, h, p)[c - k]]
           e == Forward(b, h, p)
           S == Bounds(b, h, p)
           m == IF S = {} THEN 0 ELSE Max(S)
           plan == Recalculated(b, h, p)
<1>1. c \in 1..N - 1
  BY StepsIs, AfterIs, RingSize DEF Depth
<1>2. \A k \in 0..c : Ahead(p, k) \in Slots /\ k \in 0..N - 1
  <2>1. SUFFICES ASSUME NEW k \in 0..c PROVE Ahead(p, k) \in Slots /\ k \in 0..N - 1
    OBVIOUS
  <2>2. k \in 0..N /\ k \in 0..N - 1
    BY <1>1, RingSize
  <2> QED
    BY <2>2, AheadIs
<1>3. x \in [0..c -> Blocks]
  BY <1>2 DEF Rings
<1>4. Plans(x, c, r, e)
  BY ForwardPass DEF c, x, LineOf
<1>5. \A k \in 1..c : k \in 0..c /\ Planning(b, h, p, k) = r[k]
  BY <1>1, RingSize DEF Planning
<1>6. S = {k \in 1..c : e[k] < r[k] \/ e[k] = x[k].max_entry}
  BY <1>5 DEF Bounds
<1>7. /\ plan.ring = [i \in Slots |-> IF Steps(p, i) \in 1..c THEN [b[i] EXCEPT !.entry = e[Steps(p, i)]] ELSE b[i]]
      /\ plan.planned = IF S = {} THEN p ELSE Ahead(p, Max(S))
  BY RecalculatedDef
<1> HIDE DEF r, e, S, plan
<1>8. c \in Nat /\ 0 \in 0..c /\ c \in 1..c
  BY <1>1, RingSize
<1>9. S # {} => Max(S) \in S /\ \A k \in S : k <= Max(S)
  BY <1>6, <1>8, MaxIs
<1>10. m \in 0..c
  BY <1>6, <1>8, <1>9
<1>11. plan.ring \in Rings
  <2>1. SUFFICES ASSUME NEW i \in Slots, Steps(p, i) \in 1..c
                 PROVE  [b[i] EXCEPT !.entry = e[Steps(p, i)]] \in Blocks
    BY <1>7 DEF Rings
  <2>2. e[Steps(p, i)] \in Nat
    BY <1>4, <1>5, <2>1 DEF Plans
  <2>3. b[i] \in Blocks
    BY DEF Rings
  <2> QED
    BY <2>2, <2>3 DEF Blocks
<1>12. ASSUME NEW k \in 1..c PROVE plan.ring[Ahead(p, k)] = [x[k] EXCEPT !.entry = e[k]]
  <2>1. k \in 0..c
    BY <1>5
  <2>2. Ahead(p, k) \in Slots /\ Steps(p, Ahead(p, k)) = k /\ x[k] = b[Ahead(p, k)]
    BY <1>2, <2>1, StepsAhead
  <2> QED
    BY <1>7, <2>2
<1>13. plan.planned = Ahead(p, m)
  <2>1. Ahead(p, 0) = p
    BY AheadIs, RingSize DEF Slots
  <2> QED
    BY <1>7, <2>1
<1>14. ASSUME m > 0 PROVE e[m] = x[m].max_entry \/ e[m] = e[m - 1] + x[m - 1].length
  <2>1. m \in S
    BY <1>9, <1>14
  <2>2. m \in 1..c /\ (e[m] < r[m] \/ e[m] = x[m].max_entry)
    BY <1>6, <2>1
  <2>3. e[m] = Least(r[m], e[m - 1] + x[m - 1].length)
    BY <1>4, <2>2 DEF Plans
  <2>4. e[m] \in Nat /\ r[m] \in Nat
    BY <1>4, <1>5, <2>2 DEF Plans, PlansBack
  <2> QED
    BY <2>2, <2>3, <2>4 DEF Least
<1>15. ASSUME e[c] = x[c].max_entry PROVE m = c
  <2>1. c \in S
    BY <1>6, <1>8, <1>15
  <2>2. Max(S) \in S /\ c <= Max(S)
    BY <1>9, <2>1
  <2>3. Max(S) \in 1..c
    BY <1>6, <2>2
  <2>4. Max(S) = c
    BY <1>8, <2>2, <2>3
  <2> QED
    BY <2>1, <2>4
<1>16. Replanned(b, p, c, x, e, m, plan)
  BY <1>7, <1>11, <1>12, <1>13, <1>14, <1>15 DEF Replanned
<1> QED
  BY <1>1, <1>3, <1>4, <1>10, <1>16 DEF plan, Passed, c, x

-----------------------------------------------------------------------------
(* Planning from the pointer on keeps what was planned before it *)

\* The entry speed of block k cannot become faster whatever is planned behind it.
FixedAt(x, f, k) == k = 0 \/ f[k] = x[k].max_entry \/ f[k] = f[k - 1] + x[k - 1].length

\* y is the line of blocks x planned again from block P on, with the entry speeds e.
PlannedFrom(x, y, c, P, e) ==
  /\ \A k \in 0..c : y[k].length = x[k].length /\ y[k].max_entry = x[k].max_entry
  /\ \A k \in 0..P : y[k].entry = x[k].entry
  /\ \A q \in 0..c - P : y[P + q].entry = e[q]

LEMMA PlanAgain ==
  ASSUME NEW c \in Nat, NEW P \in 0..c - 1, NEW x \in [0..c -> Blocks], NEW y \in [0..c -> Blocks],
         NEW r, NEW e, Plans([q \in 0..c - P |-> x[P + q]], c - P, r, e), PlannedFrom(x, y, c, P, e)
  PROVE  /\ (\A k \in 1..P : x[k].entry <= x[k].max_entry) => CappedBy(y, c, Entries(y, c))
         /\ (\A k \in 1..P : x[k].entry <= x[k - 1].entry + x[k - 1].length) => SpeedsUp(y, c, Entries(y, c))
         /\ CappedBy(x, c, Entries(x, c)) /\ SlowsDown(x, c, Entries(x, c)) =>
              /\ SlowsDown(y, c, Entries(y, c))
              /\ x[0].entry <= x[0].length + x[1].entry => y[0].entry <= y[0].length + y[1].entry
              /\ (\A k \in 1..P - 1 : TightAt(x, c, Entries(x, c), k)) /\ FixedAt(x, Entries(x, c), P) =>
                   TightPlan(y, c, Entries(y, c))
<1> DEFINE n == c - P
           z == [q \in 0..n |-> x[P + q]]
           f == Entries(x, c)
           g == Entries(y, c)
<1>0. n \in Nat /\ n >= 1 /\ P \in Nat /\ P <= c - 1 /\ c >= 1
  OBVIOUS
<1>1. \A q \in 0..n : P + q \in 0..c /\ z[q] = x[P + q]
  BY <1>0
<1>2. z \in [0..n -> Blocks] /\ Plans(z, n, r, e)
  BY <1>0, <1>1
<1>3. \A k \in 0..c : f[k] = x[k].entry /\ g[k] = y[k].entry
  BY DEF Entries
<1>4. \A k \in 0..P : g[k] = f[k]
  BY <1>0, <1>3 DEF PlannedFrom
<1>5. \A q \in 0..n : g[P + q] = e[q]
  BY <1>1, <1>3 DEF PlannedFrom
<1>6. \A k \in 0..c : y[k].length = x[k].length /\ y[k].max_entry = x[k].max_entry
  BY DEF PlannedFrom
<1>7. \A q \in 0..n : Entries(z, n)[q] = f[P + q]
  BY <1>1, <1>3 DEF Entries
<1> HIDE DEF n, z, f, g
<1>8. \A k \in 1..c : k > P => k - P \in 1..n /\ P + (k - P) = k /\ k \in 0..c /\ (k = c <=> k - P = n)
  BY <1>0 DEF n
<1>9. ASSUME NEW k \in 1..c, k > P
      PROVE  /\ k - P \in 1..n /\ k - P \in 0..n /\ k - P - 1 \in 0..n
             /\ g[k] = e[k - P] /\ z[k - P] = x[k] /\ g[k - 1] = e[k - P - 1] /\ z[k - P - 1] = x[k - 1]
             /\ Leave(g, c, k) = Leave(e, n, k - P)
  <2>1. k - P \in 1..n /\ k - P \in 0..n /\ k - P - 1 \in 0..n /\ P + (k - P) = k /\ P + (k - P - 1) = k - 1
    BY <1>0, <1>8, <1>9
  <2>2. g[k] = e[k - P] /\ z[k - P] = x[k] /\ g[k - 1] = e[k - P - 1] /\ z[k - P - 1] = x[k - 1]
    BY <1>1, <1>5, <2>1
  <2>3. k # c => k - P + 1 \in 0..n /\ P + (k - P + 1) = k + 1
    BY <1>0, <1>8, <1>9
  <2>4. k # c => g[k + 1] = e[k - P + 1]
    BY <1>5, <2>3
  <2>5. Leave(g, c, k) = Leave(e, n, k - P)
    BY <1>8, <1>9, <2>4 DEF Leave
  <2> QED
    BY <2>1, <2>2, <2>5
<1>10. CappedBy(z, n, e) /\ SpeedsUp(z, n, e)
  BY <1>0, <1>2, PlanBounded DEF n
<1>11. ASSUME \A k \in 1..P : x[k].entry <= x[k].max_entry PROVE CappedBy(y, c, g)
  <2>1. SUFFICES ASSUME NEW k \in 1..c PROVE g[k] <= x[k].max_entry
    BY <1>6 DEF CappedBy
  <2>2. CASE k <= P
    BY <1>0, <1>3, <1>4, <1>11, <2>2
  <2>3. CASE k > P
    BY <1>9, <1>10, <2>3 DEF CappedBy
  <2> QED
    BY <1>0, <2>2, <2>3
<1>12. ASSUME \A k \in 1..P : x[k].entry <= x[k - 1].entry + x[k - 1].length PROVE SpeedsUp(y, c, g)
  <2>1. SUFFICES ASSUME NEW k \in 1..c PROVE g[k] <= g[k - 1] + x[k - 1].length
    BY <1>6 DEF SpeedsUp
  <2>2. CASE k <= P
    <3>1. k \in 1..P /\ k \in 0..P /\ k - 1 \in 0..P /\ k \in 0..c /\ k - 1 \in 0..c
      BY <1>0, <2>2
    <3> QED
      BY <1>3, <1>4, <1>12, <3>1
  <2>3. CASE k > P
    BY <1>9, <1>10, <2>3 DEF SpeedsUp
  <2> QED
    BY <1>0, <2>2, <2>3
<1>13. ASSUME CappedBy(x, c, f), SlowsDown(x, c, f)
       PROVE  CappedBy(z, n, Entries(z, n)) /\ SlowsDown(z, n, Entries(z, n))
  <2>1. ASSUME NEW q \in 1..n
        PROVE  /\ P + q \in 1..c /\ z[q] = x[P + q] /\ Entries(z, n)[q] = f[P + q]
               /\ Leave(Entries(z, n), n, q) = Leave(f, c, P + q)
    <3>1. /\ P + q \in 1..c /\ q \in 0..n /\ (q = n <=> P + q = c)
          /\ (q # n => q + 1 \in 0..n /\ P + (q + 1) = (P + q) + 1)
      BY <1>0 DEF n
    <3>2. z[q] = x[P + q] /\ Entries(z, n)[q] = f[P + q]
      BY <1>1, <1>7, <3>1
    <3>3. q # n => Entries(z, n)[q + 1] = f[(P + q) + 1]
      BY <1>7, <3>1
    <3>4. Leave(Entries(z, n), n, q) = Leave(f, c, P + q)
      BY <3>1, <3>3 DEF Leave
    <3> QED
      BY <3>1, <3>2, <3>4
  <2>2. CappedBy(z, n, Entries(z, n))
    <3>1. SUFFICES ASSUME NEW q \in 1..n PROVE Entries(z, n)[q] <= z[q].max_entry
      BY DEF CappedBy
    <3> QED
      BY <1>13, <2>1 DEF CappedBy
  <2>3. SlowsDown(z, n, Entries(z, n))
    <3>1. SUFFICES ASSUME NEW q \in 1..n PROVE Entries(z, n)[q] <= z[q].length + Leave(Entries(z, n), n, q)
      BY DEF SlowsDown
    <3> QED
      BY <1>13, <2>1 DEF SlowsDown
  <2> QED
    BY <2>2, <2>3
<1>14. ASSUME CappedBy(x, c, f), SlowsDown(x, c, f)
       PROVE  /\ SlowsDown(z, n, e) /\ TightPlan(z, n, e)
              /\ z[0].entry <= z[0].length + z[1].entry => e[0] <= z[0].length + e[1]
  BY <1>0, <1>2, <1>13, <1>14, PlanSound DEF n
<1>15. /\ z[0] = x[P] /\ z[1] = x[P + 1] /\ g[P] = e[0] /\ g[P + 1] = e[1] /\ P \in 0..c /\ P + 1 \in 0..c
       /\ f[P] = x[P].entry /\ f[P + 1] = x[P + 1].entry /\ Leave(f, c, P) = f[P + 1] /\ Leave(g, c, P) = g[P + 1]
  <2>1. 0 \in 0..n /\ 1 \in 0..n /\ P + 0 = P /\ P + 1 \in 0..c /\ P # c
    BY <1>0, <1>1
  <2>2. z[0] = x[P] /\ z[1] = x[P + 1] /\ g[P] = e[0] /\ g[P + 1] = e[1]
    BY <1>1, <1>5, <2>1
  <2> QED
    BY <1>0, <1>3, <2>1, <2>2 DEF Leave
<1>16. ASSUME CappedBy(x, c, f), SlowsDown(x, c, f) PROVE SlowsDown(y, c, g)
  <2>1. SUFFICES ASSUME NEW k \in 1..c PROVE g[k] <= x[k].length + Leave(g, c, k)
    BY <1>6 DEF SlowsDown
  <2>2. CASE k > P
    BY <1>9, <1>14, <1>16, <2>2 DEF SlowsDown
  <2>3. CASE k = P
    BY <1>14, <1>15, <1>16, <2>3 DEF SlowsDown
  <2>4. CASE k < P
    <3>1. k \in 0..P /\ k + 1 \in 0..P /\ k # c
      BY <1>0, <2>4
    <3>2. g[k] = f[k] /\ g[k + 1] = f[k + 1]
      BY <1>4, <3>1
    <3> QED
      BY <1>16, <3>1, <3>2 DEF SlowsDown, Leave
  <2> QED
    BY <1>0, <2>2, <2>3, <2>4
<1>17. ASSUME CappedBy(x, c, f), SlowsDown(x, c, f), x[0].entry <= x[0].length + x[1].entry
       PROVE  y[0].entry <= y[0].length + y[1].entry
  <2>1. CASE P = 0
    BY <1>0, <1>3, <1>6, <1>14, <1>15, <1>17, <2>1
  <2>2. CASE P # 0
    <3>1. 0 \in 0..P /\ 1 \in 0..P /\ 0 \in 0..c /\ 1 \in 0..c
      BY <1>0, <2>2
    <3> QED
      BY <1>3, <1>4, <1>6, <1>17, <3>1
  <2> QED
    BY <2>1, <2>2
<1>18. ASSUME CappedBy(x, c, f), SlowsDown(x, c, f),
              \A k \in 1..P - 1 : TightAt(x, c, f, k), FixedAt(x, f, P)
       PROVE  TightPlan(y, c, g)
  <2>1. SUFFICES ASSUME NEW k \in 1..c PROVE TightAt(y, c, g, k)
    BY DEF TightPlan
  <2>2. /\ y[k].max_entry = x[k].max_entry /\ y[k].length = x[k].length
        /\ y[k - 1].length = x[k - 1].length
    <3>1. k \in 0..c /\ k - 1 \in 0..c
      BY <1>0
    <3> QED
      BY <1>6, <3>1
  <2>3. CASE k > P
    <3>1. TightAt(z, n, e, k - P)
      BY <1>9, <1>14, <1>18, <2>3 DEF TightPlan
    <3> QED
      BY <1>9, <2>2, <2>3, <3>1 DEF TightAt
  <2>4. CASE k = P
    <3>1. k \in 0..P /\ k - 1 \in 0..P /\ P # 0
      BY <1>0, <2>4
    <3>2. g[k] = f[k] /\ g[k - 1] = f[k - 1]
      BY <1>4, <3>1
    <3> QED
      BY <1>18, <2>2, <2>4, <3>1, <3>2 DEF FixedAt, TightAt
  <2>5. CASE k < P
    <3>1. k \in 1..P - 1 /\ k \in 0..P /\ k - 1 \in 0..P /\ k + 1 \in 0..P /\ k # c
      BY <1>0, <2>5
    <3>2. g[k] = f[k] /\ g[k - 1] = f[k - 1] /\ g[k + 1] = f[k + 1]
      BY <1>4, <3>1
    <3>3. TightAt(x, c, f, k)
      BY <1>18, <3>1
    <3> QED
      BY <2>2, <3>1, <3>2, <3>3 DEF TightAt, Leave
  <2> QED
    BY <1>0, <2>3, <2>4, <2>5
<1> QED
  BY <1>11, <1>12, <1>16, <1>17, <1>18 DEF f, g

-----------------------------------------------------------------------------
(* planner_recalculate() on the line of blocks in the ring *)

\* The first block can be left at the entry speed of the next one.
Opening(x, c) == x[0].entry <= x[0].length + Leave(Entries(x, c), c, 0)

\* y is the line x, planned again from block P on; the pointer is then at block Q.
Replan(x, y, c, P, Q) ==
  LET f == Entries(x, c)
      g == Entries(y, c)
  IN /\ y \in [0..c -> Blocks] /\ Q \in P..c
     /\ \A k \in 0..c : y[k] = [x[k] EXCEPT !.entry = y[k].entry]
     /\ \A k \in 0..P : y[k] = x[k]
     /\ (\A k \in 1..P : x[k].entry <= x[k].max_entry) => CappedBy(y, c, g)
     /\ (\A k \in 1..P : x[k].entry <= x[k - 1].entry + x[k - 1].length) => SpeedsUp(y, c, g)
     /\ CappedBy(x, c, f) /\ SlowsDown(x, c, f) =>
          /\ SlowsDown(y, c, g)
          /\ Opening(x, c) => Opening(y, c)
          /\ (\A k \in 1..P - 1 : TightAt(x, c, f, k)) /\ FixedAt(x, f, P) => TightPlan(y, c, g)
     /\ FixedAt(x, f, P) => FixedAt(y, g, Q)

LEMMA NothingToPlan ==
  ASSUME NEW c \in Nat, NEW x \in [0..c -> Blocks]
  PROVE  Replan(x, x, c, c, c)
<1> DEFINE f == Entries(x, c)
<1>1. \A k \in 0..c : x[k] \in Blocks /\ f[k] = x[k].entry
  BY DEF Entries
<1>2. \A k \in 0..c : x[k] = [x[k] EXCEPT !.entry = x[k].entry]
  BY <1>1 DEF Blocks
<1> HIDE DEF f
<1>3. (\A k \in 1..c : x[k].entry <= x[k].max_entry) => CappedBy(x, c, f)
  <2>1. \A k \in 1..c : k \in 0..c
    OBVIOUS
  <2> QED
    BY <1>1, <2>1 DEF CappedBy
<1>4. (\A k \in 1..c : x[k].entry <= x[k - 1].entry + x[k - 1].length) => SpeedsUp(x, c, f)
  <2>1. \A k \in 1..c : k \in 0..c /\ k - 1 \in 0..c
    OBVIOUS
  <2> QED
    BY <1>1, <2>1 DEF SpeedsUp
<1>5. (\A k \in 1..c - 1 : TightAt(x, c, f, k)) /\ FixedAt(x, f, c) => TightPlan(x, c, f)
  <2>1. SUFFICES ASSUME \A k \in 1..c - 1 : TightAt(x, c, f, k), FixedAt(x, f, c), NEW k \in 1..c
                 PROVE  TightAt(x, c, f, k)
    BY DEF TightPlan
  <2>2. CASE k = c
    BY <2>1, <2>2 DEF FixedAt, TightAt
  <2>3. CASE k # c
    BY <2>1, <2>3
  <2> QED
    BY <2>2, <2>3
<1> QED
  BY <1>2, <1>3, <1>4, <1>5 DEF Replan, f

\* A line that can be planned again from block P on, on the ring w, and what it becomes.
Plannable(w, t, h, c, P, x) ==
  /\ w \in Rings /\ t \in Slots /\ h \in Slots /\ c \in 1..N - 1 /\ P \in 0..c - 1
  /\ Before(h) = Ahead(t, c) /\ x \in [0..c -> Blocks]
  /\ \A k \in P..c : x[k] = w[Ahead(t, k)]
LineAfter(plan, t, c, P, x) == [k \in 0..c |-> IF k <= P THEN x[k] ELSE plan.ring[Ahead(t, k)]]
PlannedAs(plan, w, t, c, P, x) ==
  /\ plan.ring \in Rings
  /\ \A k \in 0..P : plan.ring[Ahead(t, k)] = w[Ahead(t, k)]
  /\ \E Q \in P..c : plan.planned = Ahead(t, Q) /\ Replan(x, LineAfter(plan, t, c, P, x), c, P, Q)

LEMMA LineReplanned ==
  ASSUME NEW w, NEW t, NEW h, NEW c, NEW P, NEW x, Plannable(w, t, h, c, P, x)
  PROVE  PlannedAs(Recalculated(w, h, Ahead(t, P)), w, t, c, P, x)
<1> DEFINE plan == Recalculated(w, h, Ahead(t, P))
           y == LineAfter(plan, t, c, P, x)
<1> plan = Recalculated(w, h, Ahead(t, P))
  OBVIOUS
<1> y = [k \in 0..c |-> IF k <= P THEN x[k] ELSE plan.ring[Ahead(t, k)]]
  BY DEF LineAfter
<1> /\ w \in Rings /\ t \in Slots /\ h \in Slots /\ c \in 1..N - 1 /\ P \in 0..c - 1
    /\ Before(h) = Ahead(t, c) /\ x \in [0..c -> Blocks] /\ \A k \in P..c : x[k] = w[Ahead(t, k)]
  BY DEF Plannable
<1> HIDE DEF plan, y
<1> DEFINE p == Ahead(t, P)
           n == c - P
           z == [q \in 0..n |-> w[Ahead(p, q)]]
<1>0. c \in Nat /\ P \in Nat /\ P <= c - 1 /\ c <= N - 1 /\ n \in Nat /\ n >= 1 /\ N \in Nat /\ N >= 3
  BY RingSize
<1>1. \A k \in 0..c : k \in 0..N - 1 /\ Ahead(t, k) \in Slots
  <2>1. SUFFICES ASSUME NEW k \in 0..c PROVE k \in 0..N - 1 /\ Ahead(t, k) \in Slots
    OBVIOUS
  <2>2. k \in 0..N - 1 /\ k \in 0..N
    BY <1>0
  <2> QED
    BY <2>2, AheadIs
<1>2. p \in Slots /\ n = Depth(h, p)
  <2>1. P \in 0..c /\ P \in 0..N - 1 /\ c \in 0..N - 1
    BY <1>0
  <2>2. Steps(Ahead(t, P), Ahead(t, c)) = c - P
    BY <1>0, <2>1, StepsBetween
  <2> QED
    BY <1>1, <2>1, <2>2 DEF Depth
<1>3. \A q \in 0..n : P + q \in P..c /\ P + q \in 0..c /\ Ahead(p, q) = Ahead(t, P + q)
  <2>1. SUFFICES ASSUME NEW q \in 0..n PROVE P + q \in P..c /\ P + q \in 0..c /\ Ahead(p, q) = Ahead(t, P + q)
    OBVIOUS
  <2>2. P + q \in P..c /\ P + q \in 0..c /\ P \in 0..N - 1 /\ q \in 0..N - 1 /\ P + q <= N - 1
    BY <1>0
  <2> QED
    BY <2>2, AheadAhead
<1> HIDE DEF p, n
<1>4. z = [q \in 0..n |-> x[P + q]]
  BY <1>3
<1> HIDE DEF z
<1>5. PICK r, e : \E m \in 0..n : Plans(z, n, r, e) /\ Replanned(w, p, n, z, e, m, plan)
  <2>1. z = LineOf(w, p, Depth(h, p)) /\ plan = Recalculated(w, h, p)
    BY <1>2 DEF z, LineOf, p
  <2>2. Depth(h, p) >= 1
    BY <1>0, <1>2
  <2>3. Passed(w, p, n, z, plan)
    BY <1>2, <2>1, <2>2, Passes
  <2> QED
    BY <2>3 DEF Passed
<1>6. PICK m \in 0..n : Plans(z, n, r, e) /\ Replanned(w, p, n, z, e, m, plan)
  BY <1>5
<1>7. plan.ring \in Rings /\ plan.planned = Ahead(p, m)
  BY <1>6 DEF Replanned
<1>8. ASSUME NEW k \in 0..P PROVE plan.ring[Ahead(t, k)] = w[Ahead(t, k)]
  <2>1. k \in 0..c /\ k \in 0..N - 1 /\ P \in 0..N - 1 /\ k <= P /\ k \in Nat
    BY <1>0
  <2>2. Steps(p, Ahead(t, k)) = IF P <= k THEN k - P ELSE k - P + N
    BY <2>1, StepsBetween DEF p
  <2>3. Steps(p, Ahead(t, k)) \notin 1..n
    BY <1>0, <2>1, <2>2 DEF n
  <2> QED
    BY <1>1, <1>6, <2>1, <2>3 DEF Replanned
<1>9. \A q \in 1..n : plan.ring[Ahead(t, P + q)] = [x[P + q] EXCEPT !.entry = e[q]]
  <2>1. SUFFICES ASSUME NEW q \in 1..n PROVE plan.ring[Ahead(t, P + q)] = [x[P + q] EXCEPT !.entry = e[q]]
    OBVIOUS
  <2>2. q \in 0..n
    BY <1>0
  <2>3. Ahead(p, q) = Ahead(t, P + q) /\ z[q] = x[P + q]
    BY <1>3, <1>4, <2>2
  <2> QED
    BY <1>6, <2>3 DEF Replanned
<1>10. e \in [0..n -> Nat] /\ e[0] = x[P].entry
  <2>1. 0 \in 0..n /\ P + 0 = P
    BY <1>0
  <2> QED
    BY <1>4, <1>6, <2>1 DEF Plans
<1>11. \A k \in 0..c : x[k] \in Blocks
  OBVIOUS
<1>12. ASSUME NEW k \in 0..c, k > P
       PROVE  k - P \in 1..n /\ y[k] = [x[k] EXCEPT !.entry = e[k - P]] /\ y[k].entry = e[k - P]
  <2>1. k - P \in 1..n /\ P + (k - P) = k /\ ~(k <= P)
    BY <1>0, <1>12 DEF n
  <2>2. y[k] = plan.ring[Ahead(t, k)]
    BY <2>1
  <2>3. y[k] = [x[k] EXCEPT !.entry = e[k - P]]
    BY <1>9, <2>1, <2>2
  <2> QED
    BY <1>11, <2>1, <2>3 DEF Blocks
<1>13. ASSUME NEW k \in 0..P PROVE k \in 0..c /\ y[k] = x[k]
  BY <1>0
<1>14. ASSUME NEW k \in 0..c PROVE y[k] \in Blocks /\ y[k] = [x[k] EXCEPT !.entry = y[k].entry]
  <2>1. CASE k <= P
    <3>1. y[k] = x[k]
      BY <1>0, <1>13, <2>1
    <3> QED
      BY <1>11, <3>1 DEF Blocks
  <2>2. CASE k > P
    <3> DEFINE a == x[k]
               v == e[k - P]
    <3>1. y[k] = [a EXCEPT !.entry = v] /\ a \in Blocks
      BY <1>0, <1>11, <1>12, <2>2
    <3>2. v \in Nat
      <4>1. k - P \in 1..n
        BY <1>12, <2>2
      <4>2. k - P \in 0..n
        BY <4>1
      <4> QED
        BY <1>10, <4>2
    <3> HIDE DEF a, v
    <3>3. /\ [a EXCEPT !.entry = v] \in Blocks
          /\ [a EXCEPT !.entry = [a EXCEPT !.entry = v].entry] = [a EXCEPT !.entry = v]
      BY <3>1, <3>2 DEF Blocks
    <3>4. y[k] \in Blocks /\ y[k] = [a EXCEPT !.entry = y[k].entry]
      BY <3>1, <3>3
    <3> QED
      BY <3>4 DEF a
  <2> QED
    BY <1>0, <2>1, <2>2
<1>15. y \in [0..c -> Blocks]
  <2>1. y = [k \in 0..c |-> y[k]]
    OBVIOUS
  <2> QED
    BY <1>14, <2>1
<1>16. PlannedFrom(x, y, c, P, e)
  <2>1. ASSUME NEW k \in 0..c PROVE y[k].length = x[k].length /\ y[k].max_entry = x[k].max_entry
    <3>1. x[k] \in Blocks /\ y[k] = [x[k] EXCEPT !.entry = y[k].entry]
      BY <1>11, <1>14
    <3> DEFINE v == y[k].entry
    <3>2. y[k] = [x[k] EXCEPT !.entry = v]
      BY <3>1
    <3> HIDE DEF v
    <3> QED
      BY <3>1, <3>2 DEF Blocks
  <2>2. \A k \in 0..P : y[k].entry = x[k].entry
    BY <1>13
  <2>3. ASSUME NEW q \in 0..c - P PROVE y[P + q].entry = e[q]
    <3>1. CASE q = 0
      <4>1. P \in 0..P /\ P + q = P
        BY <1>0, <3>1
      <4> QED
        BY <1>10, <1>13, <3>1, <4>1
    <3>2. CASE q # 0
      <4>1. P + q \in 0..c /\ P + q > P /\ (P + q) - P = q
        BY <1>0, <3>2
      <4> QED
        BY <1>12, <4>1
    <3> QED
      BY <3>1, <3>2
  <2> QED
    BY <2>1, <2>2, <2>3 DEF PlannedFrom
<1>17. /\ (\A k \in 1..P : x[k].entry <= x[k].max_entry) => CappedBy(y, c, Entries(y, c))
       /\ (\A k \in 1..P : x[k].entry <= x[k - 1].entry + x[k - 1].length) => SpeedsUp(y, c, Entries(y, c))
       /\ CappedBy(x, c, Entries(x, c)) /\ SlowsDown(x, c, Entries(x, c)) =>
            /\ SlowsDown(y, c, Entries(y, c))
            /\ x[0].entry <= x[0].length + x[1].entry => y[0].entry <= y[0].length + y[1].entry
            /\ (\A k \in 1..P - 1 : TightAt(x, c, Entries(x, c), k)) /\ FixedAt(x, Entries(x, c), P) =>
                 TightPlan(y, c, Entries(y, c))
  <2>1. Plans([q \in 0..c - P |-> x[P + q]], c - P, r, e)
    BY <1>4, <1>6 DEF n
  <2> QED
    BY <1>0, <1>15, <1>16, <2>1, PlanAgain
<1>18. /\ Leave(Entries(x, c), c, 0) = x[1].entry
       /\ Leave(Entries(y, c), c, 0) = y[1].entry
  <2>1. 1 \in 0..c /\ 0 # c /\ 0 + 1 = 1
    BY <1>0
  <2> QED
    BY <2>1 DEF Leave, Entries
<1> DEFINE Q == P + m
<1>19. Q \in P..c /\ Q \in 0..c /\ plan.planned = Ahead(t, Q)
  BY <1>3, <1>7
<1>20. ASSUME FixedAt(x, Entries(x, c), P) PROVE FixedAt(y, Entries(y, c), Q)
  <2>1. CASE m = 0
    <3>1. Q = P /\ P \in 0..P /\ (P # 0 => P - 1 \in 0..P)
      BY <1>0, <2>1
    <3>2. y[P] = x[P] /\ (P # 0 => y[P - 1] = x[P - 1])
      BY <1>13, <3>1
    <3>3. P \in 0..c /\ (P # 0 => P - 1 \in 0..c)
      BY <1>0
    <3>4. Entries(y, c)[P] = Entries(x, c)[P] /\ (P # 0 => Entries(y, c)[P - 1] = Entries(x, c)[P - 1])
      BY <3>2, <3>3 DEF Entries
    <3> QED
      BY <1>20, <3>1, <3>2, <3>4 DEF FixedAt
  <2>2. CASE m # 0
    <3>1. m \in 1..n /\ m - 1 \in 0..n /\ P + m \in 0..c /\ P + m - 1 \in 0..c /\ P + (m - 1) = P + m - 1 /\ m > 0
      BY <1>0, <2>2 DEF n
    <3>2. z[m] = x[P + m] /\ z[m - 1] = x[P + m - 1]
      BY <1>4, <3>1
    <3>3. e[m] = z[m].max_entry \/ e[m] = e[m - 1] + z[m - 1].length
      BY <1>6, <3>1 DEF Replanned
    <3>4. y[P + m].entry = e[m] /\ y[P + m - 1].entry = e[m - 1]
      <4>1. m \in 0..c - P /\ m - 1 \in 0..c - P
        BY <3>1 DEF n
      <4> QED
        BY <1>16, <3>1, <4>1 DEF PlannedFrom
    <3>5. y[P + m].max_entry = x[P + m].max_entry /\ y[P + m - 1].length = x[P + m - 1].length
      BY <1>16, <3>1 DEF PlannedFrom
    <3>6. Entries(y, c)[P + m] = e[m] /\ Entries(y, c)[P + m - 1] = e[m - 1]
      BY <3>1, <3>4 DEF Entries
    <3> QED
      BY <3>2, <3>3, <3>5, <3>6 DEF FixedAt
  <2> QED
    BY <2>1, <2>2
<1>21. Replan(x, y, c, P, Q)
  BY <1>13, <1>14, <1>15, <1>17, <1>18, <1>19, <1>20 DEF Replan, Opening
<1> QED
  BY <1>7, <1>8, <1>19, <1>21 DEF PlannedAs, plan, y

-----------------------------------------------------------------------------
(* The line of blocks in the ring, in every state *)

\* Every maximum is made of the nominal speeds of its block and the one before it, and the next
\* block to come will find the nominal speed of the last.
Chained(x, c, nominal, factor) ==
  /\ nominal = Nominal(x[c], factor)
  /\ \A k \in 1..c : x[k].max_entry = MaxEntry(x[k], Nominal(x[k], factor), Nominal(x[k - 1], factor))
NotTooFast(x, factor) == x[0].entry <= Nominal(x[0], factor) * Nominal(x[0], factor)

\* The invariant of the line x of c + 1 blocks, with the pointer at block P. After an override that
\* was reduced only the maxima are kept to; in a hold the first block is left at another speed than
\* the planned one.
LineInv(x, c, P, nominal, factor, slow, holding) ==
  LET f == Entries(x, c)
  IN /\ x \in [0..c -> Blocks] /\ P \in 0..c
     /\ \A k \in 0..c : x[k].length > 0
     /\ Chained(x, c, nominal, factor)
     /\ CappedBy(x, c, f)
     /\ ~slow =>
          /\ SlowsDown(x, c, f)
          /\ holding # "decelerating" =>
               /\ Opening(x, c) /\ NotTooFast(x, factor)
               /\ SpeedsUp(x, c, f) /\ TightPlan(x, c, f) /\ FixedAt(x, f, P)

\* What it takes to plan the line from block P on.
Ready(x, c, P, nominal, factor, slow, holding) ==
  LET f == Entries(x, c)
  IN /\ x \in [0..c -> Blocks] /\ P \in 0..c
     /\ \A k \in 0..c : x[k].length > 0
     /\ Chained(x, c, nominal, factor)
     /\ \A k \in 1..P : x[k].entry <= x[k].max_entry
     /\ ~slow =>
          /\ CappedBy(x, c, f) /\ SlowsDown(x, c, f)
          /\ holding # "decelerating" =>
               /\ Opening(x, c) /\ NotTooFast(x, factor)
               /\ \A k \in 1..P : x[k].entry <= x[k - 1].entry + x[k - 1].length
               /\ \A k \in 1..P - 1 : TightAt(x, c, f, k)
               /\ FixedAt(x, f, P)

LEMMA LineReady ==
  ASSUME NEW c \in Nat, NEW x, NEW P, NEW n, NEW factor, NEW slow, NEW holding,
         LineInv(x, c, P, n, factor, slow, holding)
  PROVE  Ready(x, c, P, n, factor, slow, holding)
<1> DEFINE f == Entries(x, c)
<1>1. \A k \in 0..c : f[k] = x[k].entry
  BY DEF Entries
<1>2. \A k \in 1..P : k \in 1..c /\ k \in 0..c /\ k - 1 \in 0..c
  BY DEF LineInv
<1>3. \A k \in 1..P - 1 : k \in 1..c
  BY DEF LineInv
<1> HIDE DEF f
<1>4. CappedBy(x, c, f) => \A k \in 1..P : x[k].entry <= x[k].max_entry
  BY <1>1, <1>2 DEF CappedBy
<1>5. SpeedsUp(x, c, f) => \A k \in 1..P : x[k].entry <= x[k - 1].entry + x[k - 1].length
  BY <1>1, <1>2 DEF SpeedsUp
<1>6. TightPlan(x, c, f) => \A k \in 1..P - 1 : TightAt(x, c, f, k)
  BY <1>3 DEF TightPlan
<1> QED
  BY <1>4, <1>5, <1>6 DEF LineInv, Ready, f

LEMMA LinePlanned ==
  ASSUME NEW c \in Nat, NEW x, NEW P, NEW n, NEW factor, NEW slow, NEW holding, NEW y, NEW Q,
         Ready(x, c, P, n, factor, slow, holding), Replan(x, y, c, P, Q)
  PROVE  LineInv(y, c, Q, n, factor, slow, holding)
<1>0. x \in [0..c -> Blocks] /\ y \in [0..c -> Blocks] /\ P \in 0..c /\ Q \in P..c
  BY DEF Ready, Replan
<1>1. ASSUME NEW k \in 0..c
      PROVE  /\ y[k].length = x[k].length /\ y[k].max_entry = x[k].max_entry
             /\ y[k].rate = x[k].rate /\ y[k].junction = x[k].junction
  <2>1. x[k] \in Blocks /\ y[k] = [x[k] EXCEPT !.entry = y[k].entry]
    BY <1>0 DEF Replan
  <2> DEFINE v == y[k].entry
  <2>2. y[k] = [x[k] EXCEPT !.entry = v]
    BY <2>1
  <2> HIDE DEF v
  <2> QED
    BY <2>1, <2>2 DEF Blocks
<1>2. y[0] = x[0]
  BY <1>0 DEF Replan
<1>3. Q \in 0..c
  BY <1>0
<1>4. \A k \in 0..c : y[k].length > 0
  BY <1>1 DEF Ready
<1>5. Chained(y, c, n, factor)
  <2>1. c \in 0..c /\ \A k \in 1..c : k \in 0..c /\ k - 1 \in 0..c
    OBVIOUS
  <2>2. \A k \in 0..c : Nominal(y[k], factor) = Nominal(x[k], factor)
    BY <1>1 DEF Nominal
  <2>3. \A k \in 0..c : \A a, b : MaxEntry(y[k], a, b) = MaxEntry(x[k], a, b)
    BY <1>1 DEF MaxEntry
  <2>4. Chained(x, c, n, factor)
    BY DEF Ready
  <2>5. ASSUME NEW k \in 1..c
        PROVE  y[k].max_entry = MaxEntry(y[k], Nominal(y[k], factor), Nominal(y[k - 1], factor))
    BY <1>1, <2>1, <2>2, <2>3, <2>4 DEF Chained
  <2> QED
    BY <2>1, <2>2, <2>4, <2>5 DEF Chained
<1>6. CappedBy(y, c, Entries(y, c))
  BY DEF Replan, Ready
<1>7. ~slow => SlowsDown(y, c, Entries(y, c))
  BY DEF Replan, Ready
<1>8. ASSUME ~slow, holding # "decelerating"
      PROVE  /\ Opening(y, c) /\ NotTooFast(y, factor)
             /\ SpeedsUp(y, c, Entries(y, c)) /\ TightPlan(y, c, Entries(y, c)) /\ FixedAt(y, Entries(y, c), Q)
  <2>1. /\ CappedBy(x, c, Entries(x, c)) /\ SlowsDown(x, c, Entries(x, c))
        /\ Opening(x, c) /\ NotTooFast(x, factor)
        /\ \A k \in 1..P : x[k].entry <= x[k - 1].entry + x[k - 1].length
        /\ \A k \in 1..P - 1 : TightAt(x, c, Entries(x, c), k)
        /\ FixedAt(x, Entries(x, c), P)
    BY <1>8 DEF Ready
  <2>2. NotTooFast(y, factor)
    BY <1>2, <2>1 DEF NotTooFast
  <2> QED
    BY <2>1, <2>2 DEF Replan
<1> QED
  BY <1>0, <1>3, <1>4, <1>5, <1>6, <1>7, <1>8 DEF LineInv

\* plan_buffer_line() adds a block that is entered at rest.
LEMMA LineExtended ==
  ASSUME NEW c \in Nat, NEW x, NEW P, NEW n, NEW factor, NEW slow, NEW holding, NEW y, NEW new \in Blocks,
         LineInv(x, c, P, n, factor, slow, holding), new.entry = 0, new.length > 0,
         new.max_entry = MaxEntry(new, Nominal(new, factor), n),
         y = [k \in 0..c + 1 |-> IF k = c + 1 THEN new ELSE x[k]]
  PROVE  Ready(y, c + 1, P, Nominal(new, factor), factor, slow, holding)
<1> DEFINE f == Entries(x, c)
           g == Entries(y, c + 1)
<1>0. x \in [0..c -> Blocks] /\ P \in 0..c /\ new.length \in Nat /\ new.max_entry \in Nat
  BY DEF LineInv, Blocks
<1>1. \A k \in 0..c : y[k] = x[k] /\ k \in 0..c + 1
  OBVIOUS
<1>2. y[c + 1] = new
  OBVIOUS
<1>3. y \in [0..c + 1 -> Blocks]
  BY <1>0
<1>4. \A k \in 0..c : f[k] = x[k].entry /\ g[k] = f[k]
  BY DEF Entries
<1>5. g[c + 1] = 0
  BY DEF Entries
<1> HIDE DEF f, g
<1>6. \A k \in 1..c : k \in 0..c /\ k - 1 \in 0..c
  OBVIOUS
<1>7. \A k \in 1..c + 1 : k = c + 1 \/ k \in 1..c
  OBVIOUS
<1>8. ASSUME NEW k \in 0..c PROVE Leave(g, c + 1, k) = Leave(f, c, k)
  <2>1. CASE k = c
    BY <1>5, <2>1 DEF Leave
  <2>2. CASE k # c
    <3>1. k + 1 \in 0..c /\ k # c + 1
      BY <2>2
    <3> QED
      BY <1>4, <2>2, <3>1 DEF Leave
  <2> QED
    BY <2>1, <2>2
<1>9. ASSUME CappedBy(x, c, f) PROVE CappedBy(y, c + 1, g)
  <2>1. SUFFICES ASSUME NEW k \in 1..c + 1 PROVE g[k] <= y[k].max_entry
    BY DEF CappedBy
  <2>2. CASE k = c + 1
    BY <1>0, <1>2, <1>5, <2>2
  <2>3. CASE k \in 1..c
    BY <1>1, <1>4, <1>6, <1>9, <2>3 DEF CappedBy
  <2> QED
    BY <1>7, <2>2, <2>3
<1>10. ASSUME SlowsDown(x, c, f) PROVE SlowsDown(y, c + 1, g)
  <2>1. SUFFICES ASSUME NEW k \in 1..c + 1 PROVE g[k] <= y[k].length + Leave(g, c + 1, k)
    BY DEF SlowsDown
  <2>2. CASE k = c + 1
    BY <1>0, <1>2, <1>5, <2>2 DEF Leave
  <2>3. CASE k \in 1..c
    BY <1>1, <1>4, <1>6, <1>8, <1>10, <2>3 DEF SlowsDown
  <2> QED
    BY <1>7, <2>2, <2>3
<1>11. 0 \in 0..c
  OBVIOUS
<1>12. Opening(x, c) => Opening(y, c + 1)
  BY <1>1, <1>8, <1>11 DEF Opening, f, g
<1>13. NotTooFast(x, factor) => NotTooFast(y, factor)
  BY <1>1, <1>11 DEF NotTooFast
<1>14. Chained(y, c + 1, Nominal(new, factor), factor)
  <2>1. Chained(x, c, n, factor)
    BY DEF LineInv
  <2>2. SUFFICES ASSUME NEW k \in 1..c + 1
                 PROVE  y[k].max_entry = MaxEntry(y[k], Nominal(y[k], factor), Nominal(y[k - 1], factor))
    BY <1>2 DEF Chained
  <2>3. CASE k = c + 1
    <3>1. y[k - 1] = x[c] /\ n = Nominal(x[c], factor)
      BY <1>1, <2>1, <2>3 DEF Chained
    <3> QED
      BY <1>2, <2>3, <3>1
  <2>4. CASE k \in 1..c
    BY <1>1, <1>6, <2>1, <2>4 DEF Chained
  <2> QED
    BY <1>7, <2>3, <2>4
<1>15. \A k \in 0..c + 1 : y[k].length > 0
  BY <1>2 DEF LineInv
<1>16. Ready(x, c, P, n, factor, slow, holding)
  BY LineReady
<1>17. \A k \in 1..P : k \in 0..c /\ k - 1 \in 0..c
  BY <1>0
<1>18. \A k \in 1..P - 1 : k \in 0..c /\ k - 1 \in 0..c
  BY <1>0
<1>19. \A k \in 1..P - 1 : TightAt(x, c, f, k) => TightAt(y, c + 1, g, k)
  BY <1>1, <1>4, <1>8, <1>18 DEF TightAt
<1>20. FixedAt(x, f, P) => FixedAt(y, g, P)
  <2>1. P = 0 \/ P \in 1..P
    BY <1>0
  <2> QED
    BY <1>0, <1>1, <1>4, <1>17, <2>1 DEF FixedAt
<1>21. P \in 0..c + 1
  BY <1>0
<1>22. \A k \in 1..P : y[k].entry <= y[k].max_entry
  BY <1>1, <1>16, <1>17 DEF Ready
<1>23. (\A k \in 1..P : x[k].entry <= x[k - 1].entry + x[k - 1].length) =>
       \A k \in 1..P : y[k].entry <= y[k - 1].entry + y[k - 1].length
  BY <1>1, <1>17
<1>24. ASSUME ~slow
       PROVE  /\ CappedBy(y, c + 1, g) /\ SlowsDown(y, c + 1, g)
              /\ holding # "decelerating" =>
                   /\ Opening(y, c + 1) /\ NotTooFast(y, factor)
                   /\ \A k \in 1..P : y[k].entry <= y[k - 1].entry + y[k - 1].length
                   /\ \A k \in 1..P - 1 : TightAt(y, c + 1, g, k)
                   /\ FixedAt(y, g, P)
  BY <1>9, <1>10, <1>12, <1>13, <1>16, <1>19, <1>20, <1>23, <1>24 DEF Ready, f
<1> QED
  BY <1>3, <1>14, <1>15, <1>21, <1>22, <1>24 DEF Ready, g

LEMMA Product == ASSUME NEW u \in Nat, NEW v \in Nat PROVE u * v \in Nat
  OBVIOUS

LEMMA Squares ==
  ASSUME NEW u \in Nat, NEW v \in Nat, u <= v
  PROVE  u * u \in Nat /\ v * v \in Nat /\ u * u <= v * v
  OBVIOUS

\* plan_discard_current_block() takes the first block away.
LEMMA LineShortened ==
  ASSUME NEW c \in Nat, c >= 1, NEW x, NEW P, NEW n, NEW factor \in Nat, NEW slow, NEW holding, NEW y,
         LineInv(x, c, P, n, factor, slow, holding), y = [k \in 0..c - 1 |-> x[k + 1]]
  PROVE  LineInv(y, c - 1, IF P = 0 THEN 0 ELSE P - 1, n, factor, slow, holding)
<1> DEFINE f == Entries(x, c)
           g == Entries(y, c - 1)
           R == IF P = 0 THEN 0 ELSE P - 1
<1>0. x \in [0..c -> Blocks] /\ P \in 0..c
  BY DEF LineInv
<1>1. \A k \in 0..c - 1 : y[k] = x[k + 1] /\ k + 1 \in 1..c /\ k + 1 \in 0..c
  OBVIOUS
<1>2. y \in [0..c - 1 -> Blocks]
  BY <1>0, <1>1
<1>3. \A k \in 0..c : f[k] = x[k].entry
  BY DEF Entries
<1>4. \A k \in 0..c - 1 : g[k] = f[k + 1]
  BY <1>1, <1>3 DEF Entries
<1> HIDE DEF f, g
<1>5. ASSUME NEW k \in 0..c - 1 PROVE Leave(g, c - 1, k) = Leave(f, c, k + 1)
  <2>1. CASE k = c - 1
    BY <2>1 DEF Leave
  <2>2. CASE k # c - 1
    <3>1. k + 1 \in 0..c - 1 /\ k + 1 # c
      BY <2>2
    <3> QED
      BY <1>4, <2>2, <3>1 DEF Leave
  <2> QED
    BY <2>1, <2>2
<1>6. \A k \in 1..c - 1 : /\ k \in 0..c - 1 /\ k - 1 \in 0..c - 1 /\ (k - 1) + 1 = k /\ (k + 1) - 1 = k
                          /\ k \in 0..c /\ k \in 1..c
  OBVIOUS
<1>7. Chained(x, c, n, factor) /\ CappedBy(x, c, f) /\ \A k \in 0..c : x[k].length > 0
  BY DEF LineInv, f
<1>8. Chained(y, c - 1, n, factor)
  <2>1. y[c - 1] = x[c]
    BY <1>1
  <2>2. ASSUME NEW k \in 1..c - 1
        PROVE  y[k].max_entry = MaxEntry(y[k], Nominal(y[k], factor), Nominal(y[k - 1], factor))
    <3>1. k + 1 \in 1..c /\ (k + 1) - 1 = k
      BY <1>6
    <3>2. x[k + 1].max_entry = MaxEntry(x[k + 1], Nominal(x[k + 1], factor), Nominal(x[k], factor))
      BY <1>7, <3>1 DEF Chained
    <3>3. y[k] = x[k + 1] /\ y[k - 1] = x[k]
      BY <1>1, <1>6
    <3> QED
      BY <3>2, <3>3
  <2>3. n = Nominal(y[c - 1], factor)
    BY <1>7, <2>1 DEF Chained
  <2> QED
    BY <2>2, <2>3 DEF Chained
<1>9. CappedBy(y, c - 1, g)
  <2>1. SUFFICES ASSUME NEW k \in 1..c - 1 PROVE g[k] <= y[k].max_entry
    BY DEF CappedBy
  <2> QED
    BY <1>1, <1>4, <1>6, <1>7 DEF CappedBy
<1>10. ASSUME SlowsDown(x, c, f) PROVE SlowsDown(y, c - 1, g) /\ Opening(y, c - 1)
  <2>1. ASSUME NEW k \in 0..c - 1 PROVE g[k] <= y[k].length + Leave(g, c - 1, k)
    BY <1>1, <1>4, <1>5, <1>10 DEF SlowsDown
  <2>2. SlowsDown(y, c - 1, g)
    BY <1>6, <2>1 DEF SlowsDown
  <2>3. 0 \in 0..c - 1
    OBVIOUS
  <2>4. g[0] = y[0].entry
    BY <2>3 DEF g, Entries
  <2>5. Opening(y, c - 1)
    BY <2>1, <2>3, <2>4 DEF Opening, g
  <2> QED
    BY <2>2, <2>5
<1>11. NotTooFast(y, factor)
  <2>1. 1 \in 1..c /\ 0 \in 0..c - 1 /\ 1 \in 0..c /\ 0 \in 0..c /\ 0 + 1 = 1 /\ 1 - 1 = 0
    OBVIOUS
  <2>2. y[0] = x[1] /\ f[1] = x[1].entry
    BY <1>1, <1>3, <2>1
  <2>3. x[1].entry <= x[1].max_entry
    BY <1>7, <2>1, <2>2 DEF CappedBy
  <2>4. x[1].max_entry = MaxEntry(x[1], Nominal(x[1], factor), Nominal(x[0], factor))
    BY <1>7, <2>1 DEF Chained
  <2>5. x[1] \in Blocks /\ x[0] \in Blocks
    BY <1>0, <2>1
  <2> DEFINE a == Nominal(x[1], factor)
             b == Nominal(x[0], factor)
  <2>6. a \in Nat /\ b \in Nat /\ x[1].junction \in Nat /\ x[1].entry \in Nat
    <3>1. /\ x[1].rate \in Nat /\ x[0].rate \in Nat /\ x[1].junction \in Nat /\ x[1].entry \in Nat
      BY <2>5 DEF Blocks
    <3>2. a = x[1].rate * factor /\ b = x[0].rate * factor
      BY DEF Nominal
    <3>3. x[1].rate * factor \in Nat /\ x[0].rate * factor \in Nat
      BY <3>1, Product
    <3> QED
      BY <3>1, <3>2, <3>3
  <2> HIDE DEF a, b
  <2> DEFINE u == Least(a, b)
  <2>7. u \in Nat /\ u <= a
    BY <2>6, LeastIs
  <2>8. MaxEntry(x[1], a, b) = Least(u * u, x[1].junction)
    BY DEF MaxEntry
  <2> HIDE DEF u
  <2>9. u * u \in Nat /\ a * a \in Nat /\ u * u <= a * a
    BY <2>6, <2>7, Squares
  <2> DEFINE v == u * u
             z == a * a
  <2>a. Least(v, x[1].junction) <= v /\ Least(v, x[1].junction) \in Nat
    BY <2>6, <2>9, LeastIs
  <2>10. x[1].entry <= a * a
    <3>1. x[1].entry <= Least(v, x[1].junction)
      BY <2>3, <2>4, <2>8 DEF a, b
    <3>2. v \in Nat /\ z \in Nat /\ v <= z
      BY <2>9
    <3> HIDE DEF v, z
    <3>3. x[1].entry <= z
      BY <2>6, <2>a, <3>1, <3>2
    <3> QED
      BY <3>3 DEF z
  <2> QED
    BY <2>2, <2>10 DEF NotTooFast, a
<1>12. ASSUME SpeedsUp(x, c, f) PROVE SpeedsUp(y, c - 1, g)
  <2>1. SUFFICES ASSUME NEW k \in 1..c - 1 PROVE g[k] <= g[k - 1] + y[k - 1].length
    BY DEF SpeedsUp
  <2>2. k + 1 \in 1..c /\ (k + 1) - 1 = k
    BY <1>6
  <2>3. f[k + 1] <= f[k] + x[k].length
    BY <1>12, <2>2 DEF SpeedsUp
  <2> QED
    BY <1>1, <1>4, <1>6, <2>3
<1>13. ASSUME NEW k \in 1..c - 1, TightAt(x, c, f, k + 1) PROVE TightAt(y, c - 1, g, k)
  <2>1. (k + 1) - 1 = k
    OBVIOUS
  <2>2. g[k] = f[k + 1] /\ g[k - 1] = f[k] /\ y[k] = x[k + 1] /\ y[k - 1] = x[k]
    BY <1>1, <1>4, <1>6
  <2>3. Leave(g, c - 1, k) = Leave(f, c, k + 1)
    BY <1>5, <1>6
  <2> QED
    BY <1>13, <2>1, <2>2, <2>3 DEF TightAt
<1>14. TightPlan(x, c, f) => TightPlan(y, c - 1, g)
  BY <1>1, <1>6, <1>13 DEF TightPlan
<1>15. ASSUME FixedAt(x, f, P) PROVE FixedAt(y, g, R)
  <2>1. CASE P \in {0, 1}
    BY <2>1 DEF FixedAt
  <2>2. CASE P \notin {0, 1}
    <3>1. P - 1 \in 1..c - 1 /\ (P - 1) + 1 = P /\ R = P - 1 /\ P - 1 # 0 /\ P # 0
      BY <1>0, <2>2
    <3>2. g[P - 1] = f[P] /\ y[P - 1] = x[P]
      BY <1>1, <1>4, <1>6, <3>1
    <3>3. g[P - 1 - 1] = f[P - 1] /\ y[P - 1 - 1] = x[P - 1]
      BY <1>1, <1>4, <1>6, <3>1
    <3> QED
      BY <1>15, <3>1, <3>2, <3>3 DEF FixedAt
  <2> QED
    BY <2>1, <2>2
<1>16. R \in 0..c - 1
  BY <1>0
<1>17. \A k \in 0..c - 1 : y[k].length > 0
  BY <1>1, <1>7
<1>18. ASSUME ~slow
       PROVE  /\ SlowsDown(x, c, f)
              /\ (holding # "decelerating" => SpeedsUp(x, c, f) /\ TightPlan(x, c, f) /\ FixedAt(x, f, P))
  BY <1>18 DEF LineInv, f
<1>19. ASSUME ~slow
       PROVE  /\ SlowsDown(y, c - 1, g)
              /\ holding # "decelerating" =>
                   /\ Opening(y, c - 1) /\ NotTooFast(y, factor)
                   /\ SpeedsUp(y, c - 1, g) /\ TightPlan(y, c - 1, g) /\ FixedAt(y, g, R)
  BY <1>10, <1>11, <1>12, <1>14, <1>15, <1>18, <1>19
<1> QED
  BY <1>2, <1>8, <1>9, <1>16, <1>17, <1>19 DEF LineInv, g

\* plan_update_velocity_profile_parameters() makes new maxima of a new override factor.
LEMMA LineOverridden ==
  ASSUME NEW c \in Nat, NEW x, NEW P, NEW n, NEW factor \in Nat, NEW slow, NEW holding, NEW y, NEW n2,
         NEW factor2 \in Nat, NEW slow2, ~slow2 => ~slow /\ factor <= factor2,
         LineInv(x, c, P, n, factor, slow, holding),
         y \in [0..c -> Blocks], Chained(y, c, n2, factor2),
         \A k \in 0..c : /\ y[k].length = x[k].length /\ y[k].entry = x[k].entry
                         /\ y[k].rate = x[k].rate /\ y[k].junction = x[k].junction
  PROVE  Ready(y, c, 0, n2, factor2, slow2, holding)
<1> DEFINE f == Entries(x, c)
<1>0. x \in [0..c -> Blocks] /\ \A k \in 0..c : x[k] \in Blocks /\ y[k] \in Blocks
  BY DEF LineInv
<1>1. Entries(y, c) = f
  BY DEF Entries
<1>2. \A k \in 0..c : f[k] = x[k].entry
  BY DEF Entries
<1> HIDE DEF f
<1>3. ASSUME NEW k \in 0..c
      PROVE  /\ Nominal(x[k], factor) \in Nat /\ Nominal(y[k], factor2) \in Nat
             /\ factor <= factor2 => Nominal(x[k], factor) <= Nominal(y[k], factor2)
  <2>1. x[k].rate \in Nat /\ y[k].rate = x[k].rate
    BY <1>0 DEF Blocks
  <2> DEFINE a == x[k].rate
  <2>2. a \in Nat /\ a * factor \in Nat /\ a * factor2 \in Nat
    BY <2>1
  <2> HIDE DEF a
  <2>3. factor <= factor2 => a * factor <= a * factor2
    BY <2>2
  <2> QED
    BY <2>1, <2>2, <2>3 DEF Nominal, a
<1>4. ASSUME factor <= factor2, NEW k \in 1..c PROVE x[k].max_entry <= y[k].max_entry
  <2>0. k \in 0..c /\ k - 1 \in 0..c
    OBVIOUS
  <2> DEFINE a == Nominal(x[k], factor)
             b == Nominal(x[k - 1], factor)
             a2 == Nominal(y[k], factor2)
             b2 == Nominal(y[k - 1], factor2)
  <2>1. a \in Nat /\ b \in Nat /\ a2 \in Nat /\ b2 \in Nat /\ a <= a2 /\ b <= b2
    BY <1>3, <1>4, <2>0
  <2>2. x[k].max_entry = MaxEntry(x[k], a, b)
    BY DEF LineInv, Chained
  <2>3. y[k].max_entry = MaxEntry(y[k], a2, b2)
    BY DEF Chained
  <2>4. y[k].junction = x[k].junction /\ x[k].junction \in Nat
    BY <1>0, <2>0 DEF Blocks
  <2> HIDE DEF a, b, a2, b2
  <2>5. Least(a, b) \in Nat /\ Least(a2, b2) \in Nat /\ Least(a, b) <= Least(a2, b2)
    BY <2>1 DEF Least
  <2>6. Least(a, b) * Least(a, b) <= Least(a2, b2) * Least(a2, b2)
    <3> DEFINE u == Least(a, b)
               v == Least(a2, b2)
    <3>1. u \in Nat /\ v \in Nat /\ u <= v
      BY <2>5
    <3> HIDE DEF u, v
    <3>2. u * u <= v * v
      BY <3>1
    <3> QED
      BY <3>2 DEF u, v
  <2>7. Least(a, b) * Least(a, b) \in Nat /\ Least(a2, b2) * Least(a2, b2) \in Nat
    BY <2>5
  <2> DEFINE u == Least(a, b) * Least(a, b)
             v == Least(a2, b2) * Least(a2, b2)
  <2>8. u \in Nat /\ v \in Nat /\ u <= v
    BY <2>6, <2>7
  <2> HIDE DEF u, v
  <2>9. Least(u, x[k].junction) <= Least(v, x[k].junction)
    BY <2>4, <2>8 DEF Least
  <2> QED
    BY <2>2, <2>3, <2>4, <2>9 DEF MaxEntry, u, v
<1>5. ASSUME factor <= factor2, CappedBy(x, c, f) PROVE CappedBy(y, c, f)
  <2>1. SUFFICES ASSUME NEW k \in 1..c PROVE f[k] <= y[k].max_entry
    BY DEF CappedBy
  <2>2. f[k] <= x[k].max_entry /\ x[k].max_entry <= y[k].max_entry
    BY <1>4, <1>5 DEF CappedBy
  <2>3. f[k] \in Nat /\ x[k].max_entry \in Nat /\ y[k].max_entry \in Nat
    <3>1. k \in 0..c
      OBVIOUS
    <3> QED
      BY <1>0, <1>2, <3>1 DEF Blocks
  <2> QED
    BY <2>2, <2>3
<1>6. SlowsDown(x, c, f) => SlowsDown(y, c, f)
  BY DEF SlowsDown
<1>7. Opening(x, c) => Opening(y, c)
  <2>1. 0 \in 0..c
    OBVIOUS
  <2> QED
    BY <1>1, <2>1 DEF Opening, f
<1>8. ASSUME factor <= factor2, NotTooFast(x, factor) PROVE NotTooFast(y, factor2)
  <2>1. 0 \in 0..c
    OBVIOUS
  <2> DEFINE u == Nominal(x[0], factor)
             v == Nominal(y[0], factor2)
  <2>2. u \in Nat /\ v \in Nat /\ u <= v /\ x[0].entry \in Nat /\ y[0].entry = x[0].entry
    BY <1>0, <1>3, <1>8, <2>1 DEF Blocks
  <2>3. x[0].entry <= u * u
    BY <1>8 DEF NotTooFast
  <2> HIDE DEF u, v
  <2>4. u * u <= v * v /\ u * u \in Nat /\ v * v \in Nat
    BY <2>2
  <2>5. y[0].entry <= v * v
    BY <2>2, <2>3, <2>4
  <2> QED
    BY <2>5 DEF NotTooFast, v
<1>9. CappedBy(x, c, f) /\ \A k \in 0..c : x[k].length > 0
  BY DEF LineInv, f
<1>10. ASSUME ~slow2
       PROVE  /\ CappedBy(y, c, f) /\ SlowsDown(y, c, f)
              /\ holding # "decelerating" => Opening(y, c) /\ NotTooFast(y, factor2)
  <2>1. ~slow /\ factor <= factor2
    BY <1>10
  <2> QED
    BY <1>5, <1>6, <1>7, <1>8, <1>9, <2>1 DEF LineInv, f
<1> QED
  BY <1>1, <1>9, <1>10 DEF Ready, FixedAt

\* The end of a hold: the first block is at rest, and the whole line is planned again.
LEMMA LineAtRest ==
  ASSUME NEW c \in Nat, NEW x, NEW P, NEW n, NEW factor \in Nat, NEW slow, NEW holding, NEW still,
         LineInv(x, c, P, n, factor, slow, holding), x[0].entry = 0
  PROVE  Ready(x, c, 0, n, factor, slow, still)
<1>0. x \in [0..c -> Blocks] /\ 0 \in 0..c
  BY DEF LineInv
<1>1. x[0] \in Blocks /\ (c # 0 => 1 \in 0..c /\ x[1] \in Blocks)
  BY <1>0
<1>2. x[0].length \in Nat /\ x[0].rate \in Nat /\ (c # 0 => x[1].entry \in Nat)
  BY <1>1 DEF Blocks
<1>3. Leave(Entries(x, c), c, 0) \in Nat
  BY <1>1, <1>2 DEF Leave, Entries
<1>4. Opening(x, c)
  BY <1>2, <1>3 DEF Opening
<1>5. NotTooFast(x, factor)
  <2>1. Nominal(x[0], factor) \in Nat
    BY <1>2 DEF Nominal
  <2> DEFINE u == Nominal(x[0], factor)
  <2>2. u \in Nat
    BY <2>1
  <2> HIDE DEF u
  <2>3. 0 <= u * u
    BY <2>2
  <2> QED
    BY <2>3 DEF NotTooFast, u
<1> QED
  BY <1>0, <1>4, <1>5 DEF LineInv, Ready, FixedAt

\* st_prep_buffer() cuts the first block up to rest from its end and is then at the speed v: in no
\* hold it speeds up, keeps the nominal speed and slows down to what the next block asks for.
CutSpeed(x, c, factor, rest) ==
  Least(Least(x[0].entry + (x[0].length - rest), Nominal(x[0], factor) * Nominal(x[0], factor)),
        Leave(Entries(x, c), c, 0) + rest)

LEMMA LineCut ==
  ASSUME NEW c \in Nat, NEW x, NEW P, NEW n, NEW factor \in Nat, NEW slow, NEW holding, NEW rest, NEW v \in Nat,
         NEW y, LineInv(x, c, P, n, factor, slow, holding), rest \in Nat, 0 < rest, rest <= x[0].length,
         ~slow /\ holding # "decelerating" => v = CutSpeed(x, c, factor, rest),
         y = [k \in 0..c |-> IF k = 0 THEN [x[0] EXCEPT !.length = rest, !.entry = v] ELSE x[k]]
  PROVE  LineInv(y, c, P, n, factor, slow, holding)
<1> DEFINE f == Entries(x, c)
           g == Entries(y, c)
           L == x[0].length
           E == x[0].entry
           M == Nominal(x[0], factor) * Nominal(x[0], factor)
           T == Leave(f, c, 0)
<1>0. x \in [0..c -> Blocks] /\ P \in 0..c /\ \A k \in 0..c : x[k] \in Blocks
  BY DEF LineInv
<1>1. 0 \in 0..c /\ c \in 0..c
  OBVIOUS
<1>2. y[0] = [x[0] EXCEPT !.length = rest, !.entry = v] /\ \A k \in 0..c : k # 0 => y[k] = x[k]
  BY <1>1
<1>3. /\ y[0] \in Blocks /\ y[0].length = rest /\ y[0].entry = v
      /\ y[0].max_entry = x[0].max_entry /\ y[0].rate = x[0].rate
  <2> DEFINE a == x[0]
             b == [a EXCEPT !.length = rest, !.entry = v]
  <2>1. a \in Blocks /\ y[0] = b
    BY <1>0, <1>1, <1>2
  <2> HIDE DEF a
  <2>2. /\ b \in Blocks /\ b.length = rest /\ b.entry = v
        /\ b.max_entry = a.max_entry /\ b.rate = a.rate
    BY <2>1 DEF Blocks
  <2> QED
    BY <2>1, <2>2 DEF a
<1>4. y \in [0..c -> Blocks]
  BY <1>0, <1>2, <1>3
<1>5. \A k \in 0..c : f[k] = x[k].entry /\ g[k] = y[k].entry
  BY DEF Entries
<1>6. f[0] = E /\ g[0] = v /\ \A k \in 0..c : k # 0 => g[k] = f[k]
  BY <1>1, <1>2, <1>3, <1>5
<1> HIDE DEF f, g
<1>7. \A k \in 0..c : Leave(g, c, k) = Leave(f, c, k)
  <2>1. \A k \in 0..c : k # c => k + 1 \in 0..c /\ k + 1 # 0
    OBVIOUS
  <2> QED
    BY <1>6, <2>1 DEF Leave
<1>8. L \in Nat /\ E \in Nat /\ M \in Nat /\ T \in Nat
  <2>1. x[0] \in Blocks /\ (c # 0 => 1 \in 0..c /\ x[1] \in Blocks)
    BY <1>0, <1>1
  <2>2. L \in Nat /\ E \in Nat /\ x[0].rate \in Nat /\ (c # 0 => x[1].entry \in Nat)
    BY <2>1 DEF Blocks
  <2>3. Nominal(x[0], factor) \in Nat
    BY <2>2 DEF Nominal
  <2>4. M \in Nat
    BY <2>3, Squares
  <2>5. T \in Nat
    BY <1>5, <2>1, <2>2 DEF Leave
  <2> QED
    BY <2>2, <2>4, <2>5
<1>9. ~slow /\ holding # "decelerating" => v = Least(Least(E + (L - rest), M), T + rest)
  BY DEF CutSpeed, f
<1>10. Chained(x, c, n, factor) /\ CappedBy(x, c, f) /\ \A k \in 0..c : x[k].length > 0
  BY DEF LineInv, f
<1>11. \A k \in 1..c : k \in 0..c /\ k # 0 /\ k - 1 \in 0..c /\ y[k] = x[k]
  BY <1>2
<1>12. \A k \in 0..c : y[k].length > 0
  BY <1>2, <1>3, <1>10
<1>13. CappedBy(y, c, g)
  BY <1>6, <1>10, <1>11 DEF CappedBy
<1>14. \A k \in 0..c : Nominal(y[k], factor) = Nominal(x[k], factor)
  BY <1>2, <1>3 DEF Nominal
<1>15. Chained(y, c, n, factor)
  <2>1. ASSUME NEW k \in 1..c
        PROVE  y[k].max_entry = MaxEntry(y[k], Nominal(y[k], factor), Nominal(y[k - 1], factor))
    BY <1>10, <1>11, <1>14 DEF Chained
  <2> QED
    BY <1>1, <1>10, <1>14, <2>1 DEF Chained
<1>16. SlowsDown(x, c, f) => SlowsDown(y, c, g)
  BY <1>6, <1>7, <1>11 DEF SlowsDown
<1> HIDE DEF L, E, M, T
<1>17. ASSUME ~slow, holding # "decelerating"
       PROVE  /\ Opening(y, c) /\ NotTooFast(y, factor)
              /\ SpeedsUp(y, c, g) /\ TightPlan(y, c, g) /\ FixedAt(y, g, P)
  <2>0. v = Least(Least(E + (L - rest), M), T + rest)
    BY <1>9, <1>17
  <2>1. /\ Opening(x, c) /\ NotTooFast(x, factor)
        /\ SpeedsUp(x, c, f) /\ TightPlan(x, c, f) /\ FixedAt(x, f, P)
    BY <1>17 DEF LineInv, f
  <2>2. E <= L + T /\ E <= M
    BY <2>1 DEF Opening, NotTooFast, E, L, T, M, f
  <2>3. rest <= L
    BY DEF L
  <2>4. v <= M /\ v <= rest + T
    BY <1>8, <2>0, <2>3 DEF Least
  <2>5. Opening(y, c)
    <3>1. Leave(Entries(y, c), c, 0) = T
      BY <1>1, <1>7 DEF g, T
    <3> QED
      BY <1>3, <2>4, <3>1 DEF Opening
  <2>6. NotTooFast(y, factor)
    BY <1>1, <1>3, <1>14, <2>4 DEF NotTooFast, M
  \* The second block.
  <2>7. ASSUME c # 0
        PROVE  /\ 1 \in 1..c /\ 1 \in 0..c /\ g[1] = T /\ f[1] = T /\ T <= M /\ T <= E + L
               /\ T <= v + rest
               /\ T = E + L => T = v + rest
    <3>1. 1 \in 1..c /\ 1 \in 0..c /\ 0 # c /\ 0 + 1 = 1 /\ 1 - 1 = 0
      BY <2>7
    <3>2. g[1] = T /\ f[1] = T
      BY <1>6, <3>1 DEF Leave, T
    <3>3. T <= x[1].max_entry
      BY <1>10, <3>1, <3>2 DEF CappedBy
    <3>4. T <= E + L
      BY <1>6, <2>1, <3>1, <3>2 DEF SpeedsUp, L
    <3>5. x[1].max_entry \in Nat /\ x[1].max_entry <= M
      <4>1. x[1].max_entry = MaxEntry(x[1], Nominal(x[1], factor), Nominal(x[0], factor))
        BY <1>10, <3>1 DEF Chained
      <4>2. x[1] \in Blocks /\ x[0] \in Blocks
        BY <1>0, <1>1, <3>1
      <4> DEFINE a == Nominal(x[1], factor)
                 b == Nominal(x[0], factor)
                 u == Least(a, b)
      <4>3. x[1].rate \in Nat /\ x[0].rate \in Nat /\ x[1].junction \in Nat
        BY <4>2 DEF Blocks
      <4>4. a \in Nat /\ b \in Nat
        BY <4>3 DEF Nominal
      <4>5. u \in Nat /\ u <= b
        BY <4>4, LeastIs
      <4>6. x[1].max_entry = Least(u * u, x[1].junction) /\ M = b * b
        BY <4>1 DEF MaxEntry, M
      <4> HIDE DEF a, b, u
      <4>7. u * u \in Nat /\ b * b \in Nat /\ u * u <= b * b
        BY <4>4, <4>5, Squares
      <4> DEFINE s == u * u
                 z == b * b
      <4>8. s \in Nat /\ z \in Nat /\ s <= z /\ x[1].max_entry = Least(s, x[1].junction) /\ M = z
        BY <4>6, <4>7
      <4> HIDE DEF s, z
      <4>9. Least(s, x[1].junction) \in Nat /\ Least(s, x[1].junction) <= s
        BY <4>3, <4>8, LeastIs
      <4> QED
        BY <4>8, <4>9
    <3>6. T <= M
      BY <1>8, <3>3, <3>5
    <3>7. T <= v + rest
      BY <1>8, <2>0, <2>3, <3>4, <3>6 DEF Least
    <3>8. T = E + L => T = v + rest
      BY <1>8, <2>0, <2>3, <3>6 DEF Least
    <3> QED
      BY <3>1, <3>2, <3>4, <3>6, <3>7, <3>8
  <2>8. SpeedsUp(y, c, g)
    <3>1. SUFFICES ASSUME NEW k \in 1..c PROVE g[k] <= g[k - 1] + y[k - 1].length
      BY DEF SpeedsUp
    <3>2. CASE k = 1
      BY <1>3, <1>6, <2>7, <3>2
    <3>3. CASE k # 1
      <4>1. k - 1 \in 1..c
        BY <3>3
      <4>2. g[k] = f[k] /\ g[k - 1] = f[k - 1] /\ y[k - 1] = x[k - 1]
        BY <1>6, <1>11, <4>1
      <4> QED
        BY <2>1, <4>2 DEF SpeedsUp
    <3> QED
      BY <3>2, <3>3
  <2>9. ASSUME NEW k \in 1..c, TightAt(x, c, f, k) PROVE TightAt(y, c, g, k)
    <3>0. g[k] = f[k] /\ y[k] = x[k] /\ Leave(g, c, k) = Leave(f, c, k)
      BY <1>6, <1>7, <1>11
    <3>1. CASE k = 1
      <4>1. f[1 - 1] = E /\ x[1 - 1].length = L /\ g[1 - 1] = v /\ y[1 - 1].length = rest
        BY <1>3, <1>6 DEF L
      <4> QED
        BY <2>7, <2>9, <3>0, <3>1, <4>1 DEF TightAt
    <3>2. CASE k # 1
      <4>1. k - 1 \in 1..c
        BY <3>2
      <4>2. g[k - 1] = f[k - 1] /\ y[k - 1] = x[k - 1]
        BY <1>6, <1>11, <4>1
      <4> QED
        BY <2>9, <3>0, <4>2 DEF TightAt
    <3> QED
      BY <3>1, <3>2
  <2>10. TightPlan(y, c, g)
    BY <2>1, <2>9 DEF TightPlan
  <2>11. FixedAt(y, g, P)
    <3>1. CASE P = 0
      BY <3>1 DEF FixedAt
    <3>2. CASE P = 1
      <4>0. c # 0
        BY <1>0, <3>2
      <4>1. f[1 - 1] = E /\ x[1 - 1].length = L /\ g[1 - 1] = v /\ y[1 - 1].length = rest /\ y[1] = x[1]
        BY <1>3, <1>6, <1>11, <2>7, <4>0 DEF L
      <4> QED
        BY <2>1, <2>7, <3>2, <4>0, <4>1 DEF FixedAt
    <3>3. CASE P \notin {0, 1}
      <4>1. P \in 1..c /\ P - 1 \in 1..c
        BY <1>0, <3>3
      <4>2. g[P] = f[P] /\ y[P] = x[P] /\ g[P - 1] = f[P - 1] /\ y[P - 1] = x[P - 1]
        BY <1>6, <1>11, <4>1
      <4> QED
        BY <2>1, <4>2 DEF FixedAt
    <3> QED
      BY <3>1, <3>2, <3>3
  <2> QED
    BY <2>5, <2>6, <2>8, <2>10, <2>11
<1>18. ~slow => SlowsDown(x, c, f)
  BY DEF LineInv, f
<1> QED
  BY <1>0, <1>4, <1>12, <1>13, <1>15, <1>16, <1>17, <1>18 DEF LineInv, g

\* The first block of a line.
LEMMA FirstLine ==
  ASSUME NEW new \in Blocks, new.entry = 0, new.length > 0, NEW factor \in Nat, NEW slow, NEW holding,
         NEW x, x = [k \in 0..0 |-> new]
  PROVE  LineInv(x, 0, 0, Nominal(new, factor), factor, slow, holding)
<1>1. x[0] = new /\ x \in [0..0 -> Blocks] /\ 0 \in 0..0
  OBVIOUS
<1>2. \A k \in 0..0 : k = 0
  OBVIOUS
<1>3. \A k \in 1..0 : FALSE
  OBVIOUS
<1>4. new.length \in Nat /\ new.rate \in Nat
  BY DEF Blocks
<1>5. Nominal(new, factor) \in Nat
  BY <1>4 DEF Nominal
<1>6. 0 <= Nominal(new, factor) * Nominal(new, factor)
  <2> DEFINE u == Nominal(new, factor)
  <2>1. u \in Nat
    BY <1>5
  <2> HIDE DEF u
  <2>2. u * u \in Nat
    BY <2>1, Squares
  <2>3. 0 <= u * u
    BY <2>2
  <2> QED
    BY <2>3 DEF u
<1>7. Opening(x, 0)
  BY <1>1, <1>4 DEF Opening, Leave
<1>8. NotTooFast(x, factor)
  BY <1>1, <1>6 DEF NotTooFast
<1> QED
  BY <1>1, <1>2, <1>3, <1>7, <1>8
     DEF LineInv, Chained, CappedBy, SlowsDown, SpeedsUp, TightPlan, FixedAt

-----------------------------------------------------------------------------
(* The operations of the module on the line *)

\* Updated(), of given arguments.
Taken(b, t, l, v) == IF l THEN [b EXCEPT ![t].entry = v] ELSE b

LEMMA TakenIs ==
  ASSUME NEW b \in Rings, NEW t \in Slots, NEW l, NEW v \in Nat
  PROVE  /\ Taken(b, t, l, v) \in Rings
         /\ \A i \in Slots : i # t => Taken(b, t, l, v)[i] = b[i]
         /\ Taken(b, t, l, v)[t] = IF l THEN [b[t] EXCEPT !.entry = v] ELSE b[t]
<1>1. [b[t] EXCEPT !.entry = v] \in Blocks
  <2> DEFINE a == b[t]
  <2>1. a \in Blocks
    BY DEF Rings
  <2> HIDE DEF a
  <2>2. [a EXCEPT !.entry = v] \in Blocks
    BY <2>1 DEF Blocks
  <2> QED
    BY <2>2 DEF a
<1>2. [b EXCEPT ![t].entry = v] = [b EXCEPT ![t] = [b[t] EXCEPT !.entry = v]]
  OBVIOUS
<1> QED
  BY <1>1, <1>2 DEF Taken, Rings

Typed ==
  /\ buffer \in Rings /\ head \in Slots /\ tail \in Slots /\ planned \in Slots /\ next_head = After(head)
  /\ previous_nominal \in Nat /\ override \in Nat
  /\ current \in Nat /\ exit \in Nat /\ complete \in Nat
  /\ (loaded => ~recalculate) /\ (loaded => ~Empty)

LEMMA Types == TypeOK => Typed
<1>1. Overrides \cup {2} \subseteq Nat
  BY PlannerAssumption DEF PlannerAssumption
<1> QED
  BY <1>1 DEF TypeOK, Typed, Rings, Blocks

LEMMA AheadZero == ASSUME NEW i \in Slots PROVE Ahead(i, 0) = i
  BY AheadIs, RingSize DEF Slots

\* planner_recalculate() from block P of the line x on: what it changes.
Replans(x, c, P) ==
  /\ buffer' \in Rings
  /\ IF P = 0 /\ c # 0 THEN loaded' = FALSE /\ recalculate' = (recalculate \/ loaded)
     ELSE UNCHANGED <<loaded, recalculate>>
  /\ UNCHANGED <<decel_override, current, exit, complete>>
  /\ \E Q \in P..c : /\ planned' = Ahead(tail, Q)
                     /\ Replan(x, LineOf(Taken(buffer', tail, loaded', current'), tail, c), c, P, Q)

LEMMA RecalculateStep ==
  ASSUME Typed, NEW b \in Rings, NEW h \in Slots, NEW c \in 0..N - 1, NEW P \in 0..c,
         Before(h) = Ahead(tail, c), Recalculate(b, h, Ahead(tail, P))
  PROVE  Replans(LineOf(Updated(b), tail, c), c, P)
<1> DEFINE x == LineOf(Updated(b), tail, c)
           y == LineOf(Taken(buffer', tail, loaded', current'), tail, c)
           p == Ahead(tail, P)
           met == P = 0 /\ c # 0
<1>0. tail \in Slots /\ current \in Nat /\ c \in Nat /\ P \in Nat /\ P <= c /\ c <= N - 1 /\ N \in Nat /\ N >= 3
  BY RingSize DEF Typed
<1>1. \A k \in 0..c : k \in 0..N - 1 /\ Ahead(tail, k) \in Slots /\ Steps(tail, Ahead(tail, k)) = k
  <2>1. SUFFICES ASSUME NEW k \in 0..c
                 PROVE  k \in 0..N - 1 /\ Ahead(tail, k) \in Slots /\ Steps(tail, Ahead(tail, k)) = k
    OBVIOUS
  <2>2. k \in 0..N - 1 /\ k \in 0..N
    BY <1>0
  <2> QED
    BY <1>0, <2>2, AheadIs, StepsAhead
<1>2. p \in Slots /\ Ahead(tail, c) \in Slots /\ Ahead(tail, 0) = tail /\ (Before(h) = p <=> P = c)
  <2>1. c \in 0..c /\ P \in 0..c
    BY <1>0
  <2> QED
    BY <1>0, <1>1, <2>1, AheadZero
<1>3. \A k \in 0..c : k # 0 => Ahead(tail, k) # tail
  <2>1. 0 \in 0..c
    BY <1>0
  <2> QED
    BY <1>1, <1>2, <2>1
<1>4. Updated(b) = Taken(b, tail, loaded, current)
  BY DEF Updated, Taken
<1>5. /\ Updated(b) \in Rings /\ \A i \in Slots : i # tail => Updated(b)[i] = b[i]
      /\ Updated(b)[tail] = IF loaded THEN [b[tail] EXCEPT !.entry = current] ELSE b[tail]
  BY <1>0, <1>4, TakenIs
<1>6. x \in [0..c -> Blocks] /\ \A k \in 0..c : x[k] = Updated(b)[Ahead(tail, k)]
  BY <1>1, <1>5 DEF LineOf, Rings
<1>7. CASE P = c
  <2>1. buffer' = b /\ planned' = p /\ UNCHANGED prepVars
    BY <1>2, <1>7 DEF Recalculate
  <2>2. y = x
    BY <1>4, <2>1 DEF prepVars
  <2>3. Replan(x, y, c, P, c)
    BY <1>0, <1>6, <1>7, <2>2, NothingToPlan
  <2>4. c \in P..c
    BY <1>0
  <2> QED
    BY <1>7, <2>1, <2>3, <2>4 DEF prepVars, Replans
<1>8. CASE P # c
  <2>0. P \in 0..c - 1 /\ c \in 1..N - 1 /\ c # 0
    BY <1>0, <1>8
  <2>1. MeetsTail(h, p) <=> met
    <3>1. Steps(tail, Before(h)) = c
      BY <1>0, <1>1
    <3>2. P \in 0..N - 1 /\ P <= c
      BY <1>0
    <3>3. Depth(h, p) = c - P
      BY <1>0, <3>2, StepsBetween DEF Depth
    <3> QED
      BY <1>0, <2>0, <3>1, <3>3 DEF MeetsTail
  <2> DEFINE w == IF met THEN Updated(b) ELSE b
             plan == Recalculated(w, h, p)
             z == [k \in 0..c |-> IF k <= P THEN x[k] ELSE plan.ring[Ahead(tail, k)]]
  <2>2. w \in Rings
    BY <1>5
  <2>3. /\ buffer' = plan.ring /\ planned' = plan.planned
        /\ IF met THEN StUpdate ELSE UNCHANGED prepVars
    <3>1. LET plan0 == Recalculated(IF MeetsTail(h, p) THEN Updated(b) ELSE b, h, p)
          IN /\ buffer' = plan0.ring /\ planned' = plan0.planned
             /\ IF MeetsTail(h, p) THEN StUpdate ELSE UNCHANGED prepVars
      BY <1>2, <1>8 DEF Recalculate
    <3> QED
      BY <2>1, <3>1
  <2>4. \A k \in P..c : x[k] = w[Ahead(tail, k)]
    <3>1. SUFFICES ASSUME NEW k \in P..c PROVE x[k] = w[Ahead(tail, k)]
      OBVIOUS
    <3>2. k \in 0..c
      BY <1>0
    <3>3. met \/ k # 0
      BY <1>0, <2>0
    <3> QED
      BY <1>1, <1>3, <1>5, <1>6, <3>2, <3>3
  <2> HIDE DEF w, plan, x, p
  <2>5. /\ plan.ring \in Rings
        /\ \A k \in 0..P : plan.ring[Ahead(tail, k)] = w[Ahead(tail, k)]
        /\ \E Q \in P..c : plan.planned = Ahead(tail, Q) /\ Replan(x, z, c, P, Q)
    <3>1. plan = Recalculated(w, h, Ahead(tail, P))
      BY DEF plan, p
    <3>2. x \in [0..c -> Blocks]
      BY <1>6 DEF x
    <3>3. Plannable(w, tail, h, c, P, x)
      BY <1>0, <2>0, <2>2, <2>4, <3>2 DEF Plannable
    <3>4. PlannedAs(plan, w, tail, c, P, x)
      BY <3>1, <3>3, LineReplanned
    <3> QED
      BY <3>4 DEF PlannedAs, LineAfter
  <2>6. /\ IF met THEN loaded' = FALSE /\ recalculate' = (recalculate \/ loaded)
           ELSE UNCHANGED <<loaded, recalculate>>
        /\ UNCHANGED <<decel_override, current, exit, complete>>
    BY <2>3 DEF StUpdate, prepVars
  <2>7. y = z
    <3>1. /\ \A i \in Slots : i # tail => Taken(buffer', tail, loaded', current')[i] = plan.ring[i]
          /\ Taken(buffer', tail, loaded', current')[tail] =
               IF loaded' THEN [plan.ring[tail] EXCEPT !.entry = current] ELSE plan.ring[tail]
      BY <1>0, <2>3, <2>5, <2>6, TakenIs
    <3>2. ASSUME NEW k \in 0..c PROVE Taken(buffer', tail, loaded', current')[Ahead(tail, k)] = z[k]
      <4>1. CASE k > P
        <5>1. Ahead(tail, k) # tail /\ Ahead(tail, k) \in Slots /\ ~(k <= P)
          BY <1>0, <1>1, <1>3, <4>1
        <5> QED
          BY <3>1, <5>1
      <4>2. CASE k <= P /\ k # 0
        <5>1. Ahead(tail, k) # tail /\ Ahead(tail, k) \in Slots /\ k \in 0..P /\ ~met
          BY <1>0, <1>1, <1>3, <4>2
        <5>2. plan.ring[Ahead(tail, k)] = b[Ahead(tail, k)]
          BY <2>5, <5>1 DEF w
        <5> QED
          BY <1>5, <1>6, <3>1, <4>2, <5>1, <5>2
      <4>3. CASE k = 0
        <5>1. k \in 0..P /\ k <= P /\ Ahead(tail, k) = tail
          BY <1>0, <1>2, <4>3
        <5>2. plan.ring[tail] = w[tail] /\ z[k] = x[0] /\ x[0] = Updated(b)[tail]
          BY <1>2, <1>6, <2>5, <4>3, <5>1
        <5>3. CASE met
          <6>1. loaded' = FALSE
            BY <2>3, <5>3 DEF StUpdate
          <6> QED
            BY <3>1, <5>1, <5>2, <5>3, <6>1 DEF w
        <5>4. CASE ~met
          <6>1. loaded' = loaded
            BY <2>3, <5>4 DEF prepVars
          <6> QED
            BY <1>5, <3>1, <5>1, <5>2, <5>4, <6>1 DEF w
        <5> QED
          BY <5>3, <5>4
      <4> QED
        BY <1>0, <4>1, <4>2, <4>3
    <3> QED
      BY <3>2 DEF LineOf
  <2> QED
    BY <2>3, <2>5, <2>6, <2>7 DEF x, Replans
<1> QED
  BY <1>7, <1>8

\* plan_cycle_reinitialize().
LEMMA ReinitializeStep ==
  ASSUME Typed, NEW b \in Rings, NEW c \in 0..N - 1, Before(head) = Ahead(tail, c), Reinitialize(b)
  PROVE  /\ buffer' \in Rings /\ StUpdate
         /\ \E Q \in 0..c : /\ planned' = Ahead(tail, Q)
                            /\ Replan(LineOf(Updated(b), tail, c), LineOf(buffer', tail, c), c, 0, Q)
<1> DEFINE w == Updated(b)
           x == LineOf(w, tail, c)
           y == LineOf(buffer', tail, c)
           plan == Recalculated(w, head, tail)
<1>0. tail \in Slots /\ head \in Slots /\ current \in Nat /\ c \in Nat /\ c <= N - 1 /\ N \in Nat /\ N >= 3
  BY RingSize DEF Typed
<1>1. \A k \in 0..c : k \in 0..N - 1 /\ Ahead(tail, k) \in Slots /\ Steps(tail, Ahead(tail, k)) = k
  <2>1. SUFFICES ASSUME NEW k \in 0..c
                 PROVE  k \in 0..N - 1 /\ Ahead(tail, k) \in Slots /\ Steps(tail, Ahead(tail, k)) = k
    OBVIOUS
  <2>2. k \in 0..N - 1 /\ k \in 0..N
    BY <1>0
  <2> QED
    BY <1>0, <2>2, AheadIs, StepsAhead
<1>2. Ahead(tail, 0) = tail /\ (Before(head) = tail <=> c = 0)
  <2>1. c \in 0..c /\ 0 \in 0..c
    BY <1>0
  <2>2. Ahead(tail, 0) = tail
    BY <1>0, AheadZero
  <2> QED
    BY <1>1, <2>1, <2>2
<1>3. w \in Rings
  BY <1>0, TakenIs DEF Updated, Taken
<1>4. x \in [0..c -> Blocks] /\ \A k \in 0..c : x[k] = w[Ahead(tail, k)]
  BY <1>1, <1>3 DEF LineOf, Rings
<1>5. StUpdate
  BY DEF Reinitialize
<1>6. CASE c = 0
  <2>1. buffer' = w /\ planned' = tail
    BY <1>2, <1>6 DEF Reinitialize
  <2>2. Replan(x, y, c, 0, 0)
    BY <1>0, <1>4, <1>6, <2>1, NothingToPlan
  <2>3. 0 \in 0..c
    BY <1>0
  <2> QED
    BY <1>2, <1>3, <1>5, <2>1, <2>2, <2>3
<1>7. CASE c # 0
  <2>1. buffer' = plan.ring /\ planned' = plan.planned
    BY <1>2, <1>7 DEF Reinitialize
  <2>2. Plannable(w, tail, head, c, 0, x)
    BY <1>0, <1>3, <1>4, <1>7 DEF Plannable
  <2>3. PlannedAs(plan, w, tail, c, 0, x)
    BY <1>2, <2>2, LineReplanned
  <2>4. LineAfter(plan, tail, c, 0, x) = y
    <3>1. SUFFICES ASSUME NEW k \in 0..c
                   PROVE  (IF k <= 0 THEN x[k] ELSE plan.ring[Ahead(tail, k)]) = buffer'[Ahead(tail, k)]
      BY DEF LineAfter, LineOf
    <3>2. CASE k = 0
      <4>1. plan.ring[Ahead(tail, 0)] = w[Ahead(tail, 0)]
        BY <2>3 DEF PlannedAs
      <4> QED
        BY <1>4, <2>1, <3>2, <4>1
    <3>3. CASE k # 0
      BY <1>0, <2>1, <3>3
    <3> QED
      BY <3>2, <3>3
  <2> QED
    BY <1>5, <2>1, <2>3, <2>4 DEF PlannedAs
<1> QED
  BY <1>6, <1>7

-----------------------------------------------------------------------------
(* The invariant *)

Last == Count - 1
Line == LineOf(Updated(buffer), tail, Last)
Pointer == Steps(tail, planned)
Decelerating == hold = "decelerating"

\* What the stepper knows of the block at the tail: a block that has to be loaded again is entered
\* at the speed the stepper is at; in a hold the speed is what is left of the way to its end; when
\* the hold has ended, the block is at rest.
Stepper ==
  /\ recalculate => ~Empty /\ Line[0].entry = current
  /\ loaded => /\ complete <= Line[0].length /\ hold # "complete"
               /\ complete > 0 => exit = 0 /\ Decelerating
               /\ Decelerating => current = exit + Line[0].length - complete
  /\ ended => hold # "no" /\ ~Empty /\ Line[0].entry = 0
  /\ hold = "complete" => ended \/ Empty

Planned == LineInv(Line, Last, Pointer, previous_nominal, override, slowed, hold)

PlanInv ==
  /\ TypeOK
  /\ ~Empty => Planned
  /\ ~slowed => ~decel_override
  /\ Stepper
  /\ ExitAgrees

\* The blocks in the ring are counted from the tail.
LEMMA Counting ==
  ASSUME Typed
  PROVE  /\ Count \in 0..N - 1 /\ (Empty <=> Count = 0) /\ Pointer \in 0..N - 1
         /\ head = Ahead(tail, Count) /\ planned = Ahead(tail, Pointer)
         /\ ~Empty => Last \in 0..N - 2 /\ Before(head) = Ahead(tail, Last)
         /\ ~Full => Count <= N - 2
         /\ Before(next_head) = head
<1>0. tail \in Slots /\ head \in Slots /\ planned \in Slots /\ next_head = After(head) /\ N \in Nat /\ N >= 3
  BY RingSize DEF Typed
<1>1. Count = (IF tail <= head THEN head - tail ELSE head - tail + N) /\ Count \in 0..N - 1
  BY <1>0, StepsIs DEF Count
<1>2. Pointer \in 0..N - 1 /\ head = Ahead(tail, Count) /\ planned = Ahead(tail, Pointer)
  BY <1>0, StepsIs, AheadSteps DEF Count, Pointer
<1>3. Empty <=> Count = 0
  BY <1>0, <1>1 DEF Empty, Slots
<1>4. ASSUME ~Empty PROVE Last \in 0..N - 2 /\ Before(head) = Ahead(tail, Last)
  <2>1. Last \in 0..N - 2
    BY <1>0, <1>1, <1>3, <1>4 DEF Last
  <2>2. Last \in 0..N
    BY <1>0, <2>1
  <2>3. Ahead(tail, Last) = IF tail + Last < N THEN tail + Last ELSE tail + Last - N
    BY <1>0, <2>2, AheadIs
  <2>4. Last = IF tail <= head THEN head - tail - 1 ELSE head - tail + N - 1
    BY <1>0, <1>1 DEF Last, Slots
  <2>5. Before(head) = Ahead(tail, Last)
    BY <1>0, <1>4, <2>3, <2>4 DEF Before, Slots, Empty
  <2> QED
    BY <2>1, <2>5
<1>5. ASSUME ~Full PROVE Count <= N - 2
  BY <1>0, <1>1, <1>5 DEF Full, After, Slots
<1>6. Before(next_head) = head
  BY <1>0, AfterIs
<1> QED
  BY <1>1, <1>2, <1>3, <1>4, <1>5, <1>6

\* The line, seen block by block.
LEMMA Blocked ==
  ASSUME Typed, ~Empty
  PROVE  /\ Line \in [0..Last -> Blocks] /\ Updated(buffer) \in Rings
         /\ \A k \in 0..Last : Ahead(tail, k) \in Slots /\ (k # 0 => Ahead(tail, k) # tail)
         /\ \A k \in 0..Last : k # 0 => Line[k] = buffer[Ahead(tail, k)]
         /\ \A k \in 0..Last : Line[k].length = At(k).length /\ Line[k].max_entry = At(k).max_entry
                               /\ Line[k].rate = At(k).rate /\ Line[k].entry = Entry(k)
         /\ Line[0] = IF loaded THEN [buffer[tail] EXCEPT !.entry = current] ELSE buffer[tail]
         /\ NominalSqr = Nominal(Line[0], override) * Nominal(Line[0], override)
         /\ ExitSpeed = Leave(Entries(Line, Last), Last, 0)
<1>0. tail \in Slots /\ head \in Slots /\ current \in Nat /\ buffer \in Rings /\ N \in Nat /\ N >= 3
  BY RingSize DEF Typed
<1>1. Last \in 0..N - 2 /\ Last \in Nat /\ Count = Last + 1
  BY <1>0, Counting DEF Last
<1>2. \A k \in 0..Last : Ahead(tail, k) \in Slots /\ Steps(tail, Ahead(tail, k)) = k
  <2>1. SUFFICES ASSUME NEW k \in 0..Last PROVE Ahead(tail, k) \in Slots /\ Steps(tail, Ahead(tail, k)) = k
    OBVIOUS
  <2>2. k \in 0..N - 1 /\ k \in 0..N
    BY <1>0, <1>1
  <2> QED
    BY <1>0, <2>2, AheadIs, StepsAhead
<1>3. Ahead(tail, 0) = tail /\ 0 \in 0..Last
  BY <1>0, <1>1, AheadZero
<1>4. \A k \in 0..Last : k # 0 => Ahead(tail, k) # tail
  BY <1>2, <1>3
<1>5. /\ Updated(buffer) \in Rings /\ \A i \in Slots : i # tail => Updated(buffer)[i] = buffer[i]
      /\ Updated(buffer)[tail] = IF loaded THEN [buffer[tail] EXCEPT !.entry = current] ELSE buffer[tail]
  BY <1>0, TakenIs DEF Updated, Taken
<1>6. Line \in [0..Last -> Blocks] /\ \A k \in 0..Last : Line[k] = Updated(buffer)[Ahead(tail, k)]
  BY <1>2, <1>5 DEF Line, LineOf, Rings
<1>7. \A k \in 0..Last : k # 0 => Line[k] = buffer[Ahead(tail, k)]
  BY <1>2, <1>4, <1>5, <1>6
<1>8. Line[0] = IF loaded THEN [buffer[tail] EXCEPT !.entry = current] ELSE buffer[tail]
  BY <1>3, <1>5, <1>6
<1>9. buffer[tail] \in Blocks
  BY <1>0 DEF Rings
<1>10. /\ Line[0].length = buffer[tail].length /\ Line[0].max_entry = buffer[tail].max_entry
       /\ Line[0].rate = buffer[tail].rate
       /\ Line[0].entry = IF loaded THEN current ELSE buffer[tail].entry
  <2> DEFINE a == buffer[tail]
  <2>1. a \in Blocks /\ Line[0] = IF loaded THEN [a EXCEPT !.entry = current] ELSE a
    BY <1>8, <1>9
  <2> HIDE DEF a
  <2>2. /\ Line[0].length = a.length /\ Line[0].max_entry = a.max_entry /\ Line[0].rate = a.rate
        /\ Line[0].entry = IF loaded THEN current ELSE a.entry
    BY <2>1 DEF Blocks
  <2> QED
    BY <2>2 DEF a
<1>11. ASSUME NEW k \in 0..Last
       PROVE  /\ Line[k].length = At(k).length /\ Line[k].max_entry = At(k).max_entry
              /\ Line[k].rate = At(k).rate /\ Line[k].entry = Entry(k)
  <2>1. CASE k = 0
    BY <1>3, <1>10, <2>1 DEF At, Entry
  <2>2. CASE k # 0
    BY <1>7, <2>2 DEF At, Entry
  <2> QED
    BY <2>1, <2>2
<1>12. NominalSqr = Nominal(Line[0], override) * Nominal(Line[0], override)
  BY <1>10 DEF NominalSqr, Nominal, Block
<1>13. ExitSpeed = Leave(Entries(Line, Last), Last, 0)
  <2>1. After(tail) = Ahead(tail, 1) /\ 1 \in 0..N - 1
    BY <1>0, AfterIs
  <2>2. CASE Last = 0
    <3>1. After(tail) = head
      BY <1>0, <1>1, <2>1, <2>2, Counting
    <3> QED
      BY <2>2, <3>1 DEF ExitSpeed, Leave
  <2>3. CASE Last # 0
    <3>1. Count \in 0..N - 1 /\ head = Ahead(tail, Count) /\ Count # 1 /\ 1 \in 0..Last
      BY <1>1, <2>3, Counting
    <3>2. Steps(tail, Ahead(tail, Count)) = Count /\ Steps(tail, Ahead(tail, 1)) = 1
      BY <1>0, <2>1, <3>1, StepsAhead
    <3>3. After(tail) # head
      BY <2>1, <3>1, <3>2
    <3>4. Entries(Line, Last)[1] = buffer[Ahead(tail, 1)].entry
      BY <1>7, <3>1 DEF Entries
    <3> QED
      BY <2>1, <2>3, <3>3, <3>4 DEF ExitSpeed, Leave
  <2> QED
    BY <2>2, <2>3
<1> QED
  BY <1>2, <1>4, <1>5, <1>6, <1>7, <1>8, <1>11, <1>12, <1>13

-----------------------------------------------------------------------------
(* Every step keeps the invariant *)

LEMMA Start == Init => PlanInv
<1> SUFFICES ASSUME Init PROVE PlanInv
  OBVIOUS
<1>0. N \in Nat /\ N >= 3
  BY RingSize
<1>1. TypeOK
  <2>1. 0 \in Slots /\ 1 = After(0)
    BY <1>0 DEF Slots, After
  <2>2. NoBlock \in Blocks
    BY DEF NoBlock, Blocks
  <2>3. buffer \in [Slots -> Blocks]
    BY <2>2 DEF Init
  <2> QED
    BY <2>1, <2>3 DEF Init, TypeOK, Blocks
<1>2. Empty
  BY DEF Init, Empty
<1> QED
  BY <1>1, <1>2 DEF Init, PlanInv, Stepper, ExitAgrees, Decelerating

\* The whole line is planned again, from the tail.
LEMMA Rethought ==
  ASSUME Typed, ~Empty, NEW b \in Rings, Reinitialize(b), UNCHANGED <<head, tail>>,
         NEW n, NEW factor, NEW slow, NEW holding,
         Ready(LineOf(Updated(b), tail, Last), Last, 0, n, factor, slow, holding)
  PROVE  /\ LineInv(Line', Last', Pointer', n, factor, slow, holding)
         /\ Line'[0] = LineOf(Updated(b), tail, Last)[0]
         /\ buffer' \in Rings /\ planned' \in Slots /\ StUpdate /\ ~Empty'
<1> DEFINE x == LineOf(Updated(b), tail, Last)
           y == LineOf(buffer', tail, Last)
<1>0. tail \in Slots /\ Last \in 0..N - 2 /\ Last \in 0..N - 1 /\ Before(head) = Ahead(tail, Last) /\ Last \in Nat
  BY Counting, RingSize DEF Typed
<1>1. /\ buffer' \in Rings /\ StUpdate
      /\ \E Q \in 0..Last : planned' = Ahead(tail, Q) /\ Replan(x, y, Last, 0, Q)
  BY <1>0, ReinitializeStep
<1>2. PICK Q \in 0..Last : planned' = Ahead(tail, Q) /\ Replan(x, y, Last, 0, Q)
  BY <1>1
<1>3. LineInv(y, Last, Q, n, factor, slow, holding)
  <2> HIDE DEF x, y
  <2>1. Ready(x, Last, 0, n, factor, slow, holding)
    BY DEF x
  <2> QED
    BY <1>0, <1>2, <2>1, LinePlanned
<1>4. y[0] = x[0]
  <2> HIDE DEF x, y
  <2>1. 0 \in 0..0
    OBVIOUS
  <2> QED
    BY <1>2, <2>1 DEF Replan
<1>5. Q \in 0..N - 1 /\ Q \in 0..N
  BY <1>0, RingSize
<1>6. planned' \in Slots /\ Pointer' = Q
  <2>1. Ahead(tail, Q) \in Slots /\ Steps(tail, Ahead(tail, Q)) = Q
    BY <1>0, <1>5, AheadIs, StepsAhead
  <2> QED
    BY <1>2, <2>1 DEF Pointer
<1>7. Last' = Last /\ ~Empty' /\ tail' = tail
  BY DEF Last, Count, Empty
<1>8. Line' = y
  <2>1. Updated(buffer)' = buffer'
    BY <1>1 DEF Updated, StUpdate
  <2> QED
    BY <1>7, <2>1 DEF Line, LineOf
<1> QED
  BY <1>1, <1>3, <1>4, <1>6, <1>7, <1>8

\* After StUpdate() the stepper's speed is the one the block at the tail has to be loaded at.
LEMMA Entered ==
  ASSUME Typed, Stepper, ~Empty, recalculate \/ loaded
  PROVE  Line[0].entry = current
<1>1. Last \in Nat
  BY Counting, RingSize
<1>2. loaded => Line[0].entry = current
  BY <1>1, Blocked DEF Entry
<1> QED
  BY <1>2 DEF Stepper

LEMMA FeedHoldKeeps == PlanInv /\ FeedHold => PlanInv'
<1> SUFFICES ASSUME PlanInv, FeedHold PROVE PlanInv'
  OBVIOUS
<1>0. Typed /\ Stepper /\ TypeOK /\ (~Empty => Planned) /\ hold = "no"
  BY Types DEF PlanInv, FeedHold
<1>1. StUpdate /\ buffer' = Updated(buffer) /\ hold' = "decelerating"
      /\ UNCHANGED <<head, next_head, tail, planned, previous_nominal, override, ended, slowed>>
  BY DEF FeedHold
<1>2. Updated(buffer)' = buffer' /\ buffer' \in Rings
  <2>1. CASE loaded
    BY <1>0, <1>1, <2>1, Blocked DEF StUpdate, Updated, TypeOK
  <2>2. CASE ~loaded
    BY <1>0, <1>1, <2>2 DEF StUpdate, Updated, Typed
  <2> QED
    BY <2>1, <2>2
<1>3. Last' = Last /\ Pointer' = Pointer /\ tail' = tail /\ Empty' = Empty
  BY <1>0, <1>1 DEF Last, Count, Pointer, Empty
<1>4. Line' = Line
  BY <1>1, <1>2, <1>3 DEF Line, LineOf
<1>5. ~Empty => Planned'
  <2> SUFFICES ASSUME ~Empty PROVE Planned'
    OBVIOUS
  <2>1. LineInv(Line, Last, Pointer, previous_nominal, override, slowed, hold)
    BY <1>0 DEF Planned
  <2>2. LineInv(Line, Last, Pointer, previous_nominal, override, slowed, "decelerating")
    BY <1>0, <2>1 DEF LineInv
  <2> QED
    BY <1>1, <1>3, <1>4, <2>2 DEF Planned
<1>6. TypeOK'
  BY <1>0, <1>1, <1>2, <1>3 DEF TypeOK, StUpdate, Rings, Blocks
<1>7. ~ended
  BY <1>0 DEF Stepper
<1>8. Stepper'
  <2>1. recalculate' => ~Empty
    BY <1>0, <1>1 DEF Stepper, StUpdate, TypeOK
  <2>2. recalculate' => Line'[0].entry = current'
    BY <1>0, <1>1, <1>4, <2>1, Entered DEF StUpdate
  <2> QED
    BY <1>1, <1>3, <1>7, <2>1, <2>2 DEF Stepper, StUpdate
<1>9. ExitAgrees'
  BY <1>1 DEF ExitAgrees, StUpdate
<1>10. (~slowed => ~decel_override)'
  BY <1>1 DEF PlanInv, StUpdate
<1> QED
  BY <1>3, <1>5, <1>6, <1>8, <1>9, <1>10 DEF PlanInv

LEMMA ResumeKeeps == PlanInv /\ Resume => PlanInv'
<1> SUFFICES ASSUME PlanInv, Resume PROVE PlanInv'
  OBVIOUS
<1>0. Stepper /\ TypeOK /\ hold = "complete" /\ (~Empty => Planned) /\ (~slowed => ~decel_override)
  BY DEF PlanInv, Resume
<1>1. UNCHANGED <<buffer, head, next_head, tail, planned, previous_nominal, override, slowed,
                  loaded, recalculate, decel_override, current, exit, complete>>
      /\ hold' = "no" /\ ended' = FALSE
  BY DEF Resume, ringVars, prepVars
<1>2. ~loaded
  BY <1>0 DEF Stepper
<1>3. Last' = Last /\ Pointer' = Pointer /\ tail' = tail /\ Empty' = Empty /\ Updated(buffer)' = Updated(buffer)
  BY <1>1 DEF Last, Count, Pointer, Empty, Updated
<1>4. Line' = Line
  BY <1>3 DEF Line, LineOf
<1>5. Planned => Planned'
  <2>1. Planned => LineInv(Line, Last, Pointer, previous_nominal, override, slowed, "complete")
    BY <1>0 DEF Planned
  <2>2. LineInv(Line, Last, Pointer, previous_nominal, override, slowed, "complete") =>
        LineInv(Line, Last, Pointer, previous_nominal, override, slowed, "no")
    BY DEF LineInv
  <2> QED
    BY <1>1, <1>3, <1>4, <2>1, <2>2 DEF Planned
<1>6. TypeOK'
  BY <1>0, <1>1, <1>3 DEF TypeOK
<1>7. Stepper'
  BY <1>0, <1>1, <1>2, <1>3, <1>4 DEF Stepper
<1>8. ExitAgrees'
  BY <1>1, <1>2 DEF ExitAgrees
<1> QED
  BY <1>0, <1>1, <1>3, <1>5, <1>6, <1>7, <1>8 DEF PlanInv

LEMMA ResetKeeps == PlanInv /\ Reset => PlanInv'
<1> SUFFICES ASSUME PlanInv, Reset PROVE PlanInv'
  OBVIOUS
<1>0. N \in Nat /\ N >= 3 /\ TypeOK
  BY RingSize DEF PlanInv
<1>1. TypeOK'
  <2>1. 0 \in Slots /\ 1 = After(0)
    BY <1>0 DEF Slots, After
  <2> QED
    BY <1>0, <2>1 DEF Reset, TypeOK
<1>2. Empty'
  BY DEF Reset, Empty
<1> QED
  BY <1>1, <1>2 DEF Reset, PlanInv, Stepper, ExitAgrees

\* An empty ring that is planned again stays an empty ring.
LEMMA EmptyRethought ==
  ASSUME Typed, Stepper, Empty, NEW b \in Rings, Reinitialize(b), UNCHANGED <<head, tail>>
  PROVE  buffer' \in Rings /\ planned' \in Slots /\ StUpdate /\ Empty' /\ recalculate' = FALSE /\ loaded' = FALSE
<1>0. tail \in Slots /\ head = tail /\ N - 1 \in 0..N - 1 /\ N \in Nat /\ N >= 3
  BY RingSize DEF Typed, Empty
<1>1. Before(head) = Ahead(tail, N - 1)
  <2>1. N - 1 \in 0..N
    BY <1>0
  <2>2. Ahead(tail, N - 1) = IF tail + (N - 1) < N THEN tail + (N - 1) ELSE tail + (N - 1) - N
    BY <1>0, <2>1, AheadIs
  <2> QED
    BY <1>0, <2>2 DEF Before, Slots
<1>2. /\ buffer' \in Rings /\ StUpdate
      /\ \E Q \in 0..N - 1 : /\ planned' = Ahead(tail, Q)
                             /\ Replan(LineOf(Updated(b), tail, N - 1), LineOf(buffer', tail, N - 1), N - 1, 0, Q)
  BY <1>0, <1>1, ReinitializeStep
<1>3. PICK Q \in 0..N - 1 : planned' = Ahead(tail, Q)
  BY <1>2
<1>4. Q \in 0..N
  BY <1>0
<1>5. planned' \in Slots
  BY <1>0, <1>3, <1>4, AheadIs
<1>6. ~loaded /\ recalculate = FALSE
  <2>1. ~loaded
    BY DEF Typed
  <2> QED
    BY <2>1 DEF Stepper
<1> QED
  BY <1>2, <1>5, <1>6 DEF StUpdate, Empty

LEMMA HoldCompleteKeeps == PlanInv /\ HoldComplete => PlanInv'
<1> SUFFICES ASSUME PlanInv, HoldComplete PROVE PlanInv'
  OBVIOUS
<1>0. Typed /\ Stepper /\ TypeOK /\ (~Empty => Planned) /\ (~slowed => ~decel_override) /\ buffer \in Rings
      /\ override \in Nat
  BY Types DEF PlanInv, Typed
<1>1. Reinitialize(buffer) /\ hold' = "complete" /\ hold = "decelerating" /\ (ended \/ (Empty /\ ~loaded))
      /\ UNCHANGED <<head, next_head, tail, previous_nominal, override, ended, slowed>>
  BY DEF HoldComplete
<1>2. buffer' \in Rings /\ planned' \in Slots /\ StUpdate /\ (Empty' <=> Empty)
      /\ (Empty => recalculate' = FALSE /\ loaded' = FALSE) /\ (~Empty => Planned' /\ Line'[0] = Line[0])
  <2>1. CASE Empty
    BY <1>0, <1>1, <2>1, EmptyRethought
  <2>2. CASE ~Empty
    <3>1. ended
      BY <1>1, <2>2
    <3>2. Line[0].entry = 0
      BY <1>0, <3>1 DEF Stepper
    <3>3. Last \in Nat
      BY <1>0, <2>2, Counting, RingSize
    <3>4. Ready(Line, Last, 0, previous_nominal, override, slowed, "complete")
      BY <1>0, <2>2, <3>2, <3>3, LineAtRest DEF Planned
    <3>5. /\ LineInv(Line', Last', Pointer', previous_nominal, override, slowed, "complete")
          /\ Line'[0] = Line[0]
          /\ buffer' \in Rings /\ planned' \in Slots /\ StUpdate /\ ~Empty'
      <4>1. Line = LineOf(Updated(buffer), tail, Last)
        BY DEF Line
      <4>2. Ready(LineOf(Updated(buffer), tail, Last), Last, 0, previous_nominal, override, slowed, "complete")
        BY <3>4, <4>1
      <4>3. /\ LineInv(Line', Last', Pointer', previous_nominal, override, slowed, "complete")
            /\ Line'[0] = LineOf(Updated(buffer), tail, Last)[0]
            /\ buffer' \in Rings /\ planned' \in Slots /\ StUpdate /\ ~Empty'
        BY <1>0, <1>1, <2>2, <4>2, Rethought
      <4> QED
        BY <4>1, <4>3
    <3>6. LineInv(Line', Last', Pointer', previous_nominal', override', slowed', hold')
      BY <1>1, <3>5
    <3>7. Planned'
      BY <3>6 DEF Planned
    <3> QED
      BY <1>1, <2>2, <3>5, <3>7
  <2> QED
    BY <2>1, <2>2
<1>3. TypeOK'
  BY <1>0, <1>1, <1>2 DEF TypeOK, StUpdate, Rings, Blocks
<1>4. Stepper'
  <2>1. ASSUME recalculate' PROVE ~Empty' /\ Line'[0].entry = current'
    <3>1. ~Empty
      BY <1>2, <2>1
    <3>2. recalculate \/ loaded
      BY <1>2, <2>1 DEF StUpdate
    <3>3. Line[0].entry = current
      BY <1>0, <3>1, <3>2, Entered
    <3> QED
      BY <1>2, <3>1, <3>3 DEF StUpdate
  <2>2. ~loaded'
    BY <1>2 DEF StUpdate
  <2> QED
    BY <1>0, <1>1, <1>2, <2>1, <2>2 DEF Stepper
<1>5. ExitAgrees'
  BY <1>2 DEF ExitAgrees, StUpdate
<1>6. (~slowed => ~decel_override)'
  BY <1>0, <1>1, <1>2 DEF StUpdate
<1> QED
  BY <1>2, <1>3, <1>4, <1>5, <1>6 DEF PlanInv

\* The ring with the maxima of an override factor.
NominalAt(factor, k) == Nominal(buffer[Ahead(tail, k)], factor)
PreviousAt(factor, k) == IF k = 0 THEN Large ELSE NominalAt(factor, k - 1)
Overridden(factor) ==
  [i \in Slots |->
     IF Steps(tail, i) < Count
     THEN [buffer[i] EXCEPT !.max_entry = MaxEntry(buffer[i], NominalAt(factor, Steps(tail, i)),
                                                   PreviousAt(factor, Steps(tail, i)))]
     ELSE buffer[i]]

LEMMA MaxEntryIs ==
  ASSUME NEW block \in Blocks, NEW a \in Nat, NEW b \in Nat
  PROVE  MaxEntry(block, a, b) \in Nat
<1> DEFINE u == Least(a, b)
<1>1. u \in Nat /\ block.junction \in Nat
  BY LeastIs DEF Blocks
<1> HIDE DEF u
<1>2. u * u \in Nat
  BY <1>1, Squares
<1> DEFINE v == u * u
<1>3. v \in Nat
  BY <1>2
<1> HIDE DEF v
<1>4. Least(v, block.junction) \in Nat
  BY <1>1, <1>3, LeastIs
<1> QED
  BY <1>4 DEF MaxEntry, u, v

LEMMA OverriddenIs ==
  ASSUME Typed, NEW factor \in Nat
  PROVE  /\ Overridden(factor) \in Rings /\ PreviousAt(factor, Count) \in Nat
         /\ ~Empty =>
              /\ Chained(LineOf(Updated(Overridden(factor)), tail, Last), Last, PreviousAt(factor, Count), factor)
              /\ LineOf(Updated(Overridden(factor)), tail, Last) \in [0..Last -> Blocks]
              /\ \A k \in 0..Last :
                   /\ LineOf(Updated(Overridden(factor)), tail, Last)[k].length = Line[k].length
                   /\ LineOf(Updated(Overridden(factor)), tail, Last)[k].entry = Line[k].entry
                   /\ LineOf(Updated(Overridden(factor)), tail, Last)[k].rate = Line[k].rate
                   /\ LineOf(Updated(Overridden(factor)), tail, Last)[k].junction = Line[k].junction
<1> DEFINE b == Overridden(factor)
           y == LineOf(Updated(b), tail, Last)
<1>0. tail \in Slots /\ head \in Slots /\ current \in Nat /\ buffer \in Rings /\ N \in Nat /\ N >= 3
      /\ Count \in 0..N - 1
  BY RingSize, Counting DEF Typed
<1>1. ASSUME NEW k \in 0..N - 1 PROVE NominalAt(factor, k) \in Nat /\ PreviousAt(factor, k) \in Nat
  <2>1. \A j \in 0..N - 1 : NominalAt(factor, j) \in Nat
    <3>1. SUFFICES ASSUME NEW j \in 0..N - 1 PROVE NominalAt(factor, j) \in Nat
      OBVIOUS
    <3>2. j \in 0..N
      BY <1>0
    <3>3. Ahead(tail, j) \in Slots
      BY <1>0, <3>2, AheadIs
    <3>4. buffer[Ahead(tail, j)] \in Blocks
      BY <1>0, <3>3 DEF Rings
    <3>5. buffer[Ahead(tail, j)].rate \in Nat
      BY <3>4 DEF Blocks
    <3> QED
      BY <3>5 DEF NominalAt, Nominal
  <2>2. k # 0 => k - 1 \in 0..N - 1
    BY <1>0
  <2> QED
    BY <2>1, <2>2 DEF PreviousAt, Large
<1>2. PreviousAt(factor, Count) \in Nat
  BY <1>0, <1>1
<1>3. ASSUME NEW i \in Slots
      PROVE  /\ b[i] \in Blocks /\ b[i].length = buffer[i].length /\ b[i].entry = buffer[i].entry
             /\ b[i].rate = buffer[i].rate /\ b[i].junction = buffer[i].junction
             /\ Steps(tail, i) < Count =>
                  b[i].max_entry = MaxEntry(buffer[i], NominalAt(factor, Steps(tail, i)),
                                            PreviousAt(factor, Steps(tail, i)))
  <2> DEFINE a == buffer[i]
             k == Steps(tail, i)
             m == MaxEntry(a, NominalAt(factor, k), PreviousAt(factor, k))
  <2>1. k \in 0..N - 1
    BY <1>0, StepsIs
  <2>2. a \in Blocks
    BY <1>0 DEF Rings
  <2>3. m \in Nat
    BY <1>1, <2>1, <2>2, MaxEntryIs
  <2>4. b[i] = IF k < Count THEN [a EXCEPT !.max_entry = m] ELSE a
    BY DEF Overridden
  <2> HIDE DEF a, k, m
  <2>5. /\ b[i] \in Blocks /\ b[i].length = a.length /\ b[i].entry = a.entry
        /\ b[i].rate = a.rate /\ b[i].junction = a.junction /\ (k < Count => b[i].max_entry = m)
    BY <2>2, <2>3, <2>4 DEF Blocks
  <2> QED
    BY <2>5 DEF a, k, m
<1>4. b \in Rings
  <2>1. b = [i \in Slots |-> b[i]]
    BY DEF Overridden
  <2> QED
    BY <1>3, <2>1 DEF Rings
<1> HIDE DEF b
<1>5. ASSUME ~Empty
      PROVE  /\ Chained(y, Last, PreviousAt(factor, Count), factor)
             /\ y \in [0..Last -> Blocks]
             /\ \A k \in 0..Last : /\ y[k].length = Line[k].length /\ y[k].entry = Line[k].entry
                                   /\ y[k].rate = Line[k].rate /\ y[k].junction = Line[k].junction
  <2>1. Last \in 0..N - 2 /\ Count = Last + 1 /\ Last \in Nat
    BY <1>0, <1>5, Counting DEF Last
  <2>2. ASSUME NEW k \in 0..Last
        PROVE  /\ k \in 0..N - 1 /\ Ahead(tail, k) \in Slots /\ Steps(tail, Ahead(tail, k)) = k
    <3>1. k \in 0..N - 1 /\ k \in 0..N
      BY <1>0, <2>1
    <3> QED
      BY <1>0, <3>1, AheadIs, StepsAhead
  <2>3. /\ \A i \in Slots : i # tail => Updated(b)[i] = b[i] /\ Updated(buffer)[i] = buffer[i]
        /\ Updated(b)[tail] = IF loaded THEN [b[tail] EXCEPT !.entry = current] ELSE b[tail]
        /\ Updated(buffer)[tail] = IF loaded THEN [buffer[tail] EXCEPT !.entry = current] ELSE buffer[tail]
        /\ Updated(b) \in Rings
    <3>1. Updated(b) = Taken(b, tail, loaded, current) /\ Updated(buffer) = Taken(buffer, tail, loaded, current)
      BY DEF Updated, Taken
    <3>2. /\ Taken(b, tail, loaded, current) \in Rings
          /\ \A i \in Slots : i # tail => Taken(b, tail, loaded, current)[i] = b[i]
          /\ Taken(b, tail, loaded, current)[tail] = IF loaded THEN [b[tail] EXCEPT !.entry = current] ELSE b[tail]
      BY <1>0, <1>4, TakenIs
    <3>3. /\ \A i \in Slots : i # tail => Taken(buffer, tail, loaded, current)[i] = buffer[i]
          /\ Taken(buffer, tail, loaded, current)[tail] =
               IF loaded THEN [buffer[tail] EXCEPT !.entry = current] ELSE buffer[tail]
      BY <1>0, TakenIs
    <3> QED
      BY <3>1, <3>2, <3>3
  <2>4. ASSUME NEW i \in Slots
        PROVE  /\ Updated(b)[i].length = Updated(buffer)[i].length
               /\ Updated(b)[i].entry = Updated(buffer)[i].entry
               /\ Updated(b)[i].rate = Updated(buffer)[i].rate
               /\ Updated(b)[i].junction = Updated(buffer)[i].junction
               /\ Updated(b)[i].max_entry = b[i].max_entry
               /\ Updated(buffer)[i].rate = buffer[i].rate
               /\ Updated(buffer)[i].junction = buffer[i].junction
    <3> DEFINE u == b[i]
               v == buffer[i]
    <3>1. /\ u \in Blocks /\ v \in Blocks
          /\ u.length = v.length /\ u.entry = v.entry /\ u.rate = v.rate /\ u.junction = v.junction
      BY <1>0, <1>3 DEF Rings
    <3>2. \/ Updated(b)[i] = u /\ Updated(buffer)[i] = v
          \/ Updated(b)[i] = [u EXCEPT !.entry = current] /\ Updated(buffer)[i] = [v EXCEPT !.entry = current]
      BY <2>3
    <3>3. u = b[i] /\ v = buffer[i]
      OBVIOUS
    <3> HIDE DEF u, v
    <3>4. CASE Updated(b)[i] = u /\ Updated(buffer)[i] = v
      BY <3>1, <3>3, <3>4
    <3>5. CASE Updated(b)[i] = [u EXCEPT !.entry = current] /\ Updated(buffer)[i] = [v EXCEPT !.entry = current]
      <4>1. [u EXCEPT !.entry = current].entry = current /\ [v EXCEPT !.entry = current].entry = current
        BY <3>1 DEF Blocks
      <4>2. /\ [u EXCEPT !.entry = current].length = u.length /\ [v EXCEPT !.entry = current].length = v.length
            /\ [u EXCEPT !.entry = current].rate = u.rate /\ [v EXCEPT !.entry = current].rate = v.rate
            /\ [u EXCEPT !.entry = current].junction = u.junction /\ [v EXCEPT !.entry = current].junction = v.junction
            /\ [u EXCEPT !.entry = current].max_entry = u.max_entry
        BY <3>1 DEF Blocks
      <4> QED
        BY <3>1, <3>3, <3>5, <4>1, <4>2
    <3> QED
      BY <3>2, <3>4, <3>5
  <2>5. \A k \in 0..Last : y[k] = Updated(b)[Ahead(tail, k)] /\ Line[k] = Updated(buffer)[Ahead(tail, k)]
    BY DEF Line, LineOf
  <2>6. y \in [0..Last -> Blocks]
    BY <2>2, <2>3 DEF LineOf, Rings
  <2> HIDE DEF y
  <2>7. \A k \in 0..Last : /\ y[k].length = Line[k].length /\ y[k].entry = Line[k].entry
                           /\ y[k].rate = Line[k].rate /\ y[k].junction = Line[k].junction
    BY <2>2, <2>4, <2>5
  <2>8. ASSUME NEW k \in 0..Last PROVE Nominal(y[k], factor) = NominalAt(factor, k)
    <3>1. y[k].rate = buffer[Ahead(tail, k)].rate
      BY <2>2, <2>4, <2>5
    <3> QED
      BY <3>1 DEF Nominal, NominalAt
  <2>9. ASSUME NEW k \in 1..Last
        PROVE  y[k].max_entry = MaxEntry(y[k], Nominal(y[k], factor), Nominal(y[k - 1], factor))
    <3>1. k \in 0..Last /\ k - 1 \in 0..Last /\ k # 0 /\ k < Count
      BY <2>1
    <3> DEFINE i == Ahead(tail, k)
    <3>2. i \in Slots /\ Steps(tail, i) = k /\ y[k] = Updated(b)[i]
      BY <2>2, <2>5, <3>1
    <3> HIDE DEF i
    <3>3. y[k].max_entry = MaxEntry(buffer[i], NominalAt(factor, k), PreviousAt(factor, k))
      BY <1>3, <2>4, <3>1, <3>2
    <3>4. PreviousAt(factor, k) = NominalAt(factor, k - 1)
      BY <3>1 DEF PreviousAt
    <3>5. y[k].junction = buffer[i].junction
      BY <2>4, <3>2
    <3> QED
      BY <2>8, <3>1, <3>3, <3>4, <3>5 DEF MaxEntry
  <2>10. PreviousAt(factor, Count) = Nominal(y[Last], factor)
    <3>1. Count # 0 /\ Count - 1 = Last /\ Last \in 0..Last
      BY <2>1
    <3> QED
      BY <2>8, <3>1 DEF PreviousAt
  <2>11. Chained(y, Last, PreviousAt(factor, Count), factor)
    BY <2>9, <2>10 DEF Chained
  <2> QED
    BY <2>6, <2>7, <2>11
<1> QED
  BY <1>2, <1>4, <1>5 DEF b

LEMMA OverrideKeeps == PlanInv /\ Override => PlanInv'
<1> SUFFICES ASSUME PlanInv, Override PROVE PlanInv'
  OBVIOUS
<1>0. Typed /\ Stepper /\ TypeOK /\ (~Empty => Planned) /\ (~slowed => ~decel_override) /\ override \in Nat
  BY Types DEF PlanInv, Typed
<1>1. PICK factor \in Overrides :
        /\ override' = factor /\ slowed' = (slowed \/ (factor < override /\ ~Empty))
        /\ previous_nominal' = PreviousAt(factor, Count)
        /\ Reinitialize(Overridden(factor))
  BY DEF Override, Overridden, PreviousAt, NominalAt, Count
<1>2. UNCHANGED <<head, next_head, tail, hold, ended>>
  BY DEF Override
<1>3. factor \in Nat
  BY PlannerAssumption DEF PlannerAssumption
<1> DEFINE b == Overridden(factor)
           n == PreviousAt(factor, Count)
           y == LineOf(Updated(b), tail, Last)
<1>4. b \in Rings /\ n \in Nat
  BY <1>0, <1>3, OverriddenIs
<1>5. buffer' \in Rings /\ planned' \in Slots /\ StUpdate /\ (Empty' <=> Empty)
      /\ (Empty => recalculate' = FALSE /\ loaded' = FALSE) /\ (~Empty => Planned' /\ Line'[0].entry = Line[0].entry)
  <2>1. CASE Empty
    <3> HIDE DEF b
    <3> QED
      BY <1>0, <1>1, <1>2, <1>4, <2>1, EmptyRethought DEF b
  <2>2. CASE ~Empty
    <3>0. Last \in Nat /\ 0 \in 0..Last
      BY <1>0, <2>2, Counting, RingSize
    <3>1. /\ Chained(y, Last, n, factor) /\ y \in [0..Last -> Blocks]
          /\ \A k \in 0..Last : /\ y[k].length = Line[k].length /\ y[k].entry = Line[k].entry
                                /\ y[k].rate = Line[k].rate /\ y[k].junction = Line[k].junction
      BY <1>0, <1>3, <2>2, OverriddenIs
    <3> HIDE DEF y, n, b
    <3>2. ~slowed' => ~slowed /\ override <= factor
      <4>1. ~slowed' => ~slowed /\ ~(factor < override)
        BY <1>1, <2>2, Zenon
      <4> QED
        BY <1>0, <1>3, <4>1
    <3>3. Ready(y, Last, 0, n, factor, slowed', hold)
      <4>1. LineInv(Line, Last, Pointer, previous_nominal, override, slowed, hold)
        BY <1>0, <2>2 DEF Planned
      <4> QED
        BY <1>0, <1>3, <3>0, <3>1, <3>2, <4>1, LineOverridden
    <3>4. /\ LineInv(Line', Last', Pointer', n, factor, slowed', hold)
          /\ Line'[0] = y[0]
          /\ buffer' \in Rings /\ planned' \in Slots /\ StUpdate /\ ~Empty'
      <4>1. y = LineOf(Updated(b), tail, Last) /\ Reinitialize(b)
        BY <1>1 DEF y, b
      <4>2. Ready(LineOf(Updated(b), tail, Last), Last, 0, n, factor, slowed', hold)
        BY <3>3, <4>1
      <4>3. /\ LineInv(Line', Last', Pointer', n, factor, slowed', hold)
            /\ Line'[0] = LineOf(Updated(b), tail, Last)[0]
            /\ buffer' \in Rings /\ planned' \in Slots /\ StUpdate /\ ~Empty'
        BY <1>0, <1>2, <1>4, <2>2, <4>1, <4>2, Rethought
      <4> QED
        BY <4>1, <4>3
    <3>5. LineInv(Line', Last', Pointer', previous_nominal', override', slowed', hold')
      BY <1>1, <1>2, <3>4 DEF n
    <3>6. Planned'
      BY <3>5 DEF Planned
    <3>7. Line'[0].entry = Line[0].entry
      BY <3>0, <3>1, <3>4
    <3> QED
      BY <2>2, <3>4, <3>6, <3>7
  <2> QED
    BY <2>1, <2>2
<1>6. TypeOK'
  <2>1. previous_nominal' \in Nat /\ override' \in Overrides \cup {2} /\ slowed' \in BOOLEAN
    BY <1>0, <1>1, <1>4
  <2> QED
    BY <1>0, <1>2, <1>5, <2>1 DEF TypeOK, StUpdate, Rings, Blocks
<1>7. Stepper'
  <2>1. ASSUME recalculate' PROVE ~Empty' /\ Line'[0].entry = current'
    <3>1. ~Empty
      BY <1>5, <2>1
    <3>2. recalculate \/ loaded
      BY <1>5, <2>1 DEF StUpdate
    <3>3. Line[0].entry = current
      BY <1>0, <3>1, <3>2, Entered
    <3> QED
      BY <1>5, <3>1, <3>3 DEF StUpdate
  <2>2. ~loaded'
    BY <1>5 DEF StUpdate
  <2>3. ended' => hold' # "no" /\ ~Empty' /\ Line'[0].entry = 0
    BY <1>0, <1>2, <1>5 DEF Stepper
  <2>4. hold' = "complete" => ended' \/ Empty'
    BY <1>0, <1>2, <1>5 DEF Stepper
  <2> QED
    BY <2>1, <2>2, <2>3, <2>4 DEF Stepper
<1>8. ExitAgrees'
  BY <1>5 DEF ExitAgrees, StUpdate
<1>9. (~slowed => ~decel_override)'
  BY <1>0, <1>1, <1>5 DEF StUpdate
<1> QED
  BY <1>5, <1>6, <1>7, <1>8, <1>9 DEF PlanInv

\* When the last block is not to be entered at any speed, the pointer comes to it.
LEMMA ToTheLast ==
  ASSUME NEW b \in Rings, NEW h \in Slots, NEW p \in Slots, Depth(h, p) >= 1,
         b[Before(h)].max_entry = 0, b[Before(h)].entry = 0
  PROVE  /\ Recalculated(b, h, p).ring \in Rings
         /\ Recalculated(b, h, p).ring[Before(h)] = b[Before(h)]
         /\ Recalculated(b, h, p).planned = Before(h)
<1> DEFINE c == Depth(h, p)
           x == LineOf(b, p, c)
           plan == Recalculated(b, h, p)
<1>1. c = Depth(h, p) /\ c >= 1 /\ x = [k \in 0..c |-> b[Ahead(p, k)]] /\ plan = Recalculated(b, h, p)
  BY DEF LineOf
<1>0. Passed(b, p, c, x, plan)
  BY Passes
<1>2. Before(h) \in Slots /\ Ahead(p, c) = Before(h)
  BY AfterIs, AheadSteps DEF Depth
<1> HIDE DEF c, x, plan
<1>3. /\ c \in 1..N - 1 /\ x \in [0..c -> Blocks]
      /\ \E r, e : \E m \in 0..c : Plans(x, c, r, e) /\ Replanned(b, p, c, x, e, m, plan)
  BY <1>0 DEF Passed
<1>4. c \in Nat /\ c \in 0..c /\ c \in 1..c /\ c >= 1
  BY <1>3, RingSize
<1>5. x[c] = b[Before(h)]
  BY <1>1, <1>2, <1>4
<1>6. PICK r, e : \E m \in 0..c : Plans(x, c, r, e) /\ Replanned(b, p, c, x, e, m, plan)
  BY <1>3
<1>7. PICK m \in 0..c : Plans(x, c, r, e) /\ Replanned(b, p, c, x, e, m, plan)
  BY <1>6
<1>8. e[c] = 0
  <2>1. CappedBy(x, c, e)
    BY <1>3, <1>4, <1>7, PlanBounded
  <2>2. e[c] <= 0
    BY <1>4, <1>5, <2>1 DEF CappedBy
  <2>3. e[c] \in Nat
    BY <1>4, <1>7 DEF Plans
  <2> QED
    BY <2>2, <2>3
<1>9. m = c /\ plan.planned = Ahead(p, m)
  BY <1>5, <1>7, <1>8 DEF Replanned
<1>10. plan.ring \in Rings /\ plan.ring[Ahead(p, c)] = [x[c] EXCEPT !.entry = e[c]]
  BY <1>4, <1>7 DEF Replanned
<1>11. [x[c] EXCEPT !.entry = e[c]] = x[c]
  <2> DEFINE a == x[c]
  <2>1. a \in Blocks /\ a.entry = 0
    BY <1>3, <1>4, <1>5
  <2> HIDE DEF a
  <2>2. [a EXCEPT !.entry = 0] = a
    BY <2>1 DEF Blocks
  <2> QED
    BY <1>8, <2>2 DEF a
<1> QED
  BY <1>1, <1>2, <1>5, <1>9, <1>10, <1>11

\* A block planned on an empty ring: the pointer may be anywhere.
LEMMA FirstPlanned ==
  ASSUME Typed, Empty, NEW b \in Rings, b[head].max_entry = 0, b[head].entry = 0,
         Recalculate(b, next_head, planned)
  PROVE  buffer' \in Rings /\ buffer'[head] = b[head] /\ planned' = head /\ UNCHANGED prepVars
<1>0. /\ tail \in Slots /\ head \in Slots /\ planned \in Slots /\ next_head \in Slots /\ head = tail
      /\ Before(next_head) = head /\ N \in Nat /\ N >= 3
  BY RingSize, AfterIs, Counting DEF Typed, Empty
<1>1. CASE planned = head
  BY <1>0, <1>1 DEF Recalculate
<1>2. CASE planned # head
  <2>1. Ahead(planned, Depth(next_head, planned)) = head /\ Depth(next_head, planned) \in 0..N - 1
    BY <1>0, StepsIs, AheadSteps DEF Depth
  <2>2. Depth(next_head, planned) >= 1
    BY <1>0, <1>2, <2>1, AheadZero
  <2>3. ~MeetsTail(next_head, planned)
    <3>1. Steps(tail, Before(next_head)) = 0
      BY <1>0, StepsIs DEF Slots
    <3> QED
      BY <3>1 DEF MeetsTail
  <2> DEFINE plan == Recalculated(b, next_head, planned)
  <2>4. buffer' = plan.ring /\ planned' = plan.planned /\ UNCHANGED prepVars
    BY <1>0, <1>2, <2>3 DEF Recalculate
  <2>5. b[Before(next_head)].max_entry = 0 /\ b[Before(next_head)].entry = 0
    BY <1>0
  <2>6. plan.ring \in Rings /\ plan.ring[Before(next_head)] = b[Before(next_head)] /\ plan.planned = Before(next_head)
    BY <1>0, <2>2, <2>5, ToTheLast
  <2> QED
    BY <1>0, <2>4, <2>6
<1> QED
  BY <1>1, <1>2

\* The head moves on by one.
LEMMA HeadMoves ==
  ASSUME Typed, ~Full, head' = next_head, tail' = tail
  PROVE  /\ Count' = Count + 1 /\ Last' = Count /\ ~Empty' /\ Count \in 0..N - 2
         /\ next_head \in Slots /\ After(next_head) \in Slots
<1>0. tail \in Slots /\ head \in Slots /\ next_head = After(head) /\ N \in Nat /\ N >= 3
      /\ head = Ahead(tail, Count) /\ Count \in 0..N - 2
  BY RingSize, Counting DEF Typed
<1>1. next_head \in Slots /\ next_head = Ahead(head, 1)
  BY <1>0, AfterIs
<1>2. Count \in 0..N - 1 /\ 1 \in 0..N - 1 /\ Count + 1 <= N - 1 /\ Count + 1 \in 0..N - 1
  BY <1>0
<1>3. next_head = Ahead(tail, Count + 1)
  <2>1. Ahead(Ahead(tail, Count), 1) = Ahead(tail, Count + 1)
    BY <1>0, <1>2, AheadAhead
  <2> QED
    BY <1>0, <1>1, <2>1
<1>4. Steps(tail, next_head) = Count + 1
  BY <1>0, <1>2, <1>3, StepsAhead
<1>5. Count' = Count + 1
  BY <1>4 DEF Count
<1>6. Last' = Count
  BY <1>0, <1>5 DEF Last
<1>7. ~Empty'
  BY DEF Full, Empty
<1> QED
  BY <1>0, <1>1, <1>5, <1>6, <1>7, AfterIs

\* The line with a block added behind it.
LEMMA LineWith ==
  ASSUME Typed, ~Empty, ~Full, NEW block \in Blocks, NEW b, b = [buffer EXCEPT ![head] = block]
  PROVE  /\ b \in Rings
         /\ LineOf(Updated(b), tail, Last + 1) = [k \in 0..Last + 1 |-> IF k = Last + 1 THEN block ELSE Line[k]]
<1> DEFINE z == [k \in 0..Last + 1 |-> IF k = Last + 1 THEN block ELSE Line[k]]
<1>0. /\ tail \in Slots /\ head \in Slots /\ buffer \in Rings /\ current \in Nat /\ N \in Nat /\ N >= 3
      /\ Count \in 0..N - 2 /\ head = Ahead(tail, Count) /\ Last \in Nat /\ Count = Last + 1
  BY RingSize, Counting DEF Typed, Last
<1>1. b \in Rings /\ b[head] = block /\ \A i \in Slots : i # head => b[i] = buffer[i]
  BY <1>0 DEF Rings
<1>2. head # tail
  BY DEF Empty
<1>3. ASSUME NEW k \in 0..Last + 1
      PROVE  Ahead(tail, k) \in Slots /\ Steps(tail, Ahead(tail, k)) = k
  <2>1. k \in 0..N - 1 /\ k \in 0..N
    BY <1>0
  <2> QED
    BY <1>0, <2>1, AheadIs, StepsAhead
<1>4. /\ \A i \in Slots : i # tail => Updated(b)[i] = b[i]
      /\ Updated(b)[tail] = IF loaded THEN [b[tail] EXCEPT !.entry = current] ELSE b[tail]
  <2>1. Updated(b) = Taken(b, tail, loaded, current)
    BY DEF Updated, Taken
  <2>2. b \in Rings
    BY <1>1
  <2>3. /\ \A i \in Slots : i # tail => Taken(b, tail, loaded, current)[i] = b[i]
        /\ Taken(b, tail, loaded, current)[tail] = IF loaded THEN [b[tail] EXCEPT !.entry = current] ELSE b[tail]
    BY ONLY <1>0, <2>2, TakenIs
  <2> QED
    BY <2>1, <2>3
<1>5. /\ \A i \in Slots : i # tail => Updated(buffer)[i] = buffer[i]
      /\ Updated(buffer)[tail] = IF loaded THEN [buffer[tail] EXCEPT !.entry = current] ELSE buffer[tail]
  <2>1. Updated(buffer) = Taken(buffer, tail, loaded, current)
    BY DEF Updated, Taken
  <2> QED
    BY <1>0, <2>1, TakenIs
<1>6. ASSUME NEW k \in 0..Last + 1 PROVE Updated(b)[Ahead(tail, k)] = z[k]
  <2>1. CASE k = Last + 1
    <3>1. Ahead(tail, k) = head
      BY <1>0, <2>1
    <3> QED
      BY <1>0, <1>1, <1>2, <1>4, <2>1, <3>1
  <2>2. CASE k # Last + 1
    <3>1. k \in 0..Last /\ Last + 1 \in 0..Last + 1
      BY <1>0, <2>2
    <3>2. Ahead(tail, k) # head /\ Ahead(tail, k) \in Slots
      BY <1>0, <1>3, <2>2, <3>1
    <3>3. Updated(b)[Ahead(tail, k)] = Updated(buffer)[Ahead(tail, k)]
      BY <1>0, <1>1, <1>2, <1>4, <1>5, <3>2
    <3>4. Line[k] = Updated(buffer)[Ahead(tail, k)]
      BY <3>1 DEF Line, LineOf
    <3> QED
      BY <2>2, <3>3, <3>4
  <2> QED
    BY <2>1, <2>2
<1> QED
  BY <1>1, <1>6 DEF LineOf

ExitRead == ExitSpeed = Leave(Entries(Line, Last), Last, 0)

LEMMA ExitIs == Typed /\ ~Empty => ExitRead
  BY Blocked DEF ExitRead

LEMMA PlanLineKeeps == PlanInv /\ PlanLine => PlanInv'
<1> SUFFICES ASSUME PlanInv, PlanLine PROVE PlanInv'
  OBVIOUS
<1>0. /\ Typed /\ Stepper /\ TypeOK /\ (~Empty => Planned) /\ (~slowed => ~decel_override) /\ override \in Nat
      /\ previous_nominal \in Nat /\ buffer \in Rings /\ tail \in Slots /\ head \in Slots /\ ExitAgrees
      /\ current \in Nat /\ N \in Nat /\ N >= 3
  BY Types, RingSize DEF PlanInv, Typed
<1>1. PICK length \in Lengths, junction \in Junctions, rate \in Rates :
        LET new == [NoBlock EXCEPT !.length = length, !.rate = rate,
                                   !.junction = IF Empty THEN 0 ELSE junction]
            nominal == Nominal(new, override)
            block == [new EXCEPT !.max_entry = MaxEntry(new, nominal, previous_nominal)]
        IN /\ previous_nominal' = nominal
           /\ Recalculate([buffer EXCEPT ![head] = block], next_head, planned)
  BY DEF PlanLine
<1>2. /\ ~Full /\ hold # "complete" /\ head' = next_head /\ next_head' = After(next_head)
      /\ UNCHANGED <<tail, override, hold, ended, slowed>>
  BY DEF PlanLine
<1> DEFINE corner == IF Empty THEN 0 ELSE junction
           new == [NoBlock EXCEPT !.length = length, !.rate = rate, !.junction = corner]
           m == MaxEntry(new, Nominal(new, override), previous_nominal)
           block == [new EXCEPT !.max_entry = m]
           b == [buffer EXCEPT ![head] = block]
<1>3. length \in Nat /\ length > 0 /\ corner \in Nat /\ rate \in Nat
  BY PlannerAssumption DEF PlannerAssumption
<1>4. previous_nominal' = Nominal(new, override) /\ Recalculate(b, next_head, planned)
  BY <1>1
<1> HIDE DEF corner
<1>5. new \in Blocks /\ new.length = length /\ new.rate = rate /\ new.junction = corner /\ new.entry = 0
  <2> DEFINE a == NoBlock
  <2>1. a \in Blocks /\ a.entry = 0
    BY DEF NoBlock, Blocks
  <2>2. new = [a EXCEPT !.length = length, !.rate = rate, !.junction = corner]
    OBVIOUS
  <2> HIDE DEF a, new
  <2> QED
    BY <1>3, <2>1, <2>2 DEF Blocks
<1> HIDE DEF new
<1>6. Nominal(new, override) \in Nat /\ m \in Nat
  <2>1. Nominal(new, override) \in Nat
    BY <1>0, <1>3, <1>5 DEF Nominal
  <2> QED
    BY <1>0, <1>5, <2>1, MaxEntryIs
<1>7. m = MaxEntry(new, Nominal(new, override), previous_nominal)
  OBVIOUS
<1>8. Empty => m = 0
  <2> DEFINE u == Least(Nominal(new, override), previous_nominal)
  <2>1. u \in Nat
    BY <1>0, <1>6, LeastIs
  <2> HIDE DEF u
  <2>2. u * u \in Nat
    BY <2>1, Squares
  <2> DEFINE v == u * u
  <2>3. v \in Nat
    BY <2>2
  <2> HIDE DEF v
  <2>4. Least(v, 0) = 0
    BY <2>3 DEF Least
  <2>5. m = Least(v, corner)
    BY <1>5 DEF MaxEntry, u, v
  <2> QED
    BY <2>4, <2>5 DEF corner
<1> HIDE DEF m
<1>9. /\ block \in Blocks /\ block.entry = 0 /\ block.length > 0 /\ block.max_entry = m
      /\ Nominal(block, override) = Nominal(new, override)
      /\ m = MaxEntry(block, Nominal(block, override), previous_nominal)
  <2>1. /\ block \in Blocks /\ block.entry = new.entry /\ block.length = new.length /\ block.max_entry = m
        /\ block.rate = new.rate /\ block.junction = new.junction
    BY <1>5, <1>6 DEF Blocks
  <2>2. Nominal(block, override) = Nominal(new, override)
    BY <2>1 DEF Nominal
  <2>3. MaxEntry(new, Nominal(new, override), previous_nominal) =
        MaxEntry(block, Nominal(new, override), previous_nominal)
    BY <2>1 DEF MaxEntry
  <2> QED
    BY <1>3, <1>5, <1>7, <2>1, <2>2, <2>3
<1> HIDE DEF block
<1>10. b \in Rings /\ b[head] = block
  BY <1>0, <1>9 DEF Rings
<1>11. /\ Count' = Count + 1 /\ Last' = Count /\ ~Empty' /\ Count \in 0..N - 2
       /\ next_head \in Slots /\ After(next_head) \in Slots
  BY <1>0, <1>2, HeadMoves
<1>12. previous_nominal' = Nominal(block, override) /\ previous_nominal' \in Nat
  BY <1>4, <1>6, <1>9
<1>13. CASE Empty
  <2>1. buffer' \in Rings /\ buffer'[head] = b[head] /\ planned' = head /\ UNCHANGED prepVars
    <3>1. b[head].max_entry = 0 /\ b[head].entry = 0
      BY <1>8, <1>9, <1>10, <1>13
    <3> HIDE DEF b
    <3> QED
      BY <1>0, <1>4, <1>10, <1>13, <3>1, FirstPlanned
  <2>2. ~loaded /\ ~recalculate /\ ~ended /\ head = tail /\ Count = 0
    BY <1>0, <1>13, Counting DEF Typed, Stepper, Empty
  <2>3. Last' = 0 /\ Pointer' = 0
    <3>1. Steps(tail, tail) = 0
      BY <1>0, StepsIs DEF Slots
    <3> QED
      BY <1>2, <1>11, <2>1, <2>2, <3>1 DEF Pointer
  <2>4. Line' = [k \in 0..0 |-> block]
    <3>1. Updated(buffer)' = buffer'
      BY <2>1, <2>2 DEF Updated, prepVars
    <3>2. \A k \in 0..0 : Ahead(tail, k) = tail
      BY <1>0, AheadZero
    <3>3. Line' = [k \in 0..0 |-> buffer'[Ahead(tail, k)]]
      BY <1>2, <2>3, <3>1 DEF Line, LineOf
    <3> QED
      BY <1>10, <2>1, <2>2, <3>2, <3>3
  <2>5. Planned'
    <3>1. LineInv(Line', 0, 0, Nominal(block, override), override, slowed', hold')
      BY <1>0, <1>9, <2>4, FirstLine
    <3>2. LineInv(Line', Last', Pointer', previous_nominal', override', slowed', hold')
      BY <1>2, <1>12, <2>3, <3>1
    <3> QED
      BY <3>2 DEF Planned
  <2>6. TypeOK'
    BY <1>0, <1>2, <1>11, <1>12, <2>1, <2>2 DEF TypeOK, prepVars, Rings, Blocks
  <2>7. Stepper'
    BY <1>0, <1>2, <2>1, <2>2 DEF Stepper, prepVars
  <2>8. ExitAgrees'
    BY <2>1, <2>2 DEF ExitAgrees, prepVars
  <2>9. (~slowed => ~decel_override)'
    BY <1>0, <1>2, <2>1 DEF prepVars
  <2> QED
    BY <2>5, <2>6, <2>7, <2>8, <2>9 DEF PlanInv
<1>14. CASE ~Empty
  <2> DEFINE c == Last + 1
             P == Pointer
             y == LineOf(Updated(b), tail, c)
             z == LineOf(Taken(buffer', tail, loaded', current'), tail, c)
  <2>1. /\ Last \in Nat /\ c = Count /\ Pointer \in 0..Last /\ planned = Ahead(tail, Pointer)
        /\ LineInv(Line, Last, Pointer, previous_nominal, override, slowed, hold)
        /\ Before(next_head) = Ahead(tail, c) /\ c \in 0..N - 1 /\ c # 0
    <3>1. Last \in Nat /\ c = Count /\ c # 0 /\ planned = Ahead(tail, Pointer) /\ Before(next_head) = head
          /\ head = Ahead(tail, Count)
      BY <1>0, <1>11, <1>14, Counting DEF Last
    <3>2. LineInv(Line, Last, Pointer, previous_nominal, override, slowed, hold)
      BY <1>0, <1>14 DEF Planned
    <3>3. Pointer \in 0..Last
      BY <3>2 DEF LineInv
    <3> QED
      BY <1>0, <1>11, <3>1, <3>2, <3>3
  <2>2. y = [k \in 0..Last + 1 |-> IF k = Last + 1 THEN block ELSE Line[k]]
    BY <1>0, <1>2, <1>9, <1>14, LineWith
  <2>3. \A k \in 0..Last : y[k] = Line[k]
    <3>1. \A k \in 0..Last : k \in 0..Last + 1 /\ k # Last + 1
      BY <2>1
    <3> QED
      BY <2>2, <3>1
  <2> HIDE DEF y
  <2>4. Ready(y, c, P, Nominal(block, override), override, slowed, hold)
    BY <1>0, <1>9, <2>1, <2>2, LineExtended
  <2>5. Replans(LineOf(Updated(b), tail, c), c, P)
    <3>1. P \in 0..c
      BY <2>1
    <3>2. Recalculate(b, next_head, Ahead(tail, P))
      BY <1>4, <2>1
    <3> HIDE DEF b, c, P
    <3> QED
      BY <1>0, <1>10, <1>11, <2>1, <3>1, <3>2, RecalculateStep
  <2>6. /\ buffer' \in Rings
        /\ IF P = 0 THEN loaded' = FALSE /\ recalculate' = (recalculate \/ loaded)
           ELSE UNCHANGED <<loaded, recalculate>>
        /\ UNCHANGED <<decel_override, current, exit, complete>>
    BY <2>1, <2>5 DEF Replans
  <2>7. PICK Q \in P..c : planned' = Ahead(tail, Q) /\ Replan(y, z, c, P, Q)
    BY <2>5 DEF y, Replans
  <2>8. Line' = z
    <3>1. Updated(buffer)' = Taken(buffer', tail, loaded', current') /\ Last' = c
      BY <1>2, <1>11, <2>1 DEF Updated, Taken
    <3> QED
      BY <1>2, <3>1 DEF Line, LineOf
  <2>9. Pointer' = Q /\ planned' \in Slots /\ Last' = c
    <3>1. Q \in 0..N - 1 /\ Q \in 0..N
      BY <1>0, <2>1
    <3>2. Ahead(tail, Q) \in Slots /\ Steps(tail, Ahead(tail, Q)) = Q
      BY <1>0, <3>1, AheadIs, StepsAhead
    <3> QED
      BY <1>2, <1>11, <2>1, <2>7, <3>2 DEF Pointer
  <2> HIDE DEF z
  <2>10. Planned'
    <3>1. c \in Nat
      BY <2>1
    <3>2. LineInv(z, c, Q, Nominal(block, override), override, slowed, hold)
      <4> HIDE DEF c, P
      <4> QED
        BY <2>4, <2>7, <3>1, LinePlanned
    <3>3. LineInv(Line', Last', Pointer', previous_nominal', override', slowed', hold')
      BY <1>2, <1>12, <2>8, <2>9, <3>2
    <3> QED
      BY <3>3 DEF Planned
  <2>11. \A k \in 0..P : Line'[k] = Line[k]
    <3>1. \A k \in 0..P : z[k] = y[k]
      BY <2>7 DEF Replan
    <3>2. \A k \in 0..P : k \in 0..Last
      BY <2>1
    <3> QED
      BY <2>3, <2>8, <3>1, <3>2
  <2>12. Line'[0] = Line[0]
    <3>1. 0 \in 0..P
      BY <2>1
    <3> QED
      BY <2>11, <3>1
  <2>13. TypeOK'
    BY <1>0, <1>2, <1>11, <1>12, <2>6, <2>9 DEF TypeOK, Rings, Blocks
  <2>14. Stepper'
    <3>1. ASSUME recalculate' PROVE ~Empty' /\ Line'[0].entry = current'
      <4>1. recalculate \/ loaded
        BY <2>6, <3>1
      <4>2. Line[0].entry = current
        BY <1>0, <1>14, <4>1, Entered
      <4> QED
        BY <1>11, <2>6, <2>12, <4>2
    <3>2. loaded' => loaded
      BY <2>6
    <3>3. Decelerating' = Decelerating
      BY <1>2 DEF Decelerating
    <3>4. loaded' => /\ complete' <= Line'[0].length /\ hold' # "complete"
                     /\ complete' > 0 => exit' = 0 /\ Decelerating'
                     /\ Decelerating' => current' = exit' + Line'[0].length - complete'
      BY <1>0, <1>2, <2>6, <2>12, <3>2, <3>3 DEF Stepper
    <3>5. ended' => hold' # "no" /\ ~Empty' /\ Line'[0].entry = 0
      BY <1>0, <1>2, <1>11, <2>12 DEF Stepper
    <3>6. hold' = "complete" => ended' \/ Empty'
      BY <1>2
    <3> QED
      BY <3>1, <3>4, <3>5, <3>6 DEF Stepper
  <2>15. ExitAgrees'
    <3>1. SUFFICES ASSUME loaded', hold' = "no", ~decel_override' PROVE exit' = ExitSpeed'
      BY DEF ExitAgrees
    <3>2. P # 0 /\ loaded /\ hold = "no" /\ ~decel_override
      BY <1>2, <2>6, <3>1
    <3>3. exit = ExitSpeed
      BY <1>0, <3>2 DEF ExitAgrees
    <3>4. ExitSpeed = Leave(Entries(Line, Last), Last, 0)
      BY <1>0, <1>14, ExitIs DEF ExitRead
    <3>5. (Typed /\ ~Empty => ExitRead)'
      BY ExitIs, PTL
    <3>6. ExitSpeed' = Leave(Entries(Line', Last'), Last', 0)
      <4>1. (TypeOK => Typed)'
        BY Types, PTL
      <4>2. ExitRead'
        BY <1>11, <2>13, <3>5, <4>1
      <4> QED
        BY <4>2 DEF ExitRead
    <3>7. 1 \in 0..P /\ 1 \in 0..Last /\ 1 \in 0..Last' /\ Last # 0 /\ Last' # 0
      BY <2>1, <2>9, <3>2
    <3>8. Line'[1] = Line[1]
      BY <2>11, <3>7
    <3>9. Leave(Entries(Line, Last), Last, 0) = Line[1].entry
      BY <3>7 DEF Leave, Entries
    <3>10. Leave(Entries(Line', Last'), Last', 0) = Line'[1].entry
      BY <3>7 DEF Leave, Entries
    <3> QED
      BY <2>6, <3>3, <3>4, <3>6, <3>8, <3>9, <3>10
  <2>16. (~slowed => ~decel_override)'
    BY <1>0, <1>2, <2>6
  <2> QED
    BY <2>10, <2>13, <2>14, <2>15, <2>16 DEF PlanInv
<1> QED
  BY <1>13, <1>14

\* The slot behind the tail.
LEMMA NextSlot ==
  ASSUME Typed, ~Empty
  PROVE  /\ After(tail) \in Slots /\ After(tail) # tail /\ After(tail) = Ahead(tail, 1)
         /\ (After(tail) = head <=> Last = 0) /\ Last \in Nat /\ 0 \in 0..Last /\ Ahead(tail, 0) = tail
<1>0. tail \in Slots /\ head \in Slots /\ N \in Nat /\ N >= 3 /\ Last \in 0..N - 2
      /\ head = Ahead(tail, Count) /\ Count = Last + 1 /\ Count \in 0..N - 1
  BY RingSize, Counting DEF Typed, Last
<1>1. After(tail) \in Slots /\ After(tail) = Ahead(tail, 1) /\ After(tail) # tail
  BY <1>0, AfterIs DEF After, Slots
<1>2. 1 \in 0..N - 1 /\ Count \in 0..N - 1
  BY <1>0
<1>3. Steps(tail, Ahead(tail, 1)) = 1 /\ Steps(tail, Ahead(tail, Count)) = Count
  BY <1>0, <1>2, StepsAhead
<1>4. After(tail) = head <=> Last = 0
  BY <1>0, <1>1, <1>3
<1> QED
  BY <1>0, <1>1, <1>4, AheadZero

\* A step that only changes how much is left of the block at the tail and how fast it is entered.
LEMMA TailChanged ==
  ASSUME Typed, ~Empty, Planned, NEW rest \in Nat, 0 < rest, rest <= Line[0].length,
         \/ buffer' = [buffer EXCEPT ![tail].length = rest]
         \/ rest = buffer[tail].length /\ \E v \in Nat : buffer' = [buffer EXCEPT ![tail].entry = v],
         loaded', current' \in Nat,
         UNCHANGED <<head, tail, planned, previous_nominal, override, hold, slowed>>,
         ~slowed /\ hold # "decelerating" => current' = CutSpeed(Line, Last, override, rest)
  PROVE  Planned' /\ buffer' \in Rings /\ Line'[0].entry = current' /\ Line'[0].length = rest
         /\ ~Empty' /\ ExitSpeed' = ExitSpeed
<1> DEFINE y == [k \in 0..Last |-> IF k = 0 THEN [Line[0] EXCEPT !.length = rest, !.entry = current'] ELSE Line[k]]
           a == buffer[tail]
           a2 == buffer'[tail]
<1>0. tail \in Slots /\ head \in Slots /\ buffer \in Rings /\ current \in Nat /\ override \in Nat /\ Last \in Nat
      /\ 0 \in 0..Last /\ Ahead(tail, 0) = tail
  BY NextSlot DEF Typed
<1>1. a \in Blocks
  BY <1>0 DEF Rings
<1>2. /\ buffer' \in Rings /\ a2 \in Blocks /\ \A i \in Slots : i # tail => buffer'[i] = buffer[i]
      /\ a2.length = rest /\ [a2 EXCEPT !.entry = current'] = [a EXCEPT !.length = rest, !.entry = current']
  <2>1. CASE buffer' = [buffer EXCEPT ![tail].length = rest]
    <3>1. buffer' = [buffer EXCEPT ![tail] = [a EXCEPT !.length = rest]]
      BY <2>1
    <3>2. a2 = [a EXCEPT !.length = rest]
      BY <1>0, <3>1 DEF Rings
    <3> HIDE DEF a, a2
    <3>3. /\ [a EXCEPT !.length = rest] \in Blocks /\ [a EXCEPT !.length = rest].length = rest
          /\ [[a EXCEPT !.length = rest] EXCEPT !.entry = current'] = [a EXCEPT !.length = rest, !.entry = current']
      BY <1>1 DEF Blocks
    <3> QED
      BY <1>0, <3>1, <3>2, <3>3 DEF Rings
  <2>2. CASE rest = buffer[tail].length /\ \E v \in Nat : buffer' = [buffer EXCEPT ![tail].entry = v]
    <3>0. PICK v \in Nat : buffer' = [buffer EXCEPT ![tail].entry = v]
      BY <2>2
    <3>1. buffer' = [buffer EXCEPT ![tail] = [a EXCEPT !.entry = v]]
      BY <3>0
    <3>2. a2 = [a EXCEPT !.entry = v] /\ a.length = rest
      BY <1>0, <2>2, <3>1 DEF Rings
    <3> HIDE DEF a, a2
    <3>3. /\ [a EXCEPT !.entry = v] \in Blocks /\ [a EXCEPT !.entry = v].length = rest
          /\ [[a EXCEPT !.entry = v] EXCEPT !.entry = current'] = [a EXCEPT !.length = rest, !.entry = current']
      BY <1>1, <3>2 DEF Blocks
    <3> QED
      BY <1>0, <3>1, <3>2, <3>3 DEF Rings
  <2> QED
    BY <2>1, <2>2
<1>3. Line[0] = IF loaded THEN [a EXCEPT !.entry = current] ELSE a
  BY Blocked
<1>4. [Line[0] EXCEPT !.length = rest, !.entry = current'] = [a EXCEPT !.length = rest, !.entry = current']
  <2> DEFINE l == Line[0]
  <2>1. l = a \/ l = [a EXCEPT !.entry = current]
    BY <1>3
  <2> HIDE DEF l, a
  <2>2. [l EXCEPT !.length = rest, !.entry = current'] = [a EXCEPT !.length = rest, !.entry = current']
    BY <1>0, <1>1, <2>1 DEF Blocks
  <2> QED
    BY <2>2 DEF l
<1>5. Last' = Last /\ Pointer' = Pointer /\ ~Empty'
  BY DEF Last, Count, Pointer, Empty
<1>6. Line' = y
  <2>1. Updated(buffer)' = Taken(buffer', tail, loaded', current')
    BY DEF Updated, Taken
  <2>2. /\ \A i \in Slots : i # tail => Taken(buffer', tail, loaded', current')[i] = buffer'[i]
        /\ Taken(buffer', tail, loaded', current')[tail] = [a2 EXCEPT !.entry = current']
    <3> DEFINE b2 == buffer'
               v == current'
               l == loaded'
    <3>1. b2 \in Rings /\ v \in Nat /\ tail \in Slots
      BY <1>0, <1>2
    <3> HIDE DEF b2, v, l
    <3>2. /\ \A i \in Slots : i # tail => Taken(b2, tail, l, v)[i] = b2[i]
          /\ Taken(b2, tail, l, v)[tail] = IF l THEN [b2[tail] EXCEPT !.entry = v] ELSE b2[tail]
      BY ONLY <3>1, TakenIs
    <3>3. l
      BY DEF l
    <3>4. Taken(b2, tail, l, v)[tail] = [b2[tail] EXCEPT !.entry = v]
      BY <3>2, <3>3
    <3> QED
      BY <3>2, <3>4 DEF b2, v, l
  <2>3. Line' = [k \in 0..Last |-> Taken(buffer', tail, loaded', current')[Ahead(tail, k)]]
    BY <1>5, <2>1 DEF Line, LineOf
  <2>4. ASSUME NEW k \in 0..Last PROVE Taken(buffer', tail, loaded', current')[Ahead(tail, k)] = y[k]
    <3>1. CASE k = 0
      BY <1>0, <1>2, <1>4, <2>2, <3>1
    <3>2. CASE k # 0
      <4>1. Ahead(tail, k) \in Slots /\ Ahead(tail, k) # tail /\ Line[k] = buffer[Ahead(tail, k)]
        BY <3>2, Blocked
      <4> QED
        BY <1>2, <2>2, <3>2, <4>1
    <3> QED
      BY <3>1, <3>2
  <2> QED
    BY <2>3, <2>4
<1>7. LineInv(y, Last, Pointer, previous_nominal, override, slowed, hold)
  <2>1. LineInv(Line, Last, Pointer, previous_nominal, override, slowed, hold)
    BY DEF Planned
  <2> QED
    BY <1>0, <2>1, LineCut
<1>8. Planned'
  <2>1. LineInv(Line', Last', Pointer', previous_nominal', override', slowed', hold')
    BY <1>5, <1>6, <1>7
  <2> QED
    BY <2>1 DEF Planned
<1>9. Line'[0].entry = current' /\ Line'[0].length = rest
  <2> HIDE DEF a
  <2>1. Line'[0] = [a EXCEPT !.length = rest, !.entry = current']
    BY <1>0, <1>4, <1>6
  <2>2. [a EXCEPT !.length = rest, !.entry = current'].entry = current'
        /\ [a EXCEPT !.length = rest, !.entry = current'].length = rest
    BY <1>1 DEF Blocks
  <2> QED
    BY <2>1, <2>2
<1>10. ExitSpeed' = ExitSpeed
  <2>1. After(tail) \in Slots /\ After(tail) # tail /\ After(tail)' = After(tail)
    BY NextSlot DEF After
  <2> QED
    BY <1>2, <2>1 DEF ExitSpeed
<1> QED
  BY <1>2, <1>5, <1>8, <1>9, <1>10

LEMMA ExitNat == Typed => ExitSpeed \in Nat
<1> SUFFICES ASSUME Typed PROVE ExitSpeed \in Nat
  OBVIOUS
<1>1. tail \in Slots /\ buffer \in Rings /\ N \in Nat /\ N >= 3
  BY RingSize DEF Typed
<1>2. After(tail) \in Slots
  BY <1>1 DEF After, Slots
<1>3. buffer[After(tail)] \in Blocks
  BY <1>1, <1>2 DEF Rings
<1>4. buffer[After(tail)].entry \in Nat
  BY <1>3 DEF Blocks
<1> QED
  BY <1>4 DEF ExitSpeed

LEMMA NominalNat == Typed => NominalSqr \in Nat
<1> SUFFICES ASSUME Typed PROVE NominalSqr \in Nat
  OBVIOUS
<1>1. buffer[tail] \in Blocks /\ override \in Nat
  BY DEF Typed, Rings
<1>2. buffer[tail].rate \in Nat
  BY <1>1 DEF Blocks
<1>3. Nominal(Block, override) \in Nat
  BY <1>1, <1>2 DEF Nominal, Block
<1> QED
  BY <1>3, Squares DEF NominalSqr

LEMMA LoadKeeps == PlanInv /\ Load => PlanInv'
<1> SUFFICES ASSUME PlanInv, Load PROVE PlanInv'
  OBVIOUS
<1> DEFINE L == Block.length
           entry == IF ~recalculate /\ (hold = "decelerating" \/ decel_override) THEN exit ELSE Block.entry
<1>0. /\ Typed /\ Stepper /\ TypeOK /\ ~Empty /\ Planned /\ (~slowed => ~decel_override)
      /\ ~loaded /\ ~ended
  BY Types DEF PlanInv, Load
<1>1. /\ buffer' = [buffer EXCEPT ![tail].entry = entry]
      /\ current' = (IF recalculate THEN current ELSE entry)
      /\ exit' = Profile(entry).exit /\ complete' = Profile(entry).complete
      /\ decel_override' = Profile(entry).decel
      /\ loaded' /\ ~recalculate' /\ recalculate' \in BOOLEAN /\ loaded' \in BOOLEAN
      /\ UNCHANGED <<head, next_head, tail, planned, previous_nominal, override, hold, ended, lines, requests, slowed>>
  BY DEF Load
<1>2. Block \in Blocks /\ buffer \in Rings /\ tail \in Slots /\ exit \in Nat /\ override \in Nat
  BY <1>0 DEF Typed, Rings, Block
<1>3. L \in Nat /\ Block.entry \in Nat /\ entry \in Nat
  BY <1>2 DEF Blocks
<1>4. Line[0] = Block
  BY <1>0, Blocked DEF Block
<1>5. L > 0
  <2>1. 0 \in 0..Last
    BY <1>0, NextSlot
  <2>2. Line[0].length > 0
    BY <1>0, <2>1 DEF Planned, LineInv
  <2> QED
    BY <1>4, <2>2
<1>6. current' = entry /\ current' \in Nat
  <2>1. CASE recalculate
    BY <1>0, <1>1, <1>3, <1>4, <2>1 DEF Stepper
  <2>2. CASE ~recalculate
    BY <1>1, <1>3, <2>2
  <2> QED
    BY <2>1, <2>2
<1>7. hold # "complete"
  BY <1>0 DEF Stepper
<1>8. ExitSpeed \in Nat /\ NominalSqr \in Nat
  BY <1>0, ExitNat, NominalNat
<1>9. NominalSqr = Nominal(Line[0], override) * Nominal(Line[0], override)
      /\ ExitSpeed = Leave(Entries(Line, Last), Last, 0)
  BY <1>0, Blocked
<1>10. ASSUME ~slowed, hold # "decelerating"
       PROVE  entry = Block.entry /\ entry <= NominalSqr /\ entry <= L + ExitSpeed
  <2>1. entry = Block.entry
    BY <1>0, <1>10
  <2>2. Opening(Line, Last) /\ NotTooFast(Line, override)
    BY <1>0, <1>10 DEF Planned, LineInv
  <2> QED
    BY <1>4, <1>9, <2>1, <2>2 DEF Opening, NotTooFast
<1> HIDE DEF entry
<1>11. ~slowed /\ hold # "decelerating" => current' = CutSpeed(Line, Last, override, L)
  <2>1. CutSpeed(Line, Last, override, L) = Least(Least(Block.entry + (L - L), NominalSqr), ExitSpeed + L)
    BY <1>4, <1>9 DEF CutSpeed
  <2> HIDE DEF L
  <2>2. ASSUME ~slowed, hold # "decelerating" PROVE current' = CutSpeed(Line, Last, override, L)
    BY <1>3, <1>6, <1>8, <1>10, <2>1, <2>2 DEF Least
  <2> QED
    BY <2>2
<1>12. Planned' /\ buffer' \in Rings /\ Line'[0].entry = current' /\ Line'[0].length = L
       /\ ~Empty' /\ ExitSpeed' = ExitSpeed
  <2>1. L \in Nat /\ 0 < L /\ L <= Line[0].length /\ L = buffer[tail].length
    BY <1>3, <1>4, <1>5 DEF Block
  <2>2. \E v \in Nat : buffer' = [buffer EXCEPT ![tail].entry = v]
    BY <1>1, <1>3
  <2>3. UNCHANGED <<head, tail, planned, previous_nominal, override, hold, slowed>>
    BY <1>1
  <2>4. loaded' /\ current' \in Nat
    BY <1>1, <1>6
  <2> HIDE DEF L
  <2> QED
    BY <1>0, <1>11, <2>1, <2>2, <2>3, <2>4, TailChanged
<1>13. CASE hold = "decelerating"
  <2>1. /\ exit' = (IF entry > L THEN entry - L ELSE 0)
        /\ complete' = (IF entry > L THEN 0 ELSE L - entry) /\ decel_override' = FALSE
    BY <1>1, <1>13 DEF Profile
  <2> HIDE DEF L
  <2>2. /\ exit' \in Nat /\ complete' \in Nat /\ complete' <= L /\ (complete' > 0 => exit' = 0)
        /\ current' = exit' + L - complete'
    BY <1>3, <1>6, <2>1
  <2>3. hold' = "decelerating" /\ Decelerating' /\ hold' # "no" /\ hold' # "complete"
    BY <1>1, <1>13 DEF Decelerating
  <2>4. Stepper'
    BY <1>0, <1>1, <1>12, <2>2, <2>3 DEF Stepper
  <2>5. TypeOK'
    BY <1>0, <1>1, <1>6, <1>12, <2>1, <2>2, <2>3 DEF TypeOK, Rings, Blocks, After
  <2> QED
    BY <1>12, <2>1, <2>3, <2>4, <2>5 DEF PlanInv, ExitAgrees
<1>14. CASE hold # "decelerating"
  <2>1. CASE entry > NominalSqr /\ entry - NominalSqr >= L
    <3>1. exit' = entry - L /\ complete' = 0 /\ decel_override' = TRUE
      BY <1>1, <1>14, <2>1 DEF Profile
    <3> HIDE DEF L
    <3>2. exit' \in Nat /\ complete' \in Nat
      BY <1>3, <1>8, <2>1, <3>1
    <3>3. slowed'
      BY <1>1, <1>3, <1>8, <1>10, <1>14, <2>1
    <3>4. hold' # "complete" /\ ~Decelerating'
      BY <1>1, <1>7, <1>14 DEF Decelerating
    <3>5. 0 <= L
      BY <1>3
    <3>6. Stepper'
      BY <1>0, <1>1, <1>12, <3>1, <3>4, <3>5 DEF Stepper
    <3>7. TypeOK'
      BY <1>0, <1>1, <1>6, <1>12, <3>1, <3>2 DEF TypeOK, Rings, Blocks, After
    <3> QED
      BY <1>12, <3>1, <3>3, <3>6, <3>7 DEF PlanInv, ExitAgrees
  <2>2. CASE ~(entry > NominalSqr /\ entry - NominalSqr >= L)
    <3>1. exit' = ExitSpeed /\ complete' = 0 /\ decel_override' = FALSE
      BY <1>1, <1>14, <2>2 DEF Profile
    <3> HIDE DEF L
    <3>2. exit' \in Nat /\ complete' \in Nat
      BY <1>8, <3>1
    <3>4. hold' # "complete" /\ ~Decelerating'
      BY <1>1, <1>7, <1>14 DEF Decelerating
    <3>5. 0 <= L
      BY <1>3
    <3>6. Stepper'
      BY <1>0, <1>1, <1>12, <3>1, <3>4, <3>5 DEF Stepper
    <3>7. TypeOK'
      BY <1>0, <1>1, <1>6, <1>12, <3>1, <3>2 DEF TypeOK, Rings, Blocks, After
    <3> QED
      BY <1>12, <3>1, <3>6, <3>7 DEF PlanInv, ExitAgrees
  <2> QED
    BY <2>1, <2>2
<1> QED
  BY <1>13, <1>14

\* A finished block is discarded, and the line begins with the next one.
LEMMA HeadDiscarded ==
  ASSUME Typed, ~Empty, Planned, Last # 0, buffer' = [buffer EXCEPT ![tail].length = 0], ~loaded',
         tail' = After(tail), planned' = IF planned = tail THEN After(tail) ELSE planned,
         UNCHANGED <<head, previous_nominal, override, hold, slowed>>
  PROVE  Planned'
<1>0. /\ tail \in Slots /\ head \in Slots /\ buffer \in Rings /\ N \in Nat /\ N >= 3 /\ override \in Nat
      /\ Last \in 0..N - 2 /\ Last >= 1 /\ Count = Last + 1 /\ head = Ahead(tail, Count)
      /\ Pointer \in 0..N - 1 /\ planned = Ahead(tail, Pointer)
  BY RingSize, Counting DEF Typed, Last
<1>1. tail' \in Slots /\ tail' = Ahead(tail, 1) /\ tail' # tail /\ Ahead(tail, 0) = tail
  BY NextSlot
<1>2. ASSUME NEW k \in 0..N - 2
      PROVE  Ahead(tail', k) = Ahead(tail, k + 1) /\ Steps(tail', Ahead(tail, k + 1)) = k
  <2>1. 1 \in 0..N - 1 /\ k \in 0..N - 1 /\ 1 + k = k + 1 /\ 1 + k <= N
    BY <1>0
  <2>2. Ahead(Ahead(tail, 1), k) = Ahead(tail, 1 + k)
    BY <1>0, <2>1, AheadAhead
  <2>3. Steps(tail', Ahead(tail', k)) = k
    BY <1>1, <2>1, StepsAhead
  <2> QED
    BY <1>1, <2>1, <2>2, <2>3
<1>3. Last' = Last - 1 /\ ~Empty'
  <2>1. Last \in 0..N - 2
    BY <1>0
  <2>2. Count' = Last
    BY <1>0, <1>2, <2>1 DEF Count
  <2>3. Last' = Last - 1
    BY <2>2 DEF Last
  <2>4. tail' # head
    BY NextSlot
  <2> QED
    BY <2>3, <2>4 DEF Empty
<1>4. Pointer \in 0..Last
  BY DEF Planned, LineInv
<1>5. Pointer' = IF Pointer = 0 THEN 0 ELSE Pointer - 1
  <2>1. CASE Pointer = 0
    <3>1. planned' = tail'
      BY <1>0, <1>1, <2>1
    <3>2. Ahead(tail', 0) = tail' /\ 0 \in 0..N - 1
      BY <1>0, <1>1, AheadZero
    <3>3. Steps(tail', tail') = 0
      BY <1>1, <3>2, StepsAhead
    <3> QED
      BY <2>1, <3>1, <3>3 DEF Pointer
  <2>2. CASE Pointer # 0
    <3>1. Steps(tail, tail) = 0
      <4>1. 0 \in 0..N - 1
        BY <1>0
      <4> QED
        BY <1>0, <1>1, <4>1, StepsAhead
    <3>2. planned # tail /\ planned' = planned
      BY <2>2, <3>1 DEF Pointer
    <3>3. Pointer - 1 \in 0..N - 2 /\ Pointer - 1 + 1 = Pointer
      BY <1>0, <1>4, <2>2
    <3>4. Steps(tail', Ahead(tail, Pointer - 1 + 1)) = Pointer - 1
      BY <1>2, <3>3
    <3>5. Steps(tail', planned') = Pointer - 1
      BY <1>0, <3>2, <3>3, <3>4
    <3> QED
      BY <2>2, <3>5 DEF Pointer
  <2> QED
    BY <2>1, <2>2
<1>6. Line' = [k \in 0..Last - 1 |-> Line[k + 1]]
  <2>1. Updated(buffer)' = buffer'
    BY DEF Updated
  <2>2. Line' = [k \in 0..Last - 1 |-> buffer'[Ahead(tail', k)]]
    BY <1>3, <2>1 DEF Line, LineOf
  <2>3. ASSUME NEW k \in 0..Last - 1 PROVE buffer'[Ahead(tail', k)] = Line[k + 1]
    <3>1. k \in 0..N - 2 /\ k + 1 \in 0..Last /\ k + 1 # 0
      BY <1>0
    <3>2. Ahead(tail', k) = Ahead(tail, k + 1)
      BY <1>2, <3>1
    <3>3. Ahead(tail, k + 1) \in Slots /\ Ahead(tail, k + 1) # tail /\ Line[k + 1] = buffer[Ahead(tail, k + 1)]
      BY <3>1, Blocked
    <3>4. buffer'[Ahead(tail, k + 1)] = buffer[Ahead(tail, k + 1)]
      BY <1>0, <3>3 DEF Rings
    <3> QED
      BY <3>2, <3>3, <3>4
  <2> QED
    BY <2>2, <2>3
<1>7. LineInv(Line', Last - 1, Pointer', previous_nominal, override, slowed, hold)
  <2>1. LineInv(Line, Last, Pointer, previous_nominal, override, slowed, hold)
    BY DEF Planned
  <2>2. Last \in Nat
    BY <1>0
  <2>3. LineInv(Line', Last - 1, IF Pointer = 0 THEN 0 ELSE Pointer - 1, previous_nominal, override, slowed, hold)
    BY <1>0, <1>6, <2>1, <2>2, LineShortened
  <2> QED
    BY <1>5, <2>3
<1> QED
  <2>1. LineInv(Line', Last', Pointer', previous_nominal', override', slowed', hold')
    BY <1>3, <1>7
  <2> QED
    BY <2>1 DEF Planned

LEMMA CutKeeps == PlanInv /\ Cut => PlanInv'
<1> SUFFICES ASSUME PlanInv, Cut PROVE PlanInv'
  OBVIOUS
<1> DEFINE L == Block.length
           M == NominalSqr
<1>0. /\ Typed /\ Stepper /\ TypeOK /\ ~Empty /\ Planned /\ (~slowed => ~decel_override)
      /\ loaded /\ ~ended /\ ~recalculate /\ ExitAgrees
  BY Types DEF PlanInv, Cut, TypeOK
<1>1. PICK rest \in complete .. L :
        /\ rest < L \/ rest = complete
        /\ current' = SpeedAt(rest)
        /\ buffer' = [buffer EXCEPT ![tail].length = rest]
        /\ ended' = (rest = complete /\ rest > 0)
        /\ IF rest = 0
           THEN /\ loaded' = FALSE /\ tail' = After(tail)
                /\ planned' = (IF planned = tail THEN After(tail) ELSE planned)
           ELSE UNCHANGED <<loaded, tail, planned>>
  BY DEF Cut
<1>2. UNCHANGED <<head, next_head, previous_nominal, override, recalculate, decel_override, exit,
                  complete, hold, lines, requests, slowed>>
  BY DEF Cut
<1>3. /\ Block \in Blocks /\ buffer \in Rings /\ tail \in Slots /\ exit \in Nat /\ override \in Nat
      /\ current \in Nat /\ complete \in Nat /\ M \in Nat /\ ExitSpeed \in Nat
  BY <1>0, ExitNat, NominalNat DEF Typed, Rings, Block
<1>4. L \in Nat
  BY <1>3 DEF Blocks
<1>5. Line[0].length = L /\ Line[0].entry = current
      /\ M = Nominal(Line[0], override) * Nominal(Line[0], override)
      /\ ExitSpeed = Leave(Entries(Line, Last), Last, 0)
  <2>1. 0 \in 0..Last
    BY <1>0, NextSlot
  <2>2. Line[0].length = At(0).length /\ Line[0].entry = Entry(0)
    BY <1>0, <2>1, Blocked
  <2>3. At(0) = Block
    BY <1>0, NextSlot DEF At, Block
  <2> QED
    BY <1>0, <2>2, <2>3, Blocked DEF Entry
<1>6. /\ complete <= L /\ hold # "complete" /\ (complete > 0 => exit = 0 /\ Decelerating)
      /\ (Decelerating => current = exit + L - complete)
  BY <1>0, <1>5 DEF Stepper
<1>7. rest \in Nat /\ complete <= rest /\ rest <= L
  BY <1>3, <1>4
<1> HIDE DEF L, M
<1>8. ASSUME hold = "decelerating" PROVE current' = exit + rest - complete
  <2>1. SpeedAt(rest) = IF rest = complete THEN exit ELSE current - (L - rest)
    BY <1>8 DEF SpeedAt, L
  <2> QED
    BY <1>1, <1>3, <1>4, <1>6, <1>7, <1>8, <2>1 DEF Decelerating
<1>9. ASSUME hold # "decelerating"
      PROVE  /\ current' \in Nat /\ complete = 0
             /\ ~slowed /\ rest > 0 => current' = CutSpeed(Line, Last, override, rest)
  <2>1. complete = 0
    BY <1>3, <1>6, <1>9 DEF Decelerating
  <2> DEFINE done == L - rest
             free == IF current > M THEN IF current - done > M THEN current - done ELSE M
                     ELSE Least(current + done, M)
  <2>2. SpeedAt(rest) = IF rest = complete THEN exit ELSE Least(free, exit + rest)
    BY <1>9 DEF SpeedAt, L, M
  <2>3. done \in Nat
    BY <1>4, <1>7
  <2>4. free \in Nat
    <3> HIDE DEF done
    <3> QED
      BY <1>3, <2>3 DEF Least
  <2>5. current' \in Nat
    <3> HIDE DEF free
    <3> QED
      BY <1>1, <1>3, <1>7, <2>2, <2>4 DEF Least
  <2>6. ASSUME ~slowed, rest > 0 PROVE current' = CutSpeed(Line, Last, override, rest)
    <3>1. hold = "no"
      BY <1>0, <1>6, <1>9 DEF TypeOK
    <3>2. exit = ExitSpeed
      BY <1>0, <2>6, <3>1 DEF ExitAgrees
    <3>3. current <= M
      BY <1>0, <1>5, <1>9, <2>6 DEF Planned, LineInv, NotTooFast
    <3>4. free = Least(current + done, M)
      BY <1>3, <3>3
    <3>5. CutSpeed(Line, Last, override, rest) = Least(Least(current + done, M), ExitSpeed + rest)
      BY <1>5 DEF CutSpeed
    <3> QED
      BY <1>1, <1>7, <2>1, <2>2, <2>6, <3>2, <3>4, <3>5
  <2> QED
    BY <2>1, <2>5, <2>6
<1>10. current' \in Nat
  <2>1. CASE hold = "decelerating"
    BY <1>3, <1>7, <1>8, <2>1
  <2>2. CASE hold # "decelerating"
    BY <1>9, <2>2
  <2> QED
    BY <2>1, <2>2
<1>11. ended' \in BOOLEAN /\ (ended' => rest = complete /\ rest > 0)
  BY <1>1
<1>12. CASE rest > 0
  <2>0. UNCHANGED <<loaded, tail, planned>>
    BY <1>1, <1>12
  <2>1. Planned' /\ buffer' \in Rings /\ Line'[0].entry = current' /\ Line'[0].length = rest
        /\ ~Empty' /\ ExitSpeed' = ExitSpeed
    <3>1. rest \in Nat /\ 0 < rest /\ rest <= Line[0].length /\ buffer' = [buffer EXCEPT ![tail].length = rest]
      BY <1>1, <1>5, <1>7, <1>12
    <3>2. UNCHANGED <<head, tail, planned, previous_nominal, override, hold, slowed>>
      BY <1>2, <2>0
    <3>3. loaded' /\ current' \in Nat
      BY <1>0, <1>10, <2>0
    <3>4. ~slowed /\ hold # "decelerating" => current' = CutSpeed(Line, Last, override, rest)
      BY <1>9, <1>12
    <3> QED
      BY <1>0, <3>1, <3>2, <3>3, <3>4, TailChanged
  <2>2. ended' => hold' = "decelerating" /\ current' = 0
    <3> SUFFICES ASSUME ended' PROVE hold' = "decelerating" /\ current' = 0
      OBVIOUS
    <3>1. rest = complete /\ hold = "decelerating" /\ exit = 0
      BY <1>6, <1>11, <1>12 DEF Decelerating
    <3>2. current' = exit + rest - complete
      BY <1>8, <3>1
    <3> QED
      BY <1>2, <1>3, <1>7, <3>1, <3>2
  <2>3. Stepper'
    <3>1. /\ loaded' /\ complete' <= Line'[0].length /\ hold' # "complete"
          /\ (complete' > 0 => exit' = 0 /\ Decelerating')
      BY <1>0, <1>2, <1>6, <1>7, <2>0, <2>1 DEF Decelerating
    <3>2. Decelerating' => current' = exit' + Line'[0].length - complete'
      BY <1>2, <1>8, <2>1 DEF Decelerating
    <3>3. ended' => hold' # "no" /\ ~Empty' /\ Line'[0].entry = 0
      BY <2>1, <2>2
    <3>4. ~recalculate'
      BY <1>0, <1>2
    <3> QED
      BY <3>1, <3>2, <3>3, <3>4 DEF Stepper
  <2>4. TypeOK'
    BY <1>0, <1>2, <1>10, <1>11, <2>0, <2>1 DEF TypeOK, Rings, Blocks, After
  <2>5. ExitAgrees'
    BY <1>0, <1>2, <2>1 DEF ExitAgrees
  <2> QED
    BY <1>0, <1>2, <2>1, <2>3, <2>4, <2>5 DEF PlanInv
<1>13. CASE rest = 0
  <2>1. /\ ~loaded' /\ loaded' \in BOOLEAN /\ tail' = After(tail)
        /\ planned' = (IF planned = tail THEN After(tail) ELSE planned)
        /\ buffer' = [buffer EXCEPT ![tail].length = 0] /\ ~ended'
    <3>1. ~(rest > 0)
      BY <1>13
    <3>2. ~ended'
      BY <1>11, <3>1
    <3>3. loaded' = FALSE /\ tail' = After(tail) /\ planned' = (IF planned = tail THEN After(tail) ELSE planned)
      BY <1>1, <1>13, Zenon
    <3>4. buffer' = [buffer EXCEPT ![tail].length = 0]
      BY <1>1, <1>13, Zenon
    <3> QED
      BY <3>2, <3>3, <3>4
  <2>2. After(tail) \in Slots /\ (After(tail) = head <=> Last = 0)
    BY <1>0, NextSlot
  <2>3. buffer' \in Rings
    <3> DEFINE a == buffer[tail]
    <3>1. a \in Blocks /\ buffer' = [buffer EXCEPT ![tail] = [a EXCEPT !.length = 0]]
      BY <1>3, <2>1 DEF Rings
    <3> HIDE DEF a
    <3>2. [a EXCEPT !.length = 0] \in Blocks
      BY <3>1 DEF Blocks
    <3> QED
      BY <1>3, <3>1, <3>2 DEF Rings
  <2>4. TypeOK'
    BY <1>0, <1>2, <1>10, <1>11, <2>1, <2>2, <2>3 DEF TypeOK, Rings, Blocks, After
  <2>5. Stepper' /\ ExitAgrees'
    BY <1>0, <1>2, <1>6, <2>1 DEF Stepper, ExitAgrees
  <2>6. ~Empty' => Planned'
    <3> SUFFICES ASSUME ~Empty' PROVE Planned'
      OBVIOUS
    <3>1. Last # 0
      BY <1>2, <2>1, <2>2 DEF Empty
    <3>2. UNCHANGED <<head, previous_nominal, override, hold, slowed>>
      BY <1>2
    <3> QED
      BY <1>0, <2>1, <3>1, <3>2, HeadDiscarded
  <2> QED
    BY <1>0, <1>2, <2>4, <2>5, <2>6 DEF PlanInv
<1> QED
  BY <1>7, <1>12, <1>13

LEMMA StepKeeps == PlanInv /\ [Next]_vars => PlanInv'
<1> SUFFICES ASSUME PlanInv, [Next]_vars PROVE PlanInv'
  OBVIOUS
<1>1. CASE PlanLine
  BY <1>1, PlanLineKeeps
<1>2. CASE Override
  BY <1>2, OverrideKeeps
<1>3. CASE FeedHold
  BY <1>3, FeedHoldKeeps
<1>4. CASE HoldComplete
  BY <1>4, HoldCompleteKeeps
<1>5. CASE Resume
  BY <1>5, ResumeKeeps
<1>6. CASE Reset
  BY <1>6, ResetKeeps
<1>7. CASE Load
  BY <1>7, LoadKeeps
<1>8. CASE Cut
  BY <1>8, CutKeeps
<1>9. CASE UNCHANGED vars
  <2>1. UNCHANGED <<buffer, head, next_head, tail, planned, previous_nominal, override>>
    BY <1>9 DEF vars, ringVars
  <2>2. UNCHANGED <<loaded, recalculate, decel_override, current, exit, complete, hold, ended, slowed>>
    BY <1>9 DEF vars, prepVars
  <2>3. TypeOK'
    BY <2>1, <2>2 DEF PlanInv, TypeOK, Empty, After
  <2>4. (Empty' <=> Empty) /\ Line' = Line /\ Last' = Last /\ Pointer' = Pointer /\ (Decelerating' <=> Decelerating)
    BY <2>1, <2>2 DEF Empty, Line, Last, LineOf, Updated, Count, Pointer, Decelerating
  <2>5. ~Empty' => Planned'
    BY <2>1, <2>2, <2>4 DEF PlanInv, Planned
  <2>6. Stepper'
    BY <2>1, <2>2, <2>4 DEF PlanInv, Stepper
  <2>7. ExitAgrees'
    BY <2>1, <2>2 DEF PlanInv, ExitAgrees, ExitSpeed, After
  <2> QED
    BY <2>2, <2>3, <2>5, <2>6, <2>7 DEF PlanInv
<1> QED
  BY <1>1, <1>2, <1>3, <1>4, <1>5, <1>6, <1>7, <1>8, <1>9 DEF Next

\* The invariant of the planner: the blocks from the tail to the last are a plan, with the block in
\* execution entered at the speed the stepper is at, and the pointer stands where the plan is fixed.
THEOREM Invariant == Spec => []PlanInv
<1>1. Init => PlanInv
  BY Start
<1>2. PlanInv /\ [Next]_vars => PlanInv'
  BY StepKeeps
<1> QED
  BY <1>1, <1>2, PTL DEF Spec

-----------------------------------------------------------------------------
(* What the invariant says of the planner *)

\* Every variable keeps to its type: all indices stay in the ring, all speeds and distances that
\* st_prep_buffer() and planner_recalculate() compute stay natural numbers, and a block is loaded
\* only from a ring that is not empty.
THEOREM TypeCorrect == Spec => []TypeOK
<1>1. PlanInv => TypeOK
  BY DEF PlanInv
<1> QED
  BY <1>1, Invariant, PTL

\* The stop-compute pointer, block_buffer_planned, stays among the blocks in the ring, whatever is
\* planned, discarded, overridden or reset.
THEOREM PointerInRing == Spec => []PlannedInRing
<1>1. PlanInv => PlannedInRing
  <2> SUFFICES ASSUME PlanInv, ~Empty PROVE Steps(tail, planned) < Count
    BY DEF PlannedInRing
  <2>1. Pointer \in 0..Last
    BY DEF PlanInv, Planned, LineInv
  <2>2. Count \in 0..N - 1
    BY Counting, Types DEF PlanInv
  <2>3. Pointer \in Nat /\ Pointer <= Count - 1
    BY <2>1, <2>2, RingSize DEF Last
  <2> QED
    BY <2>2, <2>3, RingSize DEF Pointer
<1> QED
  BY <1>1, Invariant, PTL

\* The block in execution ends at the speed at which the next one is planned to be entered, although
\* st_prep_buffer() reads that speed once, and planner_recalculate() goes on planning.
THEOREM ExitPlanned == Spec => []ExitAgrees
<1>1. PlanInv => ExitAgrees
  BY DEF PlanInv
<1> QED
  BY <1>1, Invariant, PTL

\* When a hold is complete, the block at the tail is planned again from rest.
THEOREM FromRest == Spec => []RestAfterHold
<1>1. PlanInv => RestAfterHold
  <2> SUFFICES ASSUME PlanInv, hold = "complete", ~Empty PROVE At(0).entry = 0
    BY DEF RestAfterHold
  <2>1. ended /\ ~loaded /\ Line[0].entry = 0
    BY DEF PlanInv, Stepper
  <2>2. 0 \in 0..Last
    BY NextSlot, Types DEF PlanInv
  <2>3. Line[0].entry = Entry(0)
    BY <2>2, Blocked, Types DEF PlanInv
  <2> QED
    BY <2>1, <2>3 DEF Entry
<1> QED
  BY <1>1, Invariant, PTL

\* The plan can be executed: every block can be left at the speed at which the next one is entered
\* and the last one at rest, and no block is entered faster than the machine gets on the way to it,
\* after any sequence of new lines, discarded blocks, raised overrides, holds and resets.
THEOREM Executable == Spec => []Feasible
<1>1. PlanInv => Feasible
  <2> SUFFICES ASSUME PlanInv, ~slowed, hold # "decelerating", NEW k \in 0..Count - 1
               PROVE  CanSlowDown(k) /\ CanSpeedUp(k)
    BY DEF Feasible
  <2> DEFINE f == Entries(Line, Last)
  <2>1. Typed /\ Count \in Nat /\ (Empty <=> Count = 0)
    BY Types, Counting, RingSize DEF PlanInv
  <2>2. ~Empty /\ k \in 0..Last /\ Last \in Nat /\ Count = Last + 1
    BY <2>1 DEF Last
  <2>3. Opening(Line, Last) /\ SlowsDown(Line, Last, f) /\ SpeedsUp(Line, Last, f)
    BY <2>2 DEF PlanInv, Planned, LineInv
  <2>4. \A j \in 0..Last : f[j] = Entry(j) /\ Line[j].entry = Entry(j) /\ Line[j].length = At(j).length
    BY <2>1, <2>2, Blocked DEF Entries
  <2>5. 0 \in 0..Last
    BY <2>2
  <2> HIDE DEF f
  <2>6. Entry(k) <= At(k).length + Leave(f, Last, k)
    <3>1. CASE k = 0
      BY <2>3, <2>4, <2>5, <3>1 DEF Opening, f
    <3>2. CASE k # 0
      <4>1. k \in 1..Last
        BY <2>2, <3>2
      <4> QED
        BY <2>2, <2>3, <2>4, <4>1 DEF SlowsDown
    <3> QED
      BY <3>1, <3>2
  <2>7. Leave(f, Last, k) = IF k + 1 = Count THEN 0 ELSE Entry(k + 1)
    <3>1. CASE k = Last
      BY <2>2, <3>1 DEF Leave
    <3>2. CASE k # Last
      <4>1. k + 1 \in 0..Last /\ k + 1 # Count
        BY <2>2, <3>2
      <4> QED
        BY <2>4, <3>2, <4>1 DEF Leave
    <3> QED
      BY <3>1, <3>2
  <2>8. ASSUME k + 1 < Count PROVE Entry(k + 1) <= Entry(k) + At(k).length
    <3>1. k + 1 \in 1..Last /\ (k + 1) - 1 = k /\ k + 1 \in 0..Last
      BY <2>2, <2>8
    <3>2. f[k + 1] <= f[k] + Line[k].length
      BY <2>3, <3>1 DEF SpeedsUp
    <3> QED
      BY <2>2, <2>4, <3>1, <3>2
  <2> QED
    BY <2>6, <2>7, <2>8 DEF CanSlowDown, CanSpeedUp
<1> QED
  BY <1>1, Invariant, PTL

\* Entry speeds e found by planning the whole line x, backward (r) and then forward.
Found(x, c, r, e) ==
  /\ \A k \in 0..c : r[k] \in Nat
  /\ r[c] = Least(x[c].max_entry, x[c].length)
  /\ \A k \in 0..c - 1 : r[k] = Least(x[k].max_entry, r[k + 1] + x[k].length)
  /\ e[0] = x[0].entry
  /\ \A k \in 1..c : e[k] = Least(r[k], e[k - 1] + x[k - 1].length)

\* A plan none of whose speeds can be raised by itself is the best one: where a speed is not bound
\* by the one before, it is bound by the way to the end, for a chain of blocks that bound each other
\* both ways would have no length.
LEMMA TightIsBest ==
  ASSUME NEW c \in Nat, NEW x \in [0..c -> Blocks], NEW r, NEW e, Found(x, c, r, e),
         \A k \in 0..c : x[k].length > 0,
         CappedBy(x, c, Entries(x, c)), SlowsDown(x, c, Entries(x, c)),
         SpeedsUp(x, c, Entries(x, c)), TightPlan(x, c, Entries(x, c))
  PROVE  \A k \in 0..c : e[k] = x[k].entry
<1> DEFINE f == Entries(x, c)
<1>1. \A k \in 0..c : f[k] \in Nat /\ f[k] = x[k].entry /\ x[k].length \in Nat /\ x[k].max_entry \in Nat
  BY DEF Entries, Blocks
<1> DEFINE Bound(k) == f[k] <= r[k] /\ (f[k] = r[k] \/ f[k] = f[k - 1] + x[k - 1].length)
           S == {d \in Nat : d < c => Bound(c - d)}
<1> HIDE DEF f
<1>2. ASSUME NEW k \in 1..c
      PROVE  /\ f[k] <= x[k].max_entry /\ f[k] <= x[k].length + Leave(f, c, k)
             /\ f[k] <= f[k - 1] + x[k - 1].length /\ TightAt(x, c, f, k) /\ k \in 0..c
  BY DEF CappedBy, SlowsDown, SpeedsUp, TightPlan, f
<1>3. 0 \in S
  <2> SUFFICES ASSUME 0 < c PROVE Bound(c)
    OBVIOUS
  <2>1. c \in 1..c /\ c \in 0..c /\ Leave(f, c, c) = 0
    BY DEF Leave
  <2>2. r[c] = Least(x[c].max_entry, x[c].length) /\ r[c] \in Nat
    BY <2>1 DEF Found
  <2>3. f[c] = x[c].max_entry \/ f[c] = f[c - 1] + x[c - 1].length \/ f[c] = x[c].length
    BY <1>1, <1>2, <2>1 DEF TightAt
  <2>4. f[c] <= x[c].max_entry /\ f[c] <= x[c].length
    BY <1>1, <1>2, <2>1
  <2> QED
    BY <1>1, <2>1, <2>2, <2>3, <2>4 DEF Least
<1>4. ASSUME NEW d \in Nat, d \in S PROVE d + 1 \in S
  <2> SUFFICES ASSUME d + 1 < c PROVE Bound(c - (d + 1))
    OBVIOUS
  <2> DEFINE k == c - (d + 1)
  <2>1. k \in 1..c /\ k \in 0..c - 1 /\ k \in 0..c /\ k # c /\ k + 1 = c - d /\ k + 1 \in 1..c /\ k + 1 \in 0..c
        /\ (k + 1) - 1 = k
    OBVIOUS
  <2>2. Bound(c - d)
    BY <1>4
  <2> HIDE DEF k
  <2>3. f[k + 1] <= r[k + 1] /\ (f[k + 1] = r[k + 1] \/ f[k + 1] = f[k] + x[k].length)
    BY <2>1, <2>2
  <2>4. r[k] = Least(x[k].max_entry, r[k + 1] + x[k].length) /\ r[k] \in Nat /\ r[k + 1] \in Nat
    BY <2>1 DEF Found
  <2>5. Leave(f, c, k) = f[k + 1]
    BY <2>1 DEF Leave
  <2>6. f[k] = x[k].max_entry \/ f[k] = f[k - 1] + x[k - 1].length \/ f[k] = x[k].length + f[k + 1]
    BY <1>2, <2>1, <2>5 DEF TightAt
  <2>7. f[k] <= x[k].max_entry /\ f[k] <= x[k].length + f[k + 1]
    BY <1>2, <2>1, <2>5
  <2>8. /\ f[k] \in Nat /\ f[k + 1] \in Nat /\ x[k].length \in Nat /\ x[k].length > 0 /\ x[k].max_entry \in Nat
    BY <1>1, <2>1
  <2>9. f[k] <= r[k]
    BY <2>3, <2>4, <2>7, <2>8 DEF Least
  <2>10. f[k] = r[k] \/ f[k] = f[k - 1] + x[k - 1].length
    <3>1. CASE f[k] = x[k].max_entry
      BY <2>4, <2>8, <2>9, <3>1 DEF Least
    <3>2. CASE f[k] = x[k].length + f[k + 1]
      BY <2>3, <2>4, <2>8, <2>9, <3>2 DEF Least
    <3> QED
      BY <2>6, <3>1, <3>2
  <2> QED
    BY <2>9, <2>10 DEF k
<1> HIDE DEF S
<1>5. \A d \in Nat : d \in S
  BY <1>3, <1>4, Induction
<1>6. ASSUME NEW k \in 1..c PROVE Bound(k)
  <2>1. c - k \in S /\ c - k < c /\ c - (c - k) = k
    BY <1>5
  <2> QED
    BY <2>1 DEF S
<1> DEFINE U == {k \in Nat : k <= c => e[k] = f[k]}
<1>7. 0 \in U
  BY <1>1 DEF Found
<1>8. ASSUME NEW k \in Nat, k \in U PROVE k + 1 \in U
  <2> SUFFICES ASSUME k + 1 <= c PROVE e[k + 1] = f[k + 1]
    OBVIOUS
  <2>1. k + 1 \in 1..c /\ k \in 0..c /\ k + 1 \in 0..c /\ (k + 1) - 1 = k /\ e[k] = f[k]
    BY <1>8
  <2>2. e[k + 1] = Least(r[k + 1], f[k] + x[k].length) /\ r[k + 1] \in Nat
    BY <2>1 DEF Found
  <2>3. f[k + 1] <= r[k + 1] /\ (f[k + 1] = r[k + 1] \/ f[k + 1] = f[k] + x[k].length)
    BY <1>6, <2>1
  <2>4. f[k + 1] <= f[k] + x[k].length
    BY <1>2, <2>1
  <2>5. f[k] \in Nat /\ f[k + 1] \in Nat /\ x[k].length \in Nat
    BY <1>1, <2>1
  <2> QED
    BY <2>2, <2>3, <2>4, <2>5 DEF Least
<1> HIDE DEF U
<1>9. \A k \in Nat : k \in U
  BY <1>7, <1>8, Induction
<1> QED
  BY <1>1, <1>9 DEF U

\* The two functions of Best.
BestBack ==
  CHOOSE back : back = [d \in 0..N - 1 |->
    IF d = 0 THEN Least(At(Count - 1).max_entry, At(Count - 1).length)
    ELSE IF d < Count THEN Least(At(Count - 1 - d).max_entry, back[d - 1] + At(Count - 1 - d).length)
    ELSE 0]
BestEntry ==
  CHOOSE best : best = [k \in 0..N - 1 |->
    IF k = 0 THEN Entry(0)
    ELSE IF k < Count THEN Least(BestBack[Count - 1 - k], best[k - 1] + At(k - 1).length)
    ELSE 0]

LEMMA BestIs == Best = BestEntry
  BY DEF Best, BestEntry, BestBack

LEMMA BestBackDef ==
  ASSUME Typed, ~Empty
  PROVE  /\ \A d \in 0..Last : BestBack[d] \in Nat
         /\ BestBack[0] = Least(Line[Last].max_entry, Line[Last].length)
         /\ \A d \in 1..Last : BestBack[d] = Least(Line[Last - d].max_entry, BestBack[d - 1] + Line[Last - d].length)
<1> DEFINE block(d) == At(Count - 1 - d)
           base == Least(At(Count - 1).max_entry, At(Count - 1).length)
           step == [d \in Nat |-> [v \in Nat |->
             IF d \in 1..Last THEN Least(block(d).max_entry, v + block(d).length) ELSE 0]]
           Value(f, d) == IF d = 0 THEN base
                          ELSE IF d < Count THEN Least(block(d).max_entry, f[d - 1] + block(d).length) ELSE 0
<1>0. N - 1 \in Nat /\ Last \in 0..N - 2 /\ Last \in Nat /\ Count = Last + 1 /\ N \in Nat
  BY RingSize, Counting DEF Last
<1>1. ASSUME NEW d \in 0..Last
      PROVE  /\ block(d).max_entry = Line[Last - d].max_entry /\ block(d).length = Line[Last - d].length
             /\ block(d).max_entry \in Nat /\ block(d).length \in Nat
  <2>1. Last - d \in 0..Last /\ Count - 1 - d = Last - d
    BY <1>0
  <2>2. Line[Last - d] \in Blocks
    BY <2>1, Blocked
  <2>3. Line[Last - d].max_entry \in Nat /\ Line[Last - d].length \in Nat
    BY <2>2 DEF Blocks
  <2> QED
    BY <2>1, <2>3, Blocked
<1>2. base \in Nat /\ base = Least(Line[Last].max_entry, Line[Last].length)
  <2>1. 0 \in 0..Last /\ Last - 0 = Last /\ Count - 1 - 0 = Count - 1
    BY <1>0
  <2>2. /\ At(Count - 1).max_entry = Line[Last].max_entry /\ At(Count - 1).length = Line[Last].length
        /\ At(Count - 1).max_entry \in Nat /\ At(Count - 1).length \in Nat
    BY <1>1, <2>1
  <2> QED
    BY <2>2, LeastIs
<1>3. BestBack = CHOOSE f : f = [d \in 0..N - 1 |-> Value(f, d)]
  BY DEF BestBack
<1> HIDE DEF base, block
<1>4. ASSUME NEW d \in 1..Last, NEW v \in Nat PROVE Least(block(d).max_entry, v + block(d).length) \in Nat
  <2>1. d \in 0..Last
    BY <1>0
  <2>2. block(d).max_entry \in Nat /\ v + block(d).length \in Nat
    BY <1>1, <2>1
  <2> QED
    BY <2>2, LeastIs
<1>5. step \in StepsOn(Nat)
  BY <1>4 DEF StepsOn
<1> HIDE DEF step
<1>6. PICK f : Made(f, Nat, base, step, N - 1)
  BY <1>0, <1>2, <1>5, RecursionUpTo
<1>7. ASSUME NEW d \in 1..N - 1 PROVE f[d] = Value(f, d)
  <2>1. f[d] = step[d][f[d - 1]] /\ f[d - 1] \in Nat /\ d \in Nat /\ d # 0
    BY <1>0, <1>6 DEF Made
  <2>2. d \in 1..Last <=> d < Count
    BY <1>0
  <2> QED
    BY <2>1, <2>2 DEF step
<1>8. f = [d \in 0..N - 1 |-> Value(f, d)]
  BY <1>0, <1>6, <1>7 DEF Made
<1> DEFINE back == BestBack
<1>9. back = [d \in 0..N - 1 |-> Value(back, d)]
  BY <1>3, <1>8
<1>10. \A d \in 0..N - 1 : back[d] = Value(back, d)
  BY <1>9
<1> HIDE DEF back
<1>11. back[0] = base
  BY <1>0, <1>10
<1>12. ASSUME NEW d \in 1..Last PROVE back[d] = Least(block(d).max_entry, back[d - 1] + block(d).length)
  <2>1. d \in 0..N - 1 /\ d # 0 /\ d < Count
    BY <1>0
  <2> QED
    BY <1>10, <2>1
<1> DEFINE S == {d \in Nat : d <= Last => back[d] \in Nat}
<1>13. 0 \in S
  BY <1>2, <1>11
<1>14. ASSUME NEW d \in Nat, d \in S PROVE d + 1 \in S
  <2> SUFFICES ASSUME d + 1 <= Last PROVE back[d + 1] \in Nat
    OBVIOUS
  <2>1. d + 1 \in 1..Last /\ (d + 1) - 1 = d /\ back[d] \in Nat
    BY <1>0, <1>14
  <2>2. back[d + 1] = Least(block(d + 1).max_entry, back[d] + block(d + 1).length)
    BY <1>12, <2>1
  <2> QED
    BY <1>4, <2>1, <2>2
<1> HIDE DEF S
<1>15. \A d \in Nat : d \in S
  BY <1>13, <1>14, Induction
<1>16. \A d \in 0..Last : back[d] \in Nat
  BY <1>0, <1>15 DEF S
<1>17. ASSUME NEW d \in 1..Last
       PROVE  back[d] = Least(Line[Last - d].max_entry, back[d - 1] + Line[Last - d].length)
  <2>1. d \in 0..Last
    BY <1>0
  <2> QED
    BY <1>1, <1>12, <2>1
<1> QED
  BY <1>2, <1>11, <1>16, <1>17 DEF back

LEMMA BestEntryDef ==
  ASSUME Typed, ~Empty
  PROVE  /\ BestEntry[0] = Line[0].entry
         /\ \A k \in 1..Last : BestEntry[k] = Least(BestBack[Last - k], BestEntry[k - 1] + Line[k - 1].length)
<1> DEFINE base == Entry(0)
           limit(k) == BestBack[Count - 1 - k]
           step == [k \in Nat |-> [v \in Nat |->
             IF k \in 1..Last THEN Least(limit(k), v + At(k - 1).length) ELSE 0]]
           Value(f, k) == IF k = 0 THEN base
                          ELSE IF k < Count THEN Least(limit(k), f[k - 1] + At(k - 1).length) ELSE 0
<1>0. N - 1 \in Nat /\ Last \in 0..N - 2 /\ Last \in Nat /\ Count = Last + 1 /\ N \in Nat
  BY RingSize, Counting DEF Last
<1>1. base \in Nat /\ base = Line[0].entry
  <2>1. 0 \in 0..Last
    BY <1>0
  <2>2. Line[0] \in Blocks /\ Line[0].entry = Entry(0)
    BY <2>1, Blocked
  <2> QED
    BY <2>2 DEF Blocks
<1>2. BestEntry = CHOOSE f : f = [k \in 0..N - 1 |-> Value(f, k)]
  BY DEF BestEntry
<1>3. ASSUME NEW k \in 1..Last
      PROVE  /\ limit(k) = BestBack[Last - k] /\ limit(k) \in Nat
             /\ At(k - 1).length = Line[k - 1].length /\ At(k - 1).length \in Nat
  <2>1. Last - k \in 0..Last /\ Count - 1 - k = Last - k /\ k - 1 \in 0..Last
    BY <1>0
  <2>2. Line[k - 1] \in Blocks /\ At(k - 1).length = Line[k - 1].length
    BY <2>1, Blocked
  <2> QED
    BY <2>1, <2>2, BestBackDef DEF Blocks
<1> HIDE DEF base, limit
<1>4. ASSUME NEW k \in 1..Last, NEW v \in Nat PROVE Least(limit(k), v + At(k - 1).length) \in Nat
  <2>1. limit(k) \in Nat /\ v + At(k - 1).length \in Nat
    BY <1>3
  <2> QED
    BY <2>1, LeastIs
<1>5. step \in StepsOn(Nat)
  BY <1>4 DEF StepsOn
<1> HIDE DEF step
<1>6. PICK f : Made(f, Nat, base, step, N - 1)
  BY <1>0, <1>1, <1>5, RecursionUpTo
<1>7. ASSUME NEW k \in 1..N - 1 PROVE f[k] = Value(f, k)
  <2>1. f[k] = step[k][f[k - 1]] /\ f[k - 1] \in Nat /\ k \in Nat /\ k # 0
    BY <1>0, <1>6 DEF Made
  <2>2. k \in 1..Last <=> k < Count
    BY <1>0
  <2> QED
    BY <2>1, <2>2 DEF step
<1>8. f = [k \in 0..N - 1 |-> Value(f, k)]
  BY <1>0, <1>6, <1>7 DEF Made
<1> DEFINE best == BestEntry
<1>9. best = [k \in 0..N - 1 |-> Value(best, k)]
  BY <1>2, <1>8
<1>10. \A k \in 0..N - 1 : best[k] = Value(best, k)
  BY <1>9
<1> HIDE DEF best
<1>11. best[0] = base
  BY <1>0, <1>10
<1>12. ASSUME NEW k \in 1..Last PROVE best[k] = Least(BestBack[Last - k], best[k - 1] + Line[k - 1].length)
  <2>1. k \in 0..N - 1 /\ k # 0 /\ k < Count
    BY <1>0
  <2>2. best[k] = Least(limit(k), best[k - 1] + At(k - 1).length)
    BY <1>10, <2>1
  <2> QED
    BY <1>3, <2>2
<1> QED
  BY <1>1, <1>11, <1>12 DEF best

\* Planning from the stop-compute pointer on is as good as planning the whole ring: the entry speed
\* of every block in it is the highest that the maxima, the way to the end of the last line and the
\* way from the block in execution allow.
THEOREM Optimal == Spec => []PlanOptimal
<1>1. PlanInv => PlanOptimal
  <2> SUFFICES ASSUME PlanInv, ~slowed, hold # "decelerating", NEW k \in 1..Count - 1
               PROVE  At(k).entry = Best[k]
    BY DEF PlanOptimal
  <2>1. Typed /\ Count \in Nat /\ (Empty <=> Count = 0)
    BY Types, Counting, RingSize DEF PlanInv
  <2>2. ~Empty /\ k \in 1..Last /\ k \in 0..Last /\ k # 0 /\ Last \in Nat /\ Count = Last + 1
    BY <2>1 DEF Last
  <2>3. /\ Line \in [0..Last -> Blocks] /\ \A j \in 0..Last : Line[j].length > 0
        /\ CappedBy(Line, Last, Entries(Line, Last)) /\ SlowsDown(Line, Last, Entries(Line, Last))
        /\ SpeedsUp(Line, Last, Entries(Line, Last)) /\ TightPlan(Line, Last, Entries(Line, Last))
    BY <2>2 DEF PlanInv, Planned, LineInv
  <2> DEFINE r == [j \in 0..Last |-> BestBack[Last - j]]
             e == BestEntry
  <2>4. Found(Line, Last, r, e)
    <3>1. \A j \in 0..Last : r[j] = BestBack[Last - j] /\ Last - j \in 0..Last
      BY <2>2
    <3>2. \A j \in 0..Last : r[j] \in Nat
      BY <2>1, <2>2, <3>1, BestBackDef
    <3>3. r[Last] = Least(Line[Last].max_entry, Line[Last].length)
      <4>1. Last \in 0..Last /\ Last - Last = 0
        BY <2>2
      <4> QED
        BY <2>1, <2>2, <3>1, <4>1, BestBackDef
    <3>4. ASSUME NEW j \in 0..Last - 1
          PROVE  r[j] = Least(Line[j].max_entry, r[j + 1] + Line[j].length)
      <4>1. /\ j \in 0..Last /\ j + 1 \in 0..Last /\ Last - j \in 1..Last /\ Last - (Last - j) = j
            /\ (Last - j) - 1 = Last - (j + 1)
        BY <2>2
      <4>2. BestBack[Last - j] = Least(Line[Last - (Last - j)].max_entry,
                                       BestBack[(Last - j) - 1] + Line[Last - (Last - j)].length)
        BY <2>1, <2>2, <4>1, BestBackDef
      <4> QED
        BY <3>1, <4>1, <4>2
    <3>5. ASSUME NEW j \in 1..Last PROVE e[j] = Least(r[j], e[j - 1] + Line[j - 1].length)
      <4>1. j \in 0..Last
        BY <2>2
      <4> QED
        BY <2>1, <2>2, <3>1, <4>1, BestEntryDef
    <3>6. e[0] = Line[0].entry
      BY <2>1, <2>2, BestEntryDef
    <3> HIDE DEF r, e
    <3> QED
      BY <3>2, <3>3, <3>4, <3>5, <3>6 DEF Found
  <2>5. e[k] = Line[k].entry
    <3> HIDE DEF r, e
    <3> QED
      BY <2>2, <2>3, <2>4, TightIsBest
  <2>6. Line[k].entry = Entry(k)
    BY <2>1, <2>2, Blocked
  <2> QED
    BY <2>2, <2>5, <2>6, BestIs DEF Entry
<1> QED
  BY <1>1, Invariant, PTL

=============================================================================
