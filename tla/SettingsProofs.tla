--------------------------- MODULE SettingsProofs ---------------------------
(***************************************************************************)
(* Theorems about the settings and their EEPROM, for any number of records,*)
(* values, commands and power losses.                                      *)
(*                                                                         *)
(* What is in use and what is stored disagree while writes are due.  The   *)
(* argument is about what the page will hold when they are done: a field   *)
(* is owed a value if it has it and is not written any more, or if every   *)
(* write that is due to it writes that value.                              *)
(***************************************************************************)
EXTENDS Settings, SequenceTheorems, TLAPS

Writes == [op : {"put", "record", "clear"}, at : Fields, value : Contents \ {"old"}]

\* Where the program goes on once the writes are done.
Goal == IF pc \in {"write", "erase", "program"} THEN then ELSE pc

Due(writes, f) == \E k \in 1..Len(writes) : writes[k].at = f
Gives(writes, f, x) ==
  \A k \in 1..Len(writes) : writes[k].at = f => writes[k].value = x /\ writes[k].op # "clear"
Owed(f, x) == Gives(todo, f, x) /\ (Due(todo, f) \/ ram_cache[f] = x)

\* The writes, and how far the page has got.
Flushes ==
  /\ todo \in Seq(Writes)
  /\ pc \in {"write", "erase", "program"} <=> todo # <<>>
  /\ todo # <<>> => then \in {"init", "startup", "run"}
  /\ pc \in {"erase", "program"} => ram_cache[todo[1].at] = todo[1].value
  /\ pc \in {"write", "init", "startup", "run"} => flash = ram_cache
  /\ pc = "program" => \A f \in Fields :
                         IF f < programmed THEN flash[f] = ram_cache[f] ELSE flash[f] = "bad"
  /\ pc # "program" => programmed = 0

\* What is in use, or will be.
InUse ==
  /\ pc # "off" => Owed(VERSION, "default") /\ Owed(GLOBAL, settings)
  /\ Goal \in {"startup", "run"} =>
       /\ coord_system # "bad"
       /\ check \/ Owed(Coord(coord_select), coord_system)

\* What a power loss has left alone.
Keeps ==
  /\ kept = Nothing \/ (kept[VERSION] = "default" /\ kept[GLOBAL] # "bad")
  /\ \A f \in Fields : kept[f] # "bad" =>
       IF pc = "off" THEN flash[f] = kept[f] ELSE ram_cache[f] = kept[f] /\ ~Due(todo, f)

\* Whatever another version has left is going to be overwritten.
Wipes ==
  ~cut =>
    IF pc = "off" THEN flash[VERSION] = "bad" \/ \A f \in Fields : flash[f] # "old"
    ELSE /\ \A f \in Fields : ram_cache[f] = "old" => Due(todo, f) /\ Goal = "init"
         /\ (todo = <<>> \/ then # "init") => \A f \in Fields : flash[f] # "old"

IInv == TypeOK /\ Flushes /\ InUse /\ Keeps /\ Wipes
-----------------------------------------------------------------------------
(* The page and the lists of writes *)

LEMMA Layout ==
  /\ N_COORDINATE_SYSTEM \in Nat /\ N_COORDINATE_SYSTEM >= 1
  /\ N_STARTUP_LINE \in {1, 2}
  /\ VERSION = 0 /\ GLOBAL = 1
  /\ SETTING_INDEX_NCOORD = N_COORDINATE_SYSTEM + 1
  /\ BUILD = N_COORDINATE_SYSTEM + 4 + N_STARTUP_LINE /\ BUILD \in Nat
  /\ \A f : f \in Fields <=> f \in Int /\ 0 <= f /\ f <= BUILD
  /\ \A k \in Int : Coord(k) = 2 + k /\ Startup(k) = N_COORDINATE_SYSTEM + 4 + k
  /\ \A k : k \in Selects <=> k \in Int /\ 0 <= k /\ k < N_COORDINATE_SYSTEM
<1>1. N_COORDINATE_SYSTEM \in Nat /\ N_COORDINATE_SYSTEM >= 1 /\ N_STARTUP_LINE \in {1, 2}
  BY SettingsAssumption DEF SettingsAssumption
<1> QED
  BY <1>1 DEF VERSION, GLOBAL, SETTING_INDEX_NCOORD, BUILD, Fields, Coord, Startup, Selects

LEMMA ValueType ==
  /\ \A x \in Values : x \in Contents /\ x # "old" /\ x # "bad" /\ x # "default"
  /\ {"default", "old", "bad"} \subseteq Contents
BY SettingsAssumption DEF SettingsAssumption, Contents, Valid

LEMMA NoWrites ==
  /\ <<>> \in Seq(Writes)
  /\ \A f : ~Due(<<>>, f)
  /\ \A f, x : Gives(<<>>, f, x)
<1>1. <<>> \in Seq(Writes) /\ Len(<<>>) = 0
  BY EmptySeq
<1> QED
  BY <1>1 DEF Due, Gives

LEMMA OneWrite ==
  ASSUME NEW g \in Fields, NEW x \in Contents, x # "old"
  PROVE  /\ <<Record(g, x)>> \in Seq(Writes) /\ <<Record(g, x)>> # <<>>
         /\ \A f : Due(<<Record(g, x)>>, f) <=> f = g
         /\ \A f, y : Gives(<<Record(g, x)>>, f, y) <=> (f = g => y = x)
<1>1. Record(g, x) \in Writes
  BY DEF Record, Writes
<1>2. Record(g, x).at = g /\ Record(g, x).value = x /\ Record(g, x).op = "record"
  BY DEF Record
<1> DEFINE W == <<Record(g, x)>>
<1>3. W \in Seq(Writes) /\ Len(W) = 1 /\ W[1] = Record(g, x) /\ W # <<>>
  BY <1>1
<1> HIDE DEF W
<1> QED
  BY <1>2, <1>3 DEF Due, Gives, W

LEMMA GlobalWrites ==
  ASSUME NEW x \in Contents, x # "old"
  PROVE  /\ WriteGlobal(x) \in Seq(Writes) /\ WriteGlobal(x) # <<>>
         /\ \A f : Due(WriteGlobal(x), f) <=> f \in {VERSION, GLOBAL}
         /\ \A f, y : Gives(WriteGlobal(x), f, y)
                        <=> (f = VERSION => y = "default") /\ (f = GLOBAL => y = x)
<1> DEFINE a == Put(VERSION, "default")
           b == Record(GLOBAL, x)
           W == <<a, b>>
<1>1. a \in Writes /\ b \in Writes
  BY Layout, ValueType DEF Put, Record, Writes
<1>2. a.at = 0 /\ a.value = "default" /\ a.op = "put" /\ b.at = 1 /\ b.value = x /\ b.op = "record"
  BY Layout DEF Put, Record
<1> HIDE DEF a, b
<1>3. W \in Seq(Writes) /\ Len(W) = 2 /\ W[1] = a /\ W[2] = b /\ W # <<>>
  BY <1>1
<1>4. W = WriteGlobal(x)
  BY DEF WriteGlobal, W, a, b
<1> HIDE DEF W
<1>5. \A f : Due(W, f) <=> f \in {0, 1}
  BY <1>2, <1>3 DEF Due
<1>6. \A f, y : Gives(W, f, y) <=> (f = 0 => y = "default") /\ (f = 1 => y = x)
  BY <1>2, <1>3 DEF Gives
<1> QED
  BY <1>3, <1>4, <1>5, <1>6, Layout

LEMMA ParameterWrites ==
  /\ RestoreParameters \in Seq(Writes) /\ RestoreParameters # <<>>
  /\ Len(RestoreParameters) = N_COORDINATE_SYSTEM + 2
  /\ \A k \in 1..N_COORDINATE_SYSTEM + 2 : RestoreParameters[k] = Record(k + 1, "default")
  /\ \A f : Due(RestoreParameters, f) => f # VERSION /\ f # GLOBAL
  /\ \A f, x : f \in {VERSION, GLOBAL} => Gives(RestoreParameters, f, x)
<1> DEFINE n == N_COORDINATE_SYSTEM + 2
           W == RestoreParameters
<1>1. n \in Nat /\ n >= 1 /\ SETTING_INDEX_NCOORD + 1 = n
  BY Layout
<1>2. \A k \in 1..n : Record(k + 1, "default") \in Writes /\ Coord(k - 1) = k + 1
                        /\ Record(k + 1, "default").at = k + 1
  <2> SUFFICES ASSUME NEW k \in 1..n
               PROVE  Record(k + 1, "default") \in Writes /\ Coord(k - 1) = k + 1
                        /\ Record(k + 1, "default").at = k + 1
    OBVIOUS
  <2>1. k - 1 \in Int /\ Coord(k - 1) = k + 1 /\ k + 1 \in Fields
    BY <1>1, Layout
  <2> QED
    BY <2>1, ValueType DEF Record, Writes
<1>3. W = [k \in 1..n |-> Record(Coord(k - 1), "default")]
  BY <1>1 DEF RestoreParameters
<1>4. \A k \in 1..n : W[k] = Record(k + 1, "default")
  BY <1>2, <1>3
<1>5. W \in Seq(Writes) /\ Len(W) = n
  <2>1. W \in [1..n -> Writes]
    BY <1>2, <1>3
  <2> QED
    BY <2>1, <1>1
<1>6. W # <<>>
  BY <1>5, <1>1, EmptySeq
<1> HIDE DEF W
<1>7. \A k \in 1..n : W[k].at # 0 /\ W[k].at # 1
  BY <1>2, <1>4, <1>1
<1> QED
  BY <1>1, <1>4, <1>5, <1>6, <1>7, Layout DEF Due, Gives, W

\* The restore writes every field once, in the order of their addresses.
LEMMA AllWrites ==
  /\ RestoreAll \in Seq(Writes) /\ RestoreAll # <<>>
  /\ \A f \in Fields : Due(RestoreAll, f)
  /\ Gives(RestoreAll, VERSION, "default") /\ Gives(RestoreAll, GLOBAL, "default")
<1> DEFINE n == N_COORDINATE_SYSTEM + 2
           A == WriteGlobal("default")
           P == RestoreParameters
           L == [k \in 1..N_STARTUP_LINE |-> Clear(Startup(k - 1))]
           Z == <<Clear(BUILD)>>
           W == ((A \o P) \o L) \o Z
<1>1. n \in Nat /\ n >= 1 /\ N_STARTUP_LINE \in Nat /\ BUILD = n + 2 + N_STARTUP_LINE
  BY Layout
<1>2. A \in Seq(Writes) /\ Len(A) = 2 /\ A[1] = Put(0, "default") /\ A[2] = Record(1, "default")
  <2>1. A \in Seq(Writes)
    BY GlobalWrites, ValueType
  <2> QED
    BY <2>1, Layout DEF WriteGlobal
<1>3. P \in Seq(Writes) /\ Len(P) = n /\ \A k \in 1..n : P[k] = Record(k + 1, "default")
  BY ParameterWrites
<1>4. L \in Seq(Writes) /\ Len(L) = N_STARTUP_LINE
      /\ \A k \in 1..N_STARTUP_LINE : L[k] = Clear(n + 1 + k)
  <2>1. \A k \in 1..N_STARTUP_LINE : Startup(k - 1) = n + 1 + k /\ n + 1 + k \in Fields
    <3> TAKE k \in 1..N_STARTUP_LINE
    <3>1. k - 1 \in Int
      BY <1>1
    <3> QED
      BY <3>1, <1>1, Layout
  <2>2. \A k \in 1..N_STARTUP_LINE : Clear(n + 1 + k) \in Writes
    BY <2>1, ValueType DEF Clear, Writes
  <2>3. L \in [1..N_STARTUP_LINE -> Writes]
    BY <2>1, <2>2
  <2> QED
    BY <2>1, <2>3, <1>1
<1>5. Z \in Seq(Writes) /\ Len(Z) = 1 /\ Z[1] = Clear(BUILD)
  <2>1. Clear(BUILD) \in Writes
    BY Layout, ValueType DEF Clear, Writes
  <2> QED
    BY <2>1
<1> HIDE DEF A, P, L, Z
<1>6. A \o P \in Seq(Writes) /\ Len(A \o P) = 2 + n
      /\ \A i \in 1..2 + n : (A \o P)[i] = IF i <= 2 THEN A[i] ELSE P[i - 2]
  <2>1. A \in Seq(Writes) /\ P \in Seq(Writes)
    BY <1>2, <1>3
  <2>2. /\ A \o P \in Seq(Writes)
       /\ Len(A \o P) = Len(A) + Len(P)
       /\ \A i \in 1..Len(A) + Len(P) : (A \o P)[i] = IF i <= Len(A) THEN A[i] ELSE P[i - Len(A)]
    BY <2>1, ConcatProperties, Zenon
  <2> QED
    BY <2>2, <1>2, <1>3, <1>1
<1> DEFINE AP == A \o P
<1> HIDE DEF AP
<1>7. AP \o L \in Seq(Writes) /\ Len(AP \o L) = 2 + n + N_STARTUP_LINE
      /\ \A i \in 1..2 + n + N_STARTUP_LINE : (AP \o L)[i] = IF i <= 2 + n THEN AP[i] ELSE L[i - (2 + n)]
  <2>1. AP \in Seq(Writes) /\ L \in Seq(Writes)
    BY <1>6, <1>4 DEF AP
  <2>2. /\ AP \o L \in Seq(Writes)
       /\ Len(AP \o L) = Len(AP) + Len(L)
       /\ \A i \in 1..Len(AP) + Len(L) : (AP \o L)[i] = IF i <= Len(AP) THEN AP[i] ELSE L[i - Len(AP)]
    BY <2>1, ConcatProperties, Zenon
  <2> QED
    BY <2>2, <1>6, <1>4, <1>1 DEF AP
<1> DEFINE APL == AP \o L
<1> HIDE DEF APL
<1>8. APL \o Z \in Seq(Writes) /\ Len(APL \o Z) = BUILD + 1
      /\ \A i \in 1..BUILD + 1 : (APL \o Z)[i] = IF i <= BUILD THEN APL[i] ELSE Z[i - BUILD]
  <2>1. APL \in Seq(Writes) /\ Len(APL) = BUILD
    BY <1>1, <1>7 DEF APL
  <2> QED
    <3>1. APL \in Seq(Writes) /\ Z \in Seq(Writes)
      BY <2>1, <1>5
    <3>2. /\ APL \o Z \in Seq(Writes)
         /\ Len(APL \o Z) = Len(APL) + Len(Z)
         /\ \A i \in 1..Len(APL) + Len(Z) : (APL \o Z)[i] = IF i <= Len(APL) THEN APL[i] ELSE Z[i - Len(APL)]
      BY <3>1, ConcatProperties, Zenon
    <3> QED
      BY <3>2, <2>1, <1>5, <1>1
<1>9. W = APL \o Z /\ W = RestoreAll
  BY DEF RestoreAll, W, APL, AP, A, P, L, Z
<1> HIDE DEF W
<1>10. /\ \A i \in 1..2 + n : AP[i] = IF i <= 2 THEN A[i] ELSE P[i - 2]
       /\ \A i \in 1..2 + n + N_STARTUP_LINE : APL[i] = IF i <= 2 + n THEN AP[i] ELSE L[i - (2 + n)]
       /\ \A i \in 1..BUILD + 1 : W[i] = IF i <= BUILD THEN APL[i] ELSE Z[i - BUILD]
  <2>1. \A i \in 1..2 + n : AP[i] = IF i <= 2 THEN A[i] ELSE P[i - 2]
    BY <1>6, Zenon DEF AP
  <2>2. \A i \in 1..2 + n + N_STARTUP_LINE : APL[i] = IF i <= 2 + n THEN AP[i] ELSE L[i - (2 + n)]
    BY <1>7, Zenon DEF APL
  <2>3. \A i \in 1..BUILD + 1 : W[i] = IF i <= BUILD THEN APL[i] ELSE Z[i - BUILD]
    BY <1>8, <1>9, Zenon
  <2> QED
    BY <2>1, <2>2, <2>3
<1>11. \A i \in 1..BUILD + 1 : W[i].at = i - 1
  <2> SUFFICES ASSUME NEW i \in 1..BUILD + 1 PROVE W[i].at = i - 1
    OBVIOUS
  <2>1. CASE i \in 1..2
    <3>1. W[i] = A[i]
      BY <2>1, <1>1, <1>10
    <3> QED
      BY <3>1, <2>1, <1>2 DEF Put, Record
  <2>2. CASE i \in 3..n + 2
    <3>1. W[i] = P[i - 2] /\ i - 2 \in 1..n
      BY <2>2, <1>1, <1>10
    <3>2. W[i] = Record((i - 2) + 1, "default")
      BY <3>1, <1>3
    <3> QED
      BY <3>2, <2>2, <1>1 DEF Record
  <2>3. CASE i \in n + 3..n + 2 + N_STARTUP_LINE
    <3>1. W[i] = L[i - (2 + n)] /\ i - (2 + n) \in 1..N_STARTUP_LINE
      BY <2>3, <1>1, <1>10
    <3>2. W[i] = Clear(n + 1 + (i - (2 + n)))
      BY <3>1, <1>4
    <3> QED
      BY <3>2, <2>3, <1>1 DEF Clear
  <2>4. CASE i = BUILD + 1
    <3>1. W[i] = Z[1]
      BY <2>4, <1>1, <1>10
    <3> QED
      BY <3>1, <2>4, <1>1, <1>5 DEF Clear
  <2> QED
    BY <2>1, <2>2, <2>3, <2>4, <1>1
<1>12. W[1] = Put(0, "default") /\ W[2] = Record(1, "default")
  BY <1>1, <1>2, <1>10
<1>13. \A f \in Fields : Due(W, f)
  <2> SUFFICES ASSUME NEW f \in Fields PROVE \E k \in 1..Len(W) : W[k].at = f
    BY DEF Due
  <2>1. f + 1 \in 1..BUILD + 1 /\ (f + 1) - 1 = f
    BY Layout
  <2> QED
    BY <2>1, <1>8, <1>9, <1>11
<1>14. Gives(W, 0, "default") /\ Gives(W, 1, "default")
  BY <1>1, <1>8, <1>9, <1>11, <1>12 DEF Gives, Put, Record
<1>15. W # <<>>
  BY <1>8, <1>9, <1>1, EmptySeq
<1> QED
  BY <1>8, <1>9, <1>13, <1>14, <1>15, Layout

\* A record that is read is written anew if it is bad.
LEMMA RepairWrites ==
  ASSUME NEW g \in Fields
  PROVE  /\ Repair(g) \in Seq(Writes)
         /\ \A f : Due(Repair(g), f) <=> f = g /\ ram_cache[g] = "bad"
         /\ \A f, y : Gives(Repair(g), f, y) <=> (f = g /\ ram_cache[g] = "bad" => y = "default")
<1>1. CASE ram_cache[g] = "bad"
  <2>1. Repair(g) = <<Record(g, "default")>>
    BY <1>1 DEF Repair
  <2>2. "default" \in Contents /\ "default" # "old"
    BY ValueType
  <2> DEFINE W == <<Record(g, "default")>>
  <2>3. /\ W \in Seq(Writes)
        /\ \A f : Due(W, f) <=> f = g
        /\ \A f, y : Gives(W, f, y) <=> (f = g => y = "default")
    BY <2>2, OneWrite, Zenon
  <2> HIDE DEF W
  <2> QED
    BY <2>1, <2>3, <1>1 DEF W
<1>2. CASE ram_cache[g] # "bad"
  <2>1. Repair(g) = <<>>
    BY <1>2 DEF Repair
  <2> QED
    BY <2>1, <1>2, NoWrites
<1> QED
  BY <1>1, <1>2

-----------------------------------------------------------------------------
(* Beginning a list of writes *)

LEMMA NothingDue ==
  ASSUME Flushes, pc \in {"init", "startup", "run"}
  PROVE  /\ todo = <<>> /\ flash = ram_cache /\ programmed = 0 /\ Goal = pc
         /\ \A f : ~Due(todo, f)
<1>1. todo = <<>> /\ flash = ram_cache /\ programmed = 0
  BY DEF Flushes
<1> QED
  BY <1>1, NoWrites DEF Goal

LEMMA Begin ==
  ASSUME NEW W \in Seq(Writes), NEW next \in {"init", "startup", "run"}, Do(W, next),
         flash' = ram_cache', programmed' = 0
  PROVE  /\ Flushes'
         /\ todo' = W /\ then' = next /\ Goal' = next
         /\ pc' \in {"write", "init", "startup", "run"}
         /\ \A k \in DOMAIN todo' : todo'[k].at \in Fields /\ todo'[k].value \in Contents
<1>1. todo' = W /\ then' = next /\ pc' = IF W = <<>> THEN next ELSE "write"
  BY DEF Do
<1>2. Goal' = next /\ pc' \in {"write", "init", "startup", "run"}
  BY <1>1 DEF Goal
<1>3. Flushes'
  BY <1>1, <1>2 DEF Flushes
<1>4. \A k \in DOMAIN W : W[k] \in Writes
  OBVIOUS
<1>5. \A w \in Writes : w.at \in Fields /\ w.value \in Contents
  BY DEF Writes
<1> QED
  BY <1>1, <1>2, <1>3, <1>4, <1>5

\* What a step of the program that gives a list of writes has to see to.
LEMMA Issue ==
  ASSUME IInv, pc \in {"init", "startup", "run"},
         NEW W \in Seq(Writes), NEW next \in {"init", "startup", "run"}, Do(W, next),
         UNCHANGED <<flash, ram_cache, programmed, losses, cut>>,
         commands' \in 0..MaxCommands,
         settings' \in Contents, settings' # "bad", coord_select' \in Selects,
         coord_system' \in Contents, check' \in BOOLEAN,
         kept' = Nothing \/ (kept' = kept /\ \A f \in Fields : kept[f] # "bad" => ~Due(W, f)),
         Gives(W, VERSION, "default"), Gives(W, GLOBAL, settings'),
         Due(W, GLOBAL) \/ settings' = settings,
         next \in {"startup", "run"} =>
           /\ coord_system' # "bad"
           /\ \/ check'
              \/ /\ Gives(W, Coord(coord_select'), coord_system')
                 /\ \/ Due(W, Coord(coord_select'))
                    \/ ram_cache[Coord(coord_select')] = coord_system'
  PROVE  IInv'
<1>1. /\ todo = <<>> /\ flash = ram_cache /\ programmed = 0 /\ Goal = pc
      /\ \A f : ~Due(todo, f)
  BY NothingDue DEF IInv
<1>2. /\ Flushes'
      /\ todo' = W /\ then' = next /\ Goal' = next
      /\ pc' \in {"write", "init", "startup", "run"}
      /\ \A k \in DOMAIN todo' : todo'[k].at \in Fields /\ todo'[k].value \in Contents
  BY <1>1, Begin
<1>3. ram_cache[VERSION] = "default" /\ ram_cache[GLOBAL] = settings
  BY <1>1 DEF IInv, InUse, Owed
<1>4. Nothing \in [Fields -> Contents]
  BY ValueType DEF Nothing
<1>5. TypeOK'
  BY <1>1, <1>2, <1>4 DEF IInv, TypeOK
<1>6. InUse'
  <2>1. Owed(VERSION, "default")' /\ Owed(GLOBAL, settings)'
    BY <1>2, <1>3 DEF Owed
  <2>2. ASSUME Goal' \in {"startup", "run"}
        PROVE  coord_system' # "bad" /\ (check' \/ Owed(Coord(coord_select), coord_system)')
    BY <2>2, <1>2 DEF Owed
  <2> QED
    BY <2>1, <2>2 DEF InUse
<1>7. Keeps'
  <2>1. CASE kept' = Nothing
    BY <2>1 DEF Keeps, Nothing
  <2>2. CASE kept' = kept /\ \A f \in Fields : kept[f] # "bad" => ~Due(W, f)
    BY <2>2, <1>1, <1>2 DEF IInv, Keeps
  <2> QED
    BY <2>1, <2>2
<1>8. Wipes'
  <2> SUFFICES ASSUME ~cut' PROVE \A f \in Fields : ram_cache[f] # "old"
    BY <1>1, <1>2 DEF Wipes
  <2> QED
    BY <1>1 DEF IInv, Wipes
<1> QED
  BY <1>2, <1>5, <1>6, <1>7, <1>8 DEF IInv

-----------------------------------------------------------------------------
(* The start *)

LEMMA InitInv == Init => IInv
<1> SUFFICES ASSUME Init PROVE IInv
  OBVIOUS
<1>1. Nothing \in [Fields -> Contents] /\ \A f \in Fields : Nothing[f] = "bad"
  BY ValueType DEF Nothing
<1>2. todo = <<>> /\ todo \in Seq(Writes) /\ DOMAIN todo = {} /\ ~Due(todo, VERSION)
  <2>1. todo = <<>>
    BY DEF Init
  <2> QED
    BY <2>1, NoWrites, EmptySeq
<1>3. flash \in [Fields -> Contents] /\ flash[VERSION] = "bad"
  <2>1. VERSION \in Fields /\ "bad" \in Contents /\ "old" \in Contents
    BY Layout, ValueType
  <2>2. flash = Nothing \/ flash = [f \in Fields |-> IF f = VERSION THEN "bad" ELSE "old"]
    BY DEF Init
  <2> QED
    BY <1>1, <2>1, <2>2
<1>4. TypeOK
  <2>1. 0 \in Selects /\ 0 \in 0..MaxLosses /\ 0 \in 0..MaxCommands /\ 0 \in Fields
    BY Layout, SettingsAssumption DEF SettingsAssumption
  <2>2. "bad" \in Contents
    BY ValueType
  <2> QED
    BY <2>1, <2>2, <1>1, <1>2, <1>3 DEF Init, TypeOK
<1>5. Flushes
  BY <1>2 DEF Init, Flushes
<1>6. InUse /\ Keeps /\ Wipes
  BY <1>1, <1>3 DEF Init, InUse, Goal, Keeps, Wipes
<1> QED
  BY <1>4, <1>5, <1>6 DEF IInv

LEMMA BootInv ==
  ASSUME IInv, Boot
  PROVE  IInv'
<1>1. programmed = 0 /\ pc = "off"
  BY DEF IInv, Flushes, Boot
<1> DEFINE good == flash[VERSION] = "default" /\ flash[GLOBAL] # "bad"
           W == IF good THEN <<>> ELSE RestoreAll
<1>2. W \in Seq(Writes) /\ Do(W, "init") /\ settings' = IF good THEN flash[GLOBAL] ELSE "default"
  BY NoWrites, AllWrites DEF Boot
<1>3. /\ good => W = <<>> /\ \A f : ~Due(W, f)
      /\ ~good => W # <<>> /\ \A f \in Fields : Due(W, f)
      /\ Gives(W, VERSION, "default") /\ Gives(W, GLOBAL, settings')
  BY <1>2, NoWrites, AllWrites
<1> HIDE DEF W
<1>4. /\ Flushes'
      /\ todo' = W /\ then' = "init" /\ Goal' = "init"
      /\ pc' \in {"write", "init", "startup", "run"}
      /\ \A k \in DOMAIN todo' : todo'[k].at \in Fields /\ todo'[k].value \in Contents
  <2>1. flash' = ram_cache' /\ programmed' = 0
    BY <1>1 DEF Boot
  <2> QED
    BY <2>1, <1>2, Begin
<1>5. VERSION \in Fields /\ GLOBAL \in Fields
  BY Layout
<1>6. TypeOK'
  <2>1. settings' \in Contents /\ settings' # "bad"
    BY <1>2, <1>5, ValueType DEF IInv, TypeOK
  <2> QED
    BY <2>1, <1>4 DEF IInv, TypeOK, Boot, history
<1>7. InUse'
  <2>1. Owed(VERSION, "default")' /\ Owed(GLOBAL, settings)'
    BY <1>2, <1>3, <1>4, <1>5 DEF Owed, Boot
  <2> QED
    BY <2>1, <1>4 DEF InUse
<1>8. Keeps'
  <2>1. kept' = kept /\ ram_cache' = flash
    BY DEF Boot, history
  <2>2. \A f \in Fields : kept[f] # "bad" => good /\ flash[f] = kept[f]
    BY <1>1, <1>5 DEF IInv, Keeps, Nothing
  <2> QED
    BY <2>1, <2>2, <1>3, <1>4 DEF IInv, Keeps
<1>9. Wipes'
  <2> SUFFICES ASSUME ~cut' PROVE good => \A f \in Fields : flash[f] # "old"
    BY <1>3, <1>4 DEF Wipes, Boot
  <2> QED
    BY <1>1 DEF IInv, Wipes, Boot, history
<1> QED
  BY <1>4, <1>6, <1>7, <1>8, <1>9 DEF IInv

LEMMA GcInitInv ==
  ASSUME IInv, GcInit
  PROVE  IInv'
<1> DEFINE W == Repair(Coord(0))
<1>1. Coord(0) \in Fields /\ Coord(0) # VERSION /\ Coord(0) # GLOBAL /\ 0 \in Selects
  BY Layout
<1>2. /\ W \in Seq(Writes)
      /\ \A f : Due(W, f) <=> f = Coord(0) /\ ram_cache[Coord(0)] = "bad"
      /\ \A f, y : Gives(W, f, y) <=> (f = Coord(0) /\ ram_cache[Coord(0)] = "bad" => y = "default")
  BY <1>1, RepairWrites
<1>3. Do(W, "startup") /\ pc = "init"
  BY DEF GcInit
<1> HIDE DEF W
<1>4. coord_system' = IF ram_cache[Coord(0)] = "bad" THEN "default" ELSE ram_cache[Coord(0)]
  BY DEF GcInit, Found
<1>5. coord_select' = 0 /\ check' = FALSE /\ settings' = settings /\ kept' = kept
      /\ UNCHANGED <<flash, ram_cache, programmed, losses, cut, commands>>
  BY DEF GcInit, history
<1>6. \A f \in Fields : kept[f] # "bad" => ~Due(W, f)
  BY <1>2, <1>3 DEF IInv, Keeps
<1>7. coord_system' \in Contents /\ coord_system' # "bad"
  BY <1>1, <1>4, ValueType DEF IInv, TypeOK
<1>8. /\ settings' \in Contents /\ settings' # "bad" /\ coord_select' \in Selects
      /\ check' \in BOOLEAN /\ commands' \in 0..MaxCommands
  BY <1>1, <1>3, <1>5 DEF IInv, TypeOK
<1>9. Gives(W, VERSION, "default") /\ Gives(W, GLOBAL, settings')
  BY <1>1, <1>2
<1>10. /\ Gives(W, Coord(coord_select'), coord_system')
       /\ Due(W, Coord(coord_select')) \/ ram_cache[Coord(coord_select')] = coord_system'
  BY <1>2, <1>4, <1>5
<1> QED
  BY <1>2, <1>3, <1>5, <1>6, <1>7, <1>8, <1>9, <1>10, Issue

\* What is in use of the coordinate systems, at startup and at a command.
LEMMA Loaded ==
  ASSUME IInv, pc \in {"startup", "run"}
  PROVE  /\ settings \in Contents /\ settings # "bad" /\ coord_select \in Selects
         /\ coord_system \in Contents /\ check \in BOOLEAN /\ commands \in 0..MaxCommands
         /\ coord_system # "bad"
         /\ check \/ ram_cache[Coord(coord_select)] = coord_system
<1>1. todo = <<>> /\ Goal = pc /\ \A f : ~Due(todo, f)
  BY NothingDue DEF IInv
<1> QED
  BY <1>1 DEF IInv, TypeOK, InUse, Owed

LEMMA ExecuteStartupInv ==
  ASSUME IInv, ExecuteStartup
  PROVE  IInv'
<1> DEFINE a == Repair(Startup(0))
           b == Repair(Startup(1))
<1>1. pc = "startup" /\ settings' = settings /\ coord_select' = coord_select
      /\ coord_system' = coord_system /\ check' = check /\ kept' = kept /\ commands' = commands
      /\ UNCHANGED <<flash, ram_cache, programmed, losses, cut>>
  BY DEF ExecuteStartup, ramVars, history
<1>2. Coord(coord_select) \notin {Startup(0), Startup(1)} /\ Startup(0) \in Fields
      /\ VERSION \notin {Startup(0), Startup(1)} /\ GLOBAL \notin {Startup(0), Startup(1)}
  BY <1>1, Loaded, Layout
<1>3. N_STARTUP_LINE = 2 => Startup(1) \in Fields
  BY Layout
\* It is enough to write nothing but startup lines, and those only if they are bad.
<1>4. ASSUME NEW W \in Seq(Writes), Do(W, "run"),
             \A f : Due(W, f) => f \in {Startup(0), Startup(1)} /\ ram_cache[f] = "bad"
      PROVE  IInv'
  <2>1. \A f, y : ~Due(W, f) => Gives(W, f, y)
    BY DEF Due, Gives
  <2>2. \A f \in Fields : kept[f] # "bad" => ~Due(W, f)
    BY <1>1, <1>4 DEF IInv, Keeps
  <2>3. Gives(W, VERSION, "default") /\ Gives(W, GLOBAL, settings')
        /\ Gives(W, Coord(coord_select'), coord_system')
    BY <1>1, <1>2, <1>4, <2>1
  <2> QED
    BY <1>1, <1>4, <2>2, <2>3, Loaded, Issue
<1>5. /\ a \in Seq(Writes)
      /\ \A f : Due(a, f) <=> f = Startup(0) /\ ram_cache[Startup(0)] = "bad"
  BY <1>2, RepairWrites
<1>6. CASE Do(<<>>, "run")
  BY <1>4, <1>6, NoWrites
<1>7. CASE N_STARTUP_LINE = 1 /\ Do(a \o <<>>, "run")
  <2>1. a \o <<>> = a
    BY <1>5, ConcatEmptySeq
  <2> HIDE DEF a
  <2>2. Do(a, "run")
    BY <2>1, <1>7
  <2> QED
    BY <1>4, <1>5, <2>2
<1>8. CASE N_STARTUP_LINE = 2 /\ Do(a \o b, "run")
  <2>1. /\ b \in Seq(Writes)
        /\ \A f : Due(b, f) <=> f = Startup(1) /\ ram_cache[Startup(1)] = "bad"
    BY <1>3, <1>8, RepairWrites
  <2> HIDE DEF a, b
  <2>2. /\ a \o b \in Seq(Writes)
        /\ Len(a \o b) = Len(a) + Len(b)
        /\ \A i \in 1..Len(a) + Len(b) : (a \o b)[i] = IF i <= Len(a) THEN a[i] ELSE b[i - Len(a)]
    BY <1>5, <2>1, ConcatProperties, Zenon
  <2> DEFINE W == a \o b
  <2>3. W \in Seq(Writes) /\ Do(W, "run")
    BY <1>8, <2>2, Zenon
  <2>4. Len(W) = Len(a) + Len(b)
        /\ \A i \in 1..Len(a) + Len(b) : W[i] = IF i <= Len(a) THEN a[i] ELSE b[i - Len(a)]
    BY <2>2, Zenon
  <2> HIDE DEF W
  <2>5. ASSUME NEW f, Due(W, f) PROVE Due(a, f) \/ Due(b, f)
    <3>1. PICK i \in 1..Len(W) : W[i].at = f
      BY <2>5 DEF Due
    <3>2. Len(a) \in Nat /\ Len(b) \in Nat
      BY <1>5, <2>1
    <3>3. CASE i <= Len(a)
      BY <3>1, <3>2, <3>3, <2>4 DEF Due
    <3>4. CASE i > Len(a)
      <4>1. i - Len(a) \in 1..Len(b) /\ W[i] = b[i - Len(a)]
        BY <3>1, <3>2, <3>4, <2>4
      <4> QED
        BY <3>1, <4>1 DEF Due
    <3> QED
      BY <3>1, <3>2, <3>3, <3>4
  <2> QED
    BY <1>4, <1>5, <2>1, <2>3, <2>5
<1> QED
  BY <1>6, <1>7, <1>8, Layout DEF ExecuteStartup

-----------------------------------------------------------------------------
(* The writes *)

\* One write is done, or was not needed.
LEMMA OneDone ==
  ASSUME IInv, todo # <<>>, Done
  PROVE  /\ todo' \in Seq(Writes) /\ then' = then /\ Goal = then /\ Goal' = then
         /\ pc' \in {"write", "init", "startup", "run"}
         /\ pc' = "write" <=> todo' # <<>>
         /\ then \in {"init", "startup", "run"}
         /\ todo[1] \in Writes /\ Head(todo) = todo[1]
         /\ \A f : Due(todo, f) <=> Due(todo', f) \/ todo[1].at = f
         /\ \A f, x : Gives(todo, f, x) =>
              /\ Gives(todo', f, x)
              /\ todo[1].at = f => todo[1].value = x /\ todo[1].op # "clear"
         /\ \A k \in DOMAIN todo' : todo'[k].at \in Fields /\ todo'[k].value \in Contents
<1> DEFINE T == Tail(todo)
<1>1. todo \in Seq(Writes) /\ then \in {"init", "startup", "run"} /\ pc \in {"write", "erase", "program"}
  BY DEF IInv, Flushes
<1>2. /\ T \in Seq(Writes) /\ Len(T) = Len(todo) - 1 /\ Len(todo) \in Nat /\ Len(todo) >= 1
      /\ Head(todo) = todo[1] /\ todo[1] \in Writes
      /\ \A i \in 1..Len(todo) - 1 : T[i] = todo[i + 1]
  <2>1. Len(todo) \in Nat /\ Len(todo) # 0
    BY <1>1, EmptySeq
  <2>2. T \in Seq(Writes) /\ Len(T) = Len(todo) - 1 /\ \A i \in 1..Len(T) : T[i] = todo[i + 1]
    BY <1>1, HeadTailProperties
  <2>3. Head(todo) = todo[1] /\ todo[1] \in Writes
    BY <1>1, <2>1
  <2> QED
    BY <2>1, <2>2, <2>3
<1>3. todo' = T /\ then' = then /\ pc' = IF Len(todo) = 1 THEN then ELSE "write"
  BY DEF Done
<1> HIDE DEF T
<1>4. T = <<>> <=> Len(todo) = 1
  BY <1>2, EmptySeq
<1>5. \A f : Due(todo, f) <=> Due(T, f) \/ todo[1].at = f
  <2> TAKE f
  <2>1. ASSUME NEW k \in 1..Len(todo), todo[k].at = f PROVE Due(T, f) \/ todo[1].at = f
    <3>1. CASE k = 1
      BY <2>1, <3>1
    <3>2. CASE k # 1
      <4>1. k - 1 \in 1..Len(T) /\ T[k - 1] = todo[k]
        BY <1>2, <3>2
      <4> QED
        BY <2>1, <4>1 DEF Due
    <3> QED
      BY <3>1, <3>2
  <2>2. ASSUME NEW k \in 1..Len(T), T[k].at = f PROVE Due(todo, f)
    <3>1. k + 1 \in 1..Len(todo) /\ T[k] = todo[k + 1]
      BY <1>2
    <3> QED
      BY <2>2, <3>1 DEF Due
  <2>3. todo[1].at = f => Due(todo, f)
    BY <1>2 DEF Due
  <2> QED
    BY <2>1, <2>2, <2>3 DEF Due
<1>6. ASSUME NEW f, NEW x, Gives(todo, f, x)
      PROVE  /\ Gives(T, f, x)
             /\ todo[1].at = f => todo[1].value = x /\ todo[1].op # "clear"
  <2>1. \A k \in 1..Len(T) : k + 1 \in 1..Len(todo) /\ T[k] = todo[k + 1]
    BY <1>2
  <2> QED
    BY <1>2, <1>6, <2>1 DEF Gives
<1>7. \A k \in DOMAIN T : T[k].at \in Fields /\ T[k].value \in Contents
  <2>1. \A k \in DOMAIN T : T[k] \in Writes
    BY <1>2
  <2> QED
    BY <2>1 DEF Writes
<1>8. Goal = then /\ Goal' = then
  BY <1>1, <1>3 DEF Goal
<1> QED
  BY <1>1, <1>2, <1>3, <1>4, <1>5, <1>6, <1>7, <1>8

LEMMA SkipInv ==
  ASSUME IInv, Skip
  PROVE  IInv'
<1>1. pc = "write" /\ Skips(Head(todo)) /\ Done /\ todo # <<>>
  BY DEF Skip, IInv, Flushes
<1>2. /\ todo' \in Seq(Writes) /\ then' = then /\ Goal = then /\ Goal' = then
      /\ pc' \in {"write", "init", "startup", "run"}
      /\ pc' = "write" <=> todo' # <<>>
      /\ then \in {"init", "startup", "run"}
      /\ todo[1] \in Writes /\ Head(todo) = todo[1]
      /\ \A f : Due(todo, f) <=> Due(todo', f) \/ todo[1].at = f
      /\ \A f, x : Gives(todo, f, x) =>
           /\ Gives(todo', f, x)
           /\ todo[1].at = f => todo[1].value = x /\ todo[1].op # "clear"
      /\ \A k \in DOMAIN todo' : todo'[k].at \in Fields /\ todo'[k].value \in Contents
  BY <1>1, OneDone
<1>3. UNCHANGED <<flash, ram_cache, settings, coord_select, coord_system, check, programmed,
                  losses, commands, kept, cut>>
  BY DEF Skip, ramVars, history
<1>4. flash = ram_cache /\ programmed = 0
  BY <1>1 DEF IInv, Flushes
<1>5. /\ todo[1].op # "clear" => ram_cache[todo[1].at] = todo[1].value
      /\ ram_cache[todo[1].at] # "old"
  <2>1. todo[1].value # "old"
    BY <1>2 DEF Writes
  <2> QED
    BY <1>1, <1>2, <2>1 DEF Skips
<1>6. TypeOK'
  BY <1>1, <1>2, <1>3 DEF IInv, TypeOK
<1>7. Flushes'
  BY <1>2, <1>3, <1>4 DEF Flushes
<1>8. \A f, x : Owed(f, x) => Owed(f, x)'
  BY <1>2, <1>3, <1>5 DEF Owed
<1>9. InUse'
  BY <1>1, <1>2, <1>3, <1>8 DEF IInv, InUse
<1>10. Keeps'
  BY <1>1, <1>2, <1>3 DEF IInv, Keeps
<1>11. Wipes'
  <2> SUFFICES ASSUME ~cut'
               PROVE  /\ \A f \in Fields : ram_cache[f] = "old" => Due(todo', f) /\ then = "init"
                      /\ (todo' = <<>> \/ then # "init") => \A f \in Fields : flash[f] # "old"
    BY <1>2, <1>3 DEF Wipes
  <2>1. \A f \in Fields : ram_cache[f] = "old" => Due(todo', f) /\ then = "init"
    BY <1>1, <1>2, <1>3, <1>5 DEF IInv, Wipes
  <2>2. todo' = <<>> => \A f : ~Due(todo', f)
    BY NoWrites
  <2> QED
    BY <2>1, <2>2, <1>4
<1> QED
  BY <1>6, <1>7, <1>9, <1>10, <1>11 DEF IInv

LEMMA WriteInv ==
  ASSUME IInv, Write
  PROVE  IInv'
<1> DEFINE w == todo[1]
<1>1. /\ pc = "write" /\ todo # <<>> /\ todo \in Seq(Writes) /\ Goal = then
      /\ programmed = 0 /\ flash = ram_cache
  BY DEF Write, IInv, Flushes, Goal
<1>2. Len(todo) \in Nat /\ Len(todo) >= 1 /\ Head(todo) = w /\ w \in Writes
  <2>1. Len(todo) \in Nat /\ Len(todo) # 0
    BY <1>1, EmptySeq
  <2> QED
    BY <1>1, <2>1
<1>3. w.at \in Fields /\ w.value \in Contents /\ w.value # "old"
  BY <1>2 DEF Writes
<1>4. /\ ram_cache' = [ram_cache EXCEPT ![w.at] = w.value] /\ pc' = "erase"
      /\ UNCHANGED <<flash, settings, coord_select, coord_system, check, todo, then, programmed,
                     losses, commands, kept, cut>>
  BY <1>2, Zenon DEF Write, ramVars, history
<1> HIDE DEF w
<1>5. ram_cache \in [Fields -> Contents]
  BY DEF IInv, TypeOK
<1>6. /\ ram_cache' \in [Fields -> Contents] /\ ram_cache'[w.at] = w.value
      /\ \A f \in Fields : f # w.at => ram_cache'[f] = ram_cache[f]
  BY <1>3, <1>4, <1>5
<1>7. TypeOK'
  BY <1>1, <1>4, <1>6 DEF IInv, TypeOK
<1>8. Flushes'
  BY <1>1, <1>4, <1>6 DEF IInv, Flushes, w
<1>9. Due(todo, w.at) /\ \A x : Gives(todo, w.at, x) => w.value = x
  BY <1>2 DEF Due, Gives, w
<1>10. \A f \in Fields : \A x : Owed(f, x) => Owed(f, x)'
  BY <1>4, <1>6, <1>9 DEF Owed
<1>11. VERSION \in Fields /\ GLOBAL \in Fields /\ Coord(coord_select) \in Fields
  BY Layout DEF IInv, TypeOK
<1>12. InUse'
  <2>1. Goal' = Goal
    BY <1>1, <1>4 DEF Goal
  <2> QED
    BY <1>1, <1>4, <1>10, <1>11, <2>1 DEF IInv, InUse
<1>13. Keeps'
  BY <1>1, <1>4, <1>6, <1>9 DEF IInv, Keeps
<1>14. Wipes'
  <2>1. Goal' = Goal
    BY <1>1, <1>4 DEF Goal
  <2> QED
    BY <1>1, <1>3, <1>4, <1>6, <2>1 DEF IInv, Wipes
<1> QED
  BY <1>7, <1>8, <1>12, <1>13, <1>14 DEF IInv

LEMMA EraseInv ==
  ASSUME IInv, Erase
  PROVE  IInv'
<1>1. /\ pc = "erase" /\ pc' = "program" /\ flash' = Nothing
      /\ UNCHANGED <<ram_cache, settings, coord_select, coord_system, check, todo, then,
                     programmed, losses, commands, kept, cut>>
  BY DEF Erase, ramVars, history
<1>2. flash' \in [Fields -> Contents] /\ \A f \in Fields : flash'[f] = "bad"
  BY <1>1, ValueType DEF Nothing
<1>3. Goal' = Goal
  BY <1>1 DEF Goal
<1>4. programmed = 0 /\ todo # <<>>
  BY <1>1 DEF IInv, Flushes
<1>5. TypeOK'
  BY <1>1, <1>2 DEF IInv, TypeOK
<1>6. Flushes'
  <2>1. \A f \in Fields : ~(f < programmed')
    BY <1>1, <1>4, Layout
  <2> QED
    BY <1>1, <1>2, <2>1 DEF IInv, Flushes
<1>7. InUse'
  BY <1>1, <1>3 DEF IInv, InUse, Owed
<1>8. Keeps'
  BY <1>1 DEF IInv, Keeps
<1>9. Wipes'
  BY <1>1, <1>2, <1>3 DEF IInv, Wipes
<1> QED
  BY <1>5, <1>6, <1>7, <1>8, <1>9 DEF IInv

LEMMA ProgramInv ==
  ASSUME IInv, Program
  PROVE  IInv'
<1>1. /\ pc = "program" /\ flash' = [flash EXCEPT ![programmed] = ram_cache[programmed]]
      /\ UNCHANGED <<ram_cache, settings, coord_select, coord_system, check, losses, commands,
                     kept, cut>>
  BY DEF Program, ramVars, history
<1>2. /\ programmed \in Fields /\ flash \in [Fields -> Contents] /\ ram_cache \in [Fields -> Contents]
      /\ todo # <<>> /\ Goal = then
      /\ \A f \in Fields : IF f < programmed THEN flash[f] = ram_cache[f] ELSE flash[f] = "bad"
  BY <1>1 DEF IInv, TypeOK, Flushes, Goal
<1>3. BUILD \in Nat /\ Fields = 0..BUILD
  BY Layout DEF Fields
<1>4. /\ flash' \in [Fields -> Contents] /\ flash'[programmed] = ram_cache[programmed]
      /\ \A f \in Fields : f # programmed => flash'[f] = flash[f]
  BY <1>1, <1>2
<1>5. CASE programmed # BUILD
  <2>1. programmed' = programmed + 1 /\ UNCHANGED <<pc, todo, then>> /\ Goal' = Goal
    BY <1>5 DEF Program, Goal
  <2>2. programmed' \in Fields
    BY <1>2, <1>5, <1>3, <2>1
  <2>3. TypeOK'
    BY <1>1, <1>4, <2>1, <2>2 DEF IInv, TypeOK
  <2>4. \A f \in Fields : IF f < programmed' THEN flash'[f] = ram_cache[f] ELSE flash'[f] = "bad"
    BY <1>2, <1>4, <1>3, <2>1
  <2>5. Flushes'
    BY <1>1, <2>1, <2>4 DEF IInv, Flushes
  <2>6. InUse' /\ Keeps'
    BY <1>1, <2>1 DEF IInv, InUse, Owed, Keeps
  <2>7. Wipes'
    <3>1. ~cut /\ then # "init" => \A f \in Fields : flash'[f] # "old"
      BY <1>1, <1>2, <2>4 DEF IInv, Wipes
    <3> QED
      BY <1>1, <1>2, <2>1, <3>1 DEF IInv, Wipes
  <2> QED
    BY <2>3, <2>5, <2>6, <2>7 DEF IInv
<1>6. CASE programmed = BUILD
  <2>1. programmed' = 0 /\ Done
    BY <1>6 DEF Program
  <2>2. /\ todo' \in Seq(Writes) /\ then' = then /\ Goal' = then
        /\ pc' \in {"write", "init", "startup", "run"}
        /\ pc' = "write" <=> todo' # <<>>
        /\ then \in {"init", "startup", "run"}
        /\ todo[1] \in Writes
        /\ \A f : Due(todo, f) <=> Due(todo', f) \/ todo[1].at = f
        /\ \A f, x : Gives(todo, f, x) =>
             /\ Gives(todo', f, x)
             /\ todo[1].at = f => todo[1].value = x /\ todo[1].op # "clear"
        /\ \A k \in DOMAIN todo' : todo'[k].at \in Fields /\ todo'[k].value \in Contents
    BY <1>2, <2>1, OneDone
  <2>3. flash' = ram_cache
    <3>1. \A f \in Fields : flash'[f] = ram_cache[f]
      BY <1>2, <1>4, <1>6, <1>3
    <3> QED
      BY <1>2, <1>4, <3>1
  <2>4. ram_cache[todo[1].at] = todo[1].value /\ todo[1].value # "old"
    BY <1>1, <2>2 DEF IInv, Flushes, Writes
  <2>5. TypeOK'
    <3>1. 0 \in Fields
      BY Layout
    <3> QED
      BY <1>1, <1>4, <2>1, <2>2, <3>1 DEF IInv, TypeOK
  <2>6. Flushes'
    BY <1>1, <2>1, <2>2, <2>3 DEF Flushes
  <2>7. \A f, x : Owed(f, x) => Owed(f, x)'
    BY <1>1, <2>2, <2>4 DEF Owed
  <2>8. InUse'
    BY <1>1, <1>2, <2>2, <2>7 DEF IInv, InUse
  <2>9. Keeps'
    BY <1>1, <2>2 DEF IInv, Keeps
  <2>10. Wipes'
    <3> SUFFICES ASSUME ~cut'
                 PROVE  /\ \A f \in Fields : ram_cache[f] = "old" => Due(todo', f) /\ then = "init"
                        /\ (todo' = <<>> \/ then # "init") => \A f \in Fields : ram_cache[f] # "old"
      BY <1>1, <2>2, <2>3 DEF Wipes
    <3>1. \A f \in Fields : ram_cache[f] = "old" => Due(todo', f) /\ then = "init"
      BY <1>1, <1>2, <2>2, <2>4 DEF IInv, Wipes
    <3>2. todo' = <<>> => \A f : ~Due(todo', f)
      BY NoWrites
    <3> QED
      BY <3>1, <3>2
  <2> QED
    BY <2>5, <2>6, <2>8, <2>9, <2>10 DEF IInv
<1> QED
  BY <1>5, <1>6

LEMMA PowerLossInv ==
  ASSUME IInv, PowerLoss
  PROVE  IInv'
<1>1. /\ pc # "off" /\ pc' = "off" /\ todo' = <<>> /\ then' = "off" /\ programmed' = 0
      /\ losses' = losses + 1 /\ losses < MaxLosses /\ commands' = commands
      /\ ram_cache' = Nothing /\ settings' = "bad"
      /\ coord_select' = 0 /\ coord_system' = "bad" /\ check' = FALSE
      /\ flash' \in Torn
      /\ kept' = CASE pc \in {"erase", "program"} -> Nothing
                   [] pc = "run" -> ram_cache
                   [] OTHER -> kept
      /\ cut' = (cut \/ (todo # <<>> /\ then = "init"))
  BY DEF PowerLoss
<1>2. /\ flash \in [Fields -> Contents] /\ ram_cache \in [Fields -> Contents]
      /\ kept \in [Fields -> Contents] /\ cut \in BOOLEAN /\ losses \in 0..MaxLosses
      /\ commands \in 0..MaxCommands /\ MaxLosses \in Nat
  BY SettingsAssumption DEF IInv, TypeOK, SettingsAssumption
<1>3. "bad" \in Contents /\ Nothing \in [Fields -> Contents] /\ \A f \in Fields : Nothing[f] = "bad"
  BY ValueType DEF Nothing
<1>4. flash' \in [Fields -> Contents] /\ \A f \in Fields : flash'[f] = flash[f] \/ flash'[f] = "bad"
  <2>1. CASE pc = "erase"
    <3>1. PICK lost : flash' = [f \in Fields |-> IF f \in lost THEN "bad" ELSE flash[f]]
      BY <1>1, <2>1 DEF Torn
    <3> QED
      BY <1>2, <1>3, <3>1
  <2>2. CASE pc # "erase"
    BY <1>1, <1>2, <2>2 DEF Torn
  <2> QED
    BY <2>1, <2>2
<1>5. pc # "erase" => flash' = flash
  BY <1>1 DEF Torn
<1>6. TypeOK'
  <2>1. 0 \in Selects /\ 0 \in Fields
    BY Layout
  <2>2. kept' \in [Fields -> Contents] /\ cut' \in BOOLEAN /\ losses' \in 0..MaxLosses
    BY <1>1, <1>2, <1>3
  <2>3. DOMAIN todo' = {}
    BY <1>1
  <2> QED
    BY <1>1, <1>2, <1>3, <1>4, <2>1, <2>2, <2>3 DEF TypeOK
<1>7. Flushes'
  BY <1>1, NoWrites DEF Flushes
<1>8. InUse'
  BY <1>1 DEF InUse, Goal
<1>9. Keeps'
  <2>1. CASE pc \in {"erase", "program"}
    BY <1>1, <1>3, <2>1 DEF Keeps
  <2>2. CASE pc = "run"
    <3>1. todo = <<>> /\ flash = ram_cache /\ \A f : ~Due(todo, f)
      BY <2>2, NothingDue DEF IInv
    <3>2. ram_cache[VERSION] = "default" /\ ram_cache[GLOBAL] # "bad"
      BY <1>1, <2>2, <3>1 DEF IInv, InUse, Owed, TypeOK
    <3>3. kept' = ram_cache /\ flash' = ram_cache
      BY <1>1, <1>5, <2>2, <3>1
    <3> QED
      BY <1>1, <3>2, <3>3 DEF Keeps
  <2>3. CASE pc \in {"write", "init", "startup"}
    <3>1. kept' = kept /\ flash' = ram_cache
      BY <1>1, <1>5, <2>3 DEF IInv, Flushes
    <3> QED
      BY <1>1, <3>1 DEF IInv, Keeps
  <2> QED
    BY <1>1, <2>1, <2>2, <2>3 DEF IInv, TypeOK
<1>10. Wipes'
  <2> SUFFICES ASSUME ~cut' PROVE \A f \in Fields : flash'[f] # "old"
    BY <1>1 DEF Wipes
  <2>1. \A f \in Fields : flash[f] # "old"
    BY <1>1, <1>2 DEF IInv, Wipes
  <2> QED
    BY <1>4, <2>1
<1> QED
  BY <1>6, <1>7, <1>8, <1>9, <1>10 DEF IInv

-----------------------------------------------------------------------------
(* The commands *)

\* A command that leaves what is in use as it is.
LEMMA CommandInv ==
  ASSUME IInv, Command, UNCHANGED ramVars,
         NEW W \in Seq(Writes), Do(W, "run"),
         Gives(W, VERSION, "default"), Gives(W, GLOBAL, settings),
         check \/ (Gives(W, Coord(coord_select), coord_system))
  PROVE  IInv'
<1>1. pc = "run" /\ commands' = commands + 1 /\ commands < MaxCommands /\ kept' = Nothing
      /\ UNCHANGED <<flash, ram_cache, programmed, losses, cut>>
  BY DEF Command
<1>2. commands' \in 0..MaxCommands
  BY <1>1, Loaded, SettingsAssumption DEF SettingsAssumption
<1> QED
  BY <1>1, <1>2, Loaded, Issue DEF ramVars

LEMMA StoreGlobalInv ==
  ASSUME IInv, NEW x \in Values, StoreGlobal(x)
  PROVE  IInv'
<1> DEFINE W == WriteGlobal(x)
<1>1. pc = "run" /\ commands' = commands + 1 /\ commands < MaxCommands /\ kept' = Nothing
      /\ UNCHANGED <<flash, ram_cache, programmed, losses, cut, coord_select, coord_system, check>>
      /\ settings' = x /\ Do(W, "run")
  BY DEF StoreGlobal, Command
<1>2. commands' \in 0..MaxCommands
  BY <1>1, Loaded, SettingsAssumption DEF SettingsAssumption
<1>3. x \in Contents /\ x # "old" /\ x # "bad"
  BY ValueType
<1>4. /\ W \in Seq(Writes)
      /\ \A f : Due(W, f) <=> f \in {VERSION, GLOBAL}
      /\ \A f, y : Gives(W, f, y) <=> (f = VERSION => y = "default") /\ (f = GLOBAL => y = x)
  BY <1>3, GlobalWrites
<1> HIDE DEF W
<1>5. Coord(coord_select) # VERSION /\ Coord(coord_select) # GLOBAL /\ VERSION # GLOBAL
  BY <1>1, Loaded, Layout
<1>6. Gives(W, VERSION, "default") /\ Gives(W, GLOBAL, x) /\ Due(W, GLOBAL)
      /\ Gives(W, Coord(coord_select), coord_system)
  BY <1>4, <1>5
<1> QED
  BY <1>1, <1>2, <1>3, <1>4, <1>6, Loaded, Issue

LEMMA StoreRecordInv ==
  ASSUME IInv, Command, UNCHANGED ramVars, NEW f \in Fields, NEW x \in Values,
         f \notin {VERSION, GLOBAL, Coord(coord_select)},
         Do(<<Record(f, x)>>, "run")
  PROVE  IInv'
<1> DEFINE W == <<Record(f, x)>>
<1>1. /\ W \in Seq(Writes)
      /\ \A g, y : Gives(W, g, y) <=> (g = f => y = x)
  BY ValueType, OneWrite, Zenon
<1>2. Do(W, "run")
  OBVIOUS
<1> HIDE DEF W
<1> QED
  BY <1>1, <1>2, CommandInv

LEMMA StoreLineInv ==
  ASSUME IInv, NEW x \in Values, NEW f \in Startup(0)..BUILD, StoreLine(f, x)
  PROVE  IInv'
<1>1. Command /\ UNCHANGED ramVars /\ Do(<<Record(f, x)>>, "run") /\ pc = "run"
  BY DEF StoreLine, Command
<1>2. f \in Fields /\ f \notin {VERSION, GLOBAL, Coord(coord_select)}
  BY <1>1, Loaded, Layout
<1> QED
  BY <1>1, <1>2, StoreRecordInv

LEMMA SetHomeInv ==
  ASSUME IInv, NEW x \in Values, NEW select \in N_COORDINATE_SYSTEM..SETTING_INDEX_NCOORD,
         SetHome(select, x)
  PROVE  IInv'
<1>1. Command /\ UNCHANGED ramVars /\ Do(<<Record(Coord(select), x)>>, "run") /\ pc = "run"
  BY DEF SetHome, Command
<1>2. Coord(select) \in Fields /\ Coord(select) \notin {VERSION, GLOBAL, Coord(coord_select)}
  BY <1>1, Loaded, Layout
<1> QED
  BY <1>1, <1>2, StoreRecordInv

\* A repair does not touch a record that is in use: it is whole.
LEMMA RepairInv ==
  ASSUME IInv, pc = "run", NEW f \in Coord(0)..BUILD
  PROVE  /\ f \in Fields /\ Repair(f) \in Seq(Writes)
         /\ Gives(Repair(f), VERSION, "default") /\ Gives(Repair(f), GLOBAL, settings)
         /\ check \/ Gives(Repair(f), Coord(coord_select), coord_system)
         /\ Due(Repair(f), f) \/ ram_cache[f] = Found(f)
         /\ Gives(Repair(f), f, Found(f))
<1>1. f \in Fields /\ f # VERSION /\ f # GLOBAL
  BY Layout
<1>2. /\ Repair(f) \in Seq(Writes)
      /\ \A g : Due(Repair(f), g) <=> g = f /\ ram_cache[f] = "bad"
      /\ \A g, y : Gives(Repair(f), g, y) <=> (g = f /\ ram_cache[f] = "bad" => y = "default")
  BY <1>1, RepairWrites
<1> QED
  BY <1>1, <1>2, Loaded DEF Found

LEMMA ReadRecordInv ==
  ASSUME IInv, NEW f \in Coord(0)..BUILD, ReadRecord(f)
  PROVE  IInv'
<1>1. Command /\ UNCHANGED ramVars /\ Do(Repair(f), "run") /\ pc = "run"
  BY DEF ReadRecord, Command
<1> QED
  BY <1>1, RepairInv, CommandInv

LEMMA SetCoordinateDataInv ==
  ASSUME IInv, NEW x \in Values, NEW select \in Selects, SetCoordinateData(select, x)
  PROVE  IInv'
<1> DEFINE f == Coord(select)
           W == <<Record(f, x)>>
<1>1. pc = "run" /\ commands' = commands + 1 /\ commands < MaxCommands /\ kept' = Nothing
      /\ UNCHANGED <<flash, ram_cache, programmed, losses, cut, settings, coord_select, check>>
      /\ Command
      /\ coord_system' = IF ram_cache[f] # "bad" /\ select = coord_select THEN x ELSE coord_system
  BY DEF SetCoordinateData, Command
<1>2. commands' \in 0..MaxCommands
  BY <1>1, Loaded, SettingsAssumption DEF SettingsAssumption
<1>3. f \in Fields /\ f \in Coord(0)..BUILD /\ f # VERSION /\ f # GLOBAL
      /\ (f = Coord(coord_select) <=> select = coord_select)
  BY <1>1, Loaded, Layout
<1>4. CASE ram_cache[f] = "bad"
  <2>1. Do(Repair(f), "run") /\ UNCHANGED ramVars
    BY <1>1, <1>4 DEF SetCoordinateData, ramVars
  <2> QED
    BY <1>1, <1>3, <2>1, RepairInv, CommandInv
<1>5. CASE ram_cache[f] # "bad"
  <2>1. Do(W, "run")
    BY <1>5 DEF SetCoordinateData
  <2>2. x \in Contents /\ x # "old" /\ x # "bad"
    BY ValueType
  <2>3. /\ W \in Seq(Writes)
        /\ \A g : Due(W, g) <=> g = f
        /\ \A g, y : Gives(W, g, y) <=> (g = f => y = x)
    BY <1>3, <2>2, OneWrite, Zenon
  <2> HIDE DEF W, f
  <2>4. Gives(W, VERSION, "default") /\ Gives(W, GLOBAL, settings)
    BY <1>3, <2>3
  <2>5. coord_system' \in Contents /\ coord_system' # "bad"
    BY <1>1, <2>2, Loaded
  <2>6. Gives(W, Coord(coord_select), coord_system')
    BY <1>1, <1>3, <1>5, <2>3
  <2>7. Due(W, Coord(coord_select)) \/ check \/ ram_cache[Coord(coord_select)] = coord_system'
    BY <1>1, <1>3, <2>3, Loaded
  <2> QED
    BY <1>1, <1>2, <2>1, <2>3, <2>4, <2>5, <2>6, <2>7, Loaded, Issue
<1> QED
  BY <1>4, <1>5

LEMMA SelectSystemInv ==
  ASSUME IInv, NEW select \in Selects, SelectSystem(select)
  PROVE  IInv'
<1> DEFINE f == Coord(select)
<1>1. pc = "run" /\ commands' = commands + 1 /\ commands < MaxCommands /\ kept' = Nothing
      /\ UNCHANGED <<flash, ram_cache, programmed, losses, cut, settings, check>>
      /\ Command /\ Do(Repair(f), "run")
      /\ IF ram_cache[f] = "bad" THEN UNCHANGED <<coord_select, coord_system>>
         ELSE coord_select' = select /\ coord_system' = ram_cache[f]
  BY DEF SelectSystem, Command
<1>2. commands' \in 0..MaxCommands
  BY <1>1, Loaded, SettingsAssumption DEF SettingsAssumption
<1>3. f \in Fields /\ f \in Coord(0)..BUILD
  BY Layout
<1>4. CASE ram_cache[f] = "bad"
  <2>1. UNCHANGED ramVars
    BY <1>1, <1>4 DEF ramVars
  <2> QED
    BY <1>1, <1>3, <2>1, RepairInv, CommandInv
<1>5. CASE ram_cache[f] # "bad"
  <2>1. Repair(f) = <<>>
    BY <1>5 DEF Repair
  <2>2. coord_system' = ram_cache[f] /\ coord_select' = select
    BY <1>1, <1>5
  <2>3. coord_system' \in Contents /\ coord_system' # "bad"
    BY <1>3, <1>5, <2>2 DEF IInv, TypeOK
  <2>4. Do(<<>>, "run")
    BY <1>1, <2>1
  <2> QED
    BY <1>1, <1>2, <2>2, <2>3, <2>4, NoWrites, Loaded, Issue
<1> QED
  BY <1>4, <1>5

LEMMA ProgramEndInv ==
  ASSUME IInv, ProgramEnd
  PROVE  IInv'
<1> DEFINE W == Repair(Coord(0))
<1>1. pc = "run" /\ commands' = commands + 1 /\ commands < MaxCommands /\ kept' = Nothing
      /\ UNCHANGED <<flash, ram_cache, programmed, losses, cut, settings, check>>
      /\ coord_select' = 0
  BY DEF ProgramEnd, Command
<1>2. commands' \in 0..MaxCommands
  BY <1>1, Loaded, SettingsAssumption DEF SettingsAssumption
<1>3. 0 \in Selects /\ Coord(0) \in Fields /\ Coord(0) \in Coord(0)..BUILD
  BY Layout
<1>4. CASE check
  <2>1. Do(<<>>, "run") /\ coord_system' = coord_system
    BY <1>4 DEF ProgramEnd
  <2> QED
    BY <1>1, <1>2, <1>3, <1>4, <2>1, NoWrites, Loaded, Issue
<1>5. CASE ~check
  <2>1. Do(W, "run") /\ coord_system' = Found(Coord(0))
    BY <1>5 DEF ProgramEnd
  <2>2. /\ W \in Seq(Writes)
        /\ Gives(W, VERSION, "default") /\ Gives(W, GLOBAL, settings)
        /\ Due(W, Coord(0)) \/ ram_cache[Coord(0)] = Found(Coord(0))
        /\ Gives(W, Coord(0), Found(Coord(0)))
    BY <1>1, <1>3, RepairInv
  <2> HIDE DEF W
  <2>3. Found(Coord(0)) \in Contents /\ Found(Coord(0)) # "bad"
    BY <1>3, ValueType DEF Found, IInv, TypeOK
  <2> QED
    BY <1>1, <1>2, <1>3, <2>1, <2>2, <2>3, Loaded, Issue
<1> QED
  BY <1>4, <1>5 DEF IInv, TypeOK

LEMMA CheckModeOnInv ==
  ASSUME IInv, CheckModeOn
  PROVE  IInv'
<1>1. pc = "run" /\ commands' = commands + 1 /\ commands < MaxCommands /\ kept' = Nothing
      /\ UNCHANGED <<flash, ram_cache, programmed, losses, cut, settings, coord_select, coord_system>>
      /\ check' = TRUE /\ Do(<<>>, "run")
  BY DEF CheckModeOn, Command
<1>2. commands' \in 0..MaxCommands
  BY <1>1, Loaded, SettingsAssumption DEF SettingsAssumption
<1> QED
  BY <1>1, <1>2, NoWrites, Loaded, Issue

LEMMA ResetInv ==
  ASSUME IInv, Reset
  PROVE  IInv'
<1>1. pc = "run" /\ Do(<<>>, "init")
      /\ UNCHANGED <<flash, ram_cache, programmed, losses, cut, commands, kept>>
      /\ UNCHANGED <<settings, coord_select, coord_system, check>>
  BY DEF Reset, ramVars, history
<1>2. "init" \notin {"startup", "run"} /\ "init" \in {"init", "startup", "run"}
  OBVIOUS
<1> QED
  BY <1>1, <1>2, NoWrites, Loaded, Issue

LEMMA RestoreInv ==
  ASSUME IInv, NEW what \in {"settings", "parameters", "all"}, Restore(what)
  PROVE  IInv'
<1>1. pc = "run" /\ commands' = commands + 1 /\ commands < MaxCommands /\ kept' = Nothing
      /\ UNCHANGED <<flash, ram_cache, programmed, losses, cut, coord_select, coord_system, check>>
      /\ settings' = IF what = "parameters" THEN settings ELSE "default"
  BY DEF Restore, Command
<1>2. commands' \in 0..MaxCommands
  BY <1>1, Loaded, SettingsAssumption DEF SettingsAssumption
<1>3. settings' \in Contents /\ settings' # "bad" /\ "default" # "old" /\ "default" \in Contents
  BY <1>1, ValueType, Loaded
<1>4. VERSION # GLOBAL /\ GLOBAL \in Fields
  BY Layout
<1>5. PICK W \in Seq(Writes) : /\ Do(W, "init")
                               /\ Gives(W, VERSION, "default") /\ Gives(W, GLOBAL, settings')
                               /\ Due(W, GLOBAL) \/ settings' = settings
  <2>1. CASE what = "settings"
    <3>1. Do(WriteGlobal("default"), "init") /\ settings' = "default"
      BY <1>1, <2>1 DEF Restore
    <3>2. /\ WriteGlobal("default") \in Seq(Writes)
          /\ \A f : Due(WriteGlobal("default"), f) <=> f \in {VERSION, GLOBAL}
          /\ \A f, y : Gives(WriteGlobal("default"), f, y)
                         <=> (f = VERSION => y = "default") /\ (f = GLOBAL => y = "default")
      BY <1>3, GlobalWrites
    <3> QED
      BY <1>4, <3>1, <3>2
  <2>2. CASE what = "parameters"
    <3>1. Do(RestoreParameters, "init") /\ settings' = settings
      BY <1>1, <2>2 DEF Restore
    <3> QED
      BY <3>1, ParameterWrites
  <2>3. CASE what = "all"
    <3>1. Do(RestoreAll, "init") /\ settings' = "default"
      BY <1>1, <2>3 DEF Restore
    <3> QED
      BY <1>4, <3>1, AllWrites
  <2> QED
    BY <2>1, <2>2, <2>3
<1> QED
  BY <1>1, <1>2, <1>3, <1>5, Loaded, Issue

-----------------------------------------------------------------------------
(* The theorems *)

LEMMA StutterInv == IInv /\ UNCHANGED vars => IInv'
BY DEF IInv, TypeOK, Flushes, InUse, Goal, Owed, Keeps, Wipes, vars, ramVars, history

LEMMA NextInv == IInv /\ [Next]_vars => IInv'
<1> SUFFICES ASSUME IInv, Next PROVE IInv'
  BY StutterInv
<1>1. ASSUME Boot \/ GcInit \/ ExecuteStartup PROVE IInv'
  BY <1>1, BootInv, GcInitInv, ExecuteStartupInv
<1>2. ASSUME Skip \/ Write \/ Erase \/ Program \/ PowerLoss PROVE IInv'
  BY <1>2, SkipInv, WriteInv, EraseInv, ProgramInv, PowerLossInv
<1>3. ASSUME NEW x \in Values,
             \/ StoreGlobal(x)
             \/ \E select \in Selects : SetCoordinateData(select, x)
             \/ \E select \in N_COORDINATE_SYSTEM .. SETTING_INDEX_NCOORD : SetHome(select, x)
      PROVE  IInv'
  BY <1>3, StoreGlobalInv, SetCoordinateDataInv, SetHomeInv
<1>4. ASSUME NEW x \in Values, NEW f \in Startup(0) .. BUILD, StoreLine(f, x) PROVE IInv'
  BY <1>4, StoreLineInv
<1>5. ASSUME NEW f \in Coord(0) .. BUILD, ReadRecord(f) PROVE IInv'
  BY <1>5, ReadRecordInv
<1>6. ASSUME NEW select \in Selects, SelectSystem(select) PROVE IInv'
  BY <1>6, SelectSystemInv
<1>7. ASSUME ProgramEnd \/ CheckModeOn \/ Reset PROVE IInv'
  BY <1>7, ProgramEndInv, CheckModeOnInv, ResetInv
<1>8. ASSUME NEW what \in {"settings", "parameters", "all"}, Restore(what) PROVE IInv'
  BY <1>8, RestoreInv
<1> QED
  BY <1>1, <1>2, <1>3, <1>4, <1>5, <1>6, <1>7, <1>8 DEF Next

LEMMA Invariance == Spec => []IInv
BY InitInv, NextInv, PTL DEF Spec

LEMMA AtRun ==
  ASSUME IInv, pc = "run"
  PROVE  UsesStored /\ Survives /\ Wiped
<1>1. todo = <<>> /\ flash = ram_cache /\ \A f : ~Due(todo, f)
  BY NothingDue DEF IInv
<1>2. Goal = "run" /\ GLOBAL \in Fields
  BY Layout DEF Goal
<1>3. UsesStored
  BY <1>1, <1>2 DEF IInv, InUse, Owed, UsesStored
<1>4. Survives
  BY <1>1, <1>2, <1>3 DEF IInv, Keeps, Survives, UsesStored
<1>5. Wiped
  BY <1>1 DEF IInv, Wipes, Wiped
<1> QED
  BY <1>3, <1>4, <1>5

\* The page, its copy and what is in use are always of their types, and no settings are in
\* force that a checksum has refused.
THEOREM TypeCorrect == Spec => []TypeOK
<1>1. IInv => TypeOK
  BY DEF IInv
<1> QED
  BY <1>1, Invariance, PTL

\* Whenever a command can be given, the settings and the coordinate system in use are the
\* stored ones, after any number of stores, restores, resets and power losses (settings.c,
\* gcode.c:1119).
THEOREM StoredInUse == Spec => []UsesStored
<1>1. IInv => UsesStored
  BY AtRun DEF UsesStored
<1> QED
  BY <1>1, Invariance, PTL

\* A power loss outside a flush costs no record and none of the settings, whatever the
\* starts after it repair (settings_init(), eeprom_flush_cache()).
THEOREM LossesSurvived == Spec => []Survives
<1>1. IInv => Survives
  BY AtRun DEF Survives
<1> QED
  BY <1>1, Invariance, PTL

\* Unless a power loss cuts a restore short, nothing that another version has left in the
\* page is in use (config.h:506, settings_init()).
THEOREM WipedAlways == Spec => []Wiped
<1>1. IInv => Wiped
  BY AtRun DEF Wiped
<1> QED
  BY <1>1, Invariance, PTL
=============================================================================
