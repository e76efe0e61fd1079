---------------------------- MODULE HomingProofs ----------------------------
(***************************************************************************)
(* However far an axis is from its switch, however long the motions and    *)
(* whatever is requested, homing never drives an axis further past a       *)
(* working switch than two turns of the polling loop allow.                *)
(*                                                                         *)
(* The argument counts, for every axis, the step that is already due (Due) *)
(* with its position: an unlocked axis is never further than the number of *)
(* interrupts since the switches were read, one that the loop has locked   *)
(* in its own copy only takes the interrupts until the copy is published.  *)
(*                                                                         *)
(* That the cycle also ends in place needs more: in an approach an axis is *)
(* let go only at its switch, the pull-off takes all of its steps, and the *)
(* next approach is long enough to reach the switch again (LocateReaches). *)
(***************************************************************************)
EXTENDS Homing, TLAPS

Cycles == {HOMING_CYCLE_0, HOMING_CYCLE_1}
Resting == {"phase", "wake", "flip", "set", "end", "suspended"}

\* The step of axis a that the next interrupt gives.
Due(a) == IF tim2 /\ a \in out THEN 1 ELSE 0

\* Between two motions nothing moves and no step is due.
AtRest == pc \in Resting => ~tim2 /\ out = {}

\* Only axes of the cycle are stepped, and the mask is applied until the loop gives up.
InCycle == out \subseteq cycle
StillHoming == Homes /\ pc # "suspended" => state = "HOMING"

\* The axes of the second cycle wait where they were.
Untouched == cycle = HOMING_CYCLE_0 => \A a \in HOMING_CYCLE_1 : pos[a] <= 0

\* An approach begins before the switches, and a pull-off ends there.
Before ==
  (pc \in {"phase", "wake"} /\ approach) \/ (pc \in {"stop", "flip"} /\ ~approach) =>
    \A a \in cycle : switch[a] = "ok" => pos[a] <= 0

\* The mask is the loop's own copy, except while the copy is being published.
Masked ==
  /\ pc = "wake" => lock = cycle /\ axislock = cycle
  /\ pc \in Turn /\ pc # "publish" /\ approach => lock = axislock
  /\ pc \in Turn /\ ~approach => axislock = cycle
  /\ pc = "stop" /\ approach => axislock = {}

\* How far an axis may have come.
Reach(a) ==
  /\ pc \in Turn /\ approach /\ a \in axislock => pos[a] + Due(a) <= lag
  /\ pc = "publish" /\ approach /\ a \in lock => pos[a] + Due(a) <= Lag + lag
  /\ pc \in Turn /\ approach => pos[a] + Due(a) <= 2 * Lag
  /\ pos[a] <= 2 * Lag

Reached == Homes => \A a \in Axis : switch[a] = "ok" => Reach(a)

IInv == TypeOK /\ AtRest /\ InCycle /\ StillHoming /\ Untouched /\ (Homes => Before) /\ Masked /\ Reached

LEMMA RoomBounds ==
  ASSUME NEW l \in Nat, NEW r \in 0..Ring
  PROVE  l - Room(l, r) \in Nat /\ r + Room(l, r) \in 0..Ring
  BY HomingAssumption DEF HomingAssumption, Room

LEMMA TravelType == Travel \in Nat
  BY HomingAssumption DEF HomingAssumption, Travel

LEMMA CycleAxes == HOMING_CYCLE_0 \subseteq Axis /\ HOMING_CYCLE_1 \subseteq Axis
  BY DEF HOMING_CYCLE_0, HOMING_CYCLE_1, Axis

\* TypeOK in two parts, for the provers.
Numbers ==
  /\ pos \in [Axis -> Int] /\ n_cycle \in 0 .. 2 * N_HOMING_LOCATE_CYCLE + 1
  /\ left \in Nat /\ ring \in 0 .. Ring /\ lag \in 0 .. Lag
Others ==
  /\ switch \in [Axis -> {"ok", "open", "closed"}]
  /\ pc \in Turn \cup {"phase", "wake", "flip", "set", "rt", "end", "suspended", "restart", "done"}
  /\ cycle \in {HOMING_CYCLE_0, HOMING_CYCLE_1}
  /\ approach \in BOOLEAN /\ axislock \subseteq Axis /\ homed \subseteq Axis
  /\ state \in {"HOMING", "ALARM", "SAFETY_DOOR", "IDLE"}
  /\ lock \subseteq Axis /\ out \subseteq Axis
  /\ tim2 \in BOOLEAN /\ flags \subseteq Requests \cup {"CYCLE_STOP"} /\ alarm \in BOOLEAN

LEMMA TypeParts == TypeOK <=> Numbers /\ Others
  BY DEF TypeOK, Numbers, Others

LEMMA InitType == Init => TypeOK
<1> SUFFICES ASSUME Init PROVE TypeOK
  OBVIOUS
<1>1. Numbers
  BY HomingAssumption DEF HomingAssumption, Init, Numbers
<1>2. Others
  BY DEF Init, Others
<1> QED
  BY <1>1, <1>2, TypeParts

LEMMA NextType == TypeOK /\ [Next]_vars => TypeOK'
<1> SUFFICES ASSUME Numbers, Others, [Next]_vars PROVE Numbers' /\ Others'
  BY DEF TypeOK, Numbers, Others
<1> USE DEF machine, local, motion
<1>1. CASE Phase
  <2>1. left' \in Nat /\ ring' \in 0..Ring
    BY <1>1, TravelType, RoomBounds, HomingAssumption DEF HomingAssumption, Phase, PrepBuffer
  <2>2. axislock' \subseteq Axis /\ lock' \subseteq Axis
    BY <1>1, CycleAxes DEF Others, Phase
  <2> QED
    BY <1>1, <2>1, <2>2 DEF Numbers, Others, Phase
<1>2. CASE WakeUp
  <2>1. Numbers'
    BY <1>2, HomingAssumption DEF HomingAssumption, Numbers, WakeUp
  <2> QED
    BY <1>2, <2>1 DEF Others, WakeUp, Turn
<1>3. CASE Poll
  <2>1. Numbers'
    BY <1>3, HomingAssumption DEF HomingAssumption, Numbers, Poll
  <2> QED
    BY <1>3, <2>1 DEF Others, Poll, Turn
<1>4. CASE Publish
  BY <1>4 DEF Numbers, Others, Publish, Turn
<1>5. CASE Prep
  <2>1. left' \in Nat /\ ring' \in 0..Ring
    BY <1>5, RoomBounds DEF Numbers, Prep, PrepBuffer
  <2> QED
    BY <1>5, <2>1 DEF Numbers, Others, Prep, Turn
<1>6. CASE Check
  <2>1. flags' \subseteq Requests \cup {"CYCLE_STOP"} /\ alarm' \in BOOLEAN /\ tim2' \in BOOLEAN
    BY <1>6 DEF Others, Check, McReset, Requests
  <2> QED
    BY <1>6, <2>1 DEF Numbers, Others, Check, Turn
<1>7. CASE Stop
  <2>1. Numbers'
    BY <1>7, HomingAssumption DEF HomingAssumption, Numbers, Stop
  <2> QED
    BY <1>7, <2>1 DEF Others, Stop
<1>8. CASE Flip
  <2>1. Numbers'
    BY <1>8, HomingAssumption DEF HomingAssumption, Numbers, Flip
  <2> QED
    BY <1>8, <2>1 DEF Others, Flip
<1>9. CASE SetPosition
  <2>1. Numbers'
    BY <1>9, HomingAssumption DEF HomingAssumption, Numbers, SetPosition
  <2>2. homed' \subseteq Axis /\ approach' \in BOOLEAN /\ cycle' \in {HOMING_CYCLE_0, HOMING_CYCLE_1}
    BY <1>9, CycleAxes DEF Others, SetPosition
  <2> QED
    BY <1>9, <2>1, <2>2 DEF Others, SetPosition
<1>10. CASE Abort \/ Finish \/ Suspended
  <2>1. flags' \subseteq Requests \cup {"CYCLE_STOP"}
    BY <1>10 DEF Others, Abort, Finish, Suspended
  <2> QED
    BY <1>10, <2>1 DEF Numbers, Others, Abort, Finish, Suspended
<1>11. CASE Restart
  <2>1. Numbers'
    BY <1>11, HomingAssumption DEF HomingAssumption, Numbers, Restart
  <2> QED
    BY <1>11, <2>1 DEF Others, Restart
<1>12. CASE Tim2
  <2>1. pos' \in [Axis -> Int]
    BY <1>12 DEF Numbers, Tim2, Pulse
  <2>2. lag' \in 0..Lag
    BY <1>12, HomingAssumption DEF HomingAssumption, Numbers, Tim2
  <2>3. ring' \in 0..Ring
    <3>1. ring \in Int /\ 0 <= ring /\ ring <= Ring /\ Ring \in Int
      BY HomingAssumption DEF HomingAssumption, Numbers
    <3>2. ring' = ring \/ (ring > 0 /\ ring' = ring - 1)
      BY <1>12 DEF Tim2
    <3> QED
      BY <3>1, <3>2
  <2>4. out' \subseteq Axis
    BY <1>12, CycleAxes DEF Others, Tim2, Moving
  <2>5. flags' \subseteq Requests \cup {"CYCLE_STOP"} /\ tim2' \in BOOLEAN
    BY <1>12 DEF Others, Tim2
  <2>6. Numbers'
    BY <1>12, <2>1, <2>2, <2>3 DEF Numbers, Tim2
  <2> QED
    BY <1>12, <2>4, <2>5, <2>6 DEF Others, Tim2
<1>13. CASE Reset
  <2>1. flags' \subseteq Requests \cup {"CYCLE_STOP"} /\ alarm' \in BOOLEAN /\ tim2' \in BOOLEAN
    BY <1>13 DEF Others, Reset, McReset, Requests
  <2> QED
    BY <1>13, <2>1 DEF Numbers, Others, Reset
<1>14. CASE Request
  <2>1. flags' \subseteq Requests \cup {"CYCLE_STOP"}
    BY <1>14 DEF Others, Request, Requests
  <2> QED
    BY <1>14, <2>1 DEF Numbers, Others, Request
<1>15. CASE UNCHANGED vars
  BY <1>15 DEF Numbers, Others, vars
<1> QED
  BY <1>1, <1>2, <1>3, <1>4, <1>5, <1>6, <1>7, <1>8, <1>9, <1>10, <1>11, <1>12, <1>13, <1>14, <1>15
     DEF Next, Main

\* The values of every variable of the homing cycle, for every bound of its constants.
THEOREM TypeCorrect == Spec => []TypeOK
<1>1. Init => TypeOK
  BY InitType
<1>2. TypeOK /\ [Next]_vars => TypeOK'
  BY NextType
<1> QED
  BY <1>1, <1>2, PTL DEF Spec

-----------------------------------------------------------------------------
\* Which axes move, and where the loop stands.
Control == AtRest /\ InCycle /\ StillHoming /\ Masked

LEMMA InitInv == Init => IInv
<1> SUFFICES ASSUME Init PROVE IInv
  OBVIOUS
<1>1. TypeOK
  BY InitType
<1>2. Control
  BY DEF Init, Control, AtRest, InCycle, StillHoming, Masked, Turn
<1>3. \A a \in Axis : pos[a] <= 0
  BY HomingAssumption DEF HomingAssumption, Init
<1>4. Untouched /\ Before
  BY <1>3, CycleAxes DEF Init, Untouched, Before
<1>5. Reached
  BY <1>3, HomingAssumption DEF HomingAssumption, Init, Reached, Reach, Turn
<1> QED
  BY <1>1, <1>2, <1>4, <1>5 DEF IInv, Control

LEMMA NextControl == ASSUME TypeOK, Control, Untouched, [Next]_vars PROVE Control' /\ Untouched'
<1> USE DEF machine, local, motion
<1>0. Others
  BY TypeParts
<1>1. CASE Phase
  BY <1>1, <1>0 DEF Others, Phase, Control, AtRest, InCycle, StillHoming, Masked, Untouched, Homes, Turn, Resting
<1>2. CASE WakeUp
  BY <1>2, <1>0 DEF Others, WakeUp, Control, AtRest, InCycle, StillHoming, Masked, Untouched, Homes, Turn, Resting
<1>3. CASE Poll
  BY <1>3, <1>0 DEF Others, Poll, Control, AtRest, InCycle, StillHoming, Masked, Untouched, Homes, Turn, Resting
<1>4. CASE Publish
  BY <1>4, <1>0 DEF Others, Publish, Control, AtRest, InCycle, StillHoming, Masked, Untouched, Homes, Turn, Resting
<1>5. CASE Prep
  BY <1>5, <1>0 DEF Others, Prep, Control, AtRest, InCycle, StillHoming, Masked, Untouched, Homes, Turn, Resting
<1>6. CASE Check
  BY <1>6, <1>0 DEF Others, Check, Failed, Control, AtRest, InCycle, StillHoming, Masked, Untouched, Homes, Turn, Resting
<1>7. CASE Stop
  BY <1>7, <1>0 DEF Others, Stop, Control, AtRest, InCycle, StillHoming, Masked, Untouched, Homes, Turn, Resting
<1>8. CASE Flip
  BY <1>8, <1>0 DEF Others, Flip, Control, AtRest, InCycle, StillHoming, Masked, Untouched, Homes, Turn, Resting
<1>9. CASE SetPosition
  BY <1>9, <1>0 DEF Others, SetPosition, Control, AtRest, InCycle, StillHoming, Masked, Untouched, Homes, Turn,
                    Resting, HOMING_CYCLE_0, HOMING_CYCLE_1
<1>10. CASE Abort \/ Finish \/ Suspended \/ Restart
  BY <1>10, <1>0 DEF Others, Abort, Finish, Suspended, Restart, Control, AtRest, InCycle, StillHoming, Masked,
                     Untouched, Homes, Turn, Resting
<1>11. CASE Tim2
  <2>1. AtRest' /\ StillHoming' /\ Masked'
    BY <1>11, <1>0 DEF Others, Tim2, Control, AtRest, StillHoming, Masked, Homes, Turn, Resting
  <2>2. InCycle'
    BY <1>11 DEF Tim2, Moving, Control, InCycle
  <2>3. Untouched'
    BY <1>11, CycleAxes DEF Tim2, Pulse, Control, InCycle, Untouched, HOMING_CYCLE_0, HOMING_CYCLE_1
  <2> QED
    BY <2>1, <2>2, <2>3 DEF Control
<1>12. CASE Reset \/ Request
  BY <1>12, <1>0 DEF Others, Reset, McReset, Request, Control, AtRest, InCycle, StillHoming, Masked, Untouched,
                     Homes, Turn, Resting
<1>13. CASE UNCHANGED vars
  BY <1>13 DEF vars, Control, AtRest, InCycle, StillHoming, Masked, Untouched, Homes
<1> QED
  BY <1>1, <1>2, <1>3, <1>4, <1>5, <1>6, <1>7, <1>8, <1>9, <1>10, <1>11, <1>12, <1>13 DEF Next, Main

-----------------------------------------------------------------------------
\* A step that is due counts as one, and only if the timer runs.
LEMMA DueType == ASSUME NEW a PROVE Due(a) \in {0, 1} /\ (~tim2 \/ a \notin out => Due(a) = 0)
  BY DEF Due

\* An approach begins, and a pull-off ends, before the switches.
LEMMA NextBefore ==
  ASSUME TypeOK, Control, Untouched, Homes => Before, [Next]_vars PROVE Homes' => Before'
<1> USE DEF machine, local, motion
<1>0. Numbers /\ Others
  BY TypeParts
<1> SUFFICES ASSUME Homes', NEW a \in Axis, a \in cycle', switch'[a] = "ok",
                    (pc' \in {"phase", "wake"} /\ approach') \/ (pc' \in {"stop", "flip"} /\ ~approach')
             PROVE  pos'[a] <= 0
  BY <1>0, CycleAxes, NextType DEF Before, TypeOK
<1>1. CASE Phase \/ WakeUp \/ Stop \/ Flip
  BY <1>1, <1>0 DEF Phase, WakeUp, Stop, Flip, Before, Homes
<1>2. CASE Poll \/ Publish \/ Prep
  BY <1>2 DEF Poll, Publish, Prep
<1>3. CASE Check
  <2>1. pc' = "stop" /\ ~approach
    BY <1>3 DEF Check
  <2>2. axislock # {}
    BY <1>3, <2>1, <1>0 DEF Check, Others, Control, Masked, Turn, HOMING_CYCLE_0, HOMING_CYCLE_1
  <2>3. a \notin Engaged
    BY <1>3, <2>1, <2>2 DEF Check, Failed
  <2> QED
    BY <1>3, <2>3, <1>0 DEF Check, Engaged, Numbers
<1>4. CASE SetPosition
  BY <1>4, <1>0 DEF SetPosition, Untouched, Others
<1>5. CASE Abort \/ Finish \/ Suspended \/ Restart
  BY <1>5 DEF Abort, Finish, Suspended, Restart
<1>6. CASE Tim2
  <2>1. pc = "stop" /\ ~approach
    BY <1>6 DEF Tim2, Control, AtRest, Resting
  <2>2. pos[a] <= 0 /\ pos[a] \in Int
    BY <1>6, <2>1, <1>0 DEF Tim2, Before, Homes, Numbers
  <2> QED
    BY <1>6, <2>1, <2>2 DEF Tim2, Pulse
<1>7. CASE Reset \/ Request
  BY <1>7, <1>0 DEF Reset, Request, Before, Homes
<1>8. CASE UNCHANGED vars
  BY <1>8 DEF vars, Before, Homes
<1> QED
  BY <1>1, <1>2, <1>3, <1>4, <1>5, <1>6, <1>7, <1>8 DEF Next, Main

\* A TIM2 interrupt gives the step that is due, and computes one for an unlocked axis.
LEMMA Tim2Moves ==
  ASSUME TypeOK, Control, Tim2, Homes, approach, NEW a \in Axis
  PROVE  /\ pos'[a] = pos[a] + Due(a) /\ pos[a] \in Int /\ pos'[a] \in Int
         /\ Due(a)' \in {0, 1} /\ (a \notin lock => Due(a)' = 0)
         /\ pc \in Turn /\ lag \in Int /\ lag + 1 <= Lag /\ lag' = lag + 1
<1>0. Numbers /\ Others
  BY TypeParts
<1>1. pc \in Turn /\ tim2
  BY <1>0 DEF Tim2, Control, AtRest, Resting, Turn, Others, Homes
<1>2. state = "HOMING"
  BY <1>1 DEF Control, StillHoming, Homes, Turn
<1>3. pos[a] \in Int /\ lag \in Int /\ Lag \in Int
  BY <1>0, HomingAssumption DEF Numbers, HomingAssumption
<1>4. pos'[a] = pos[a] + Due(a)
  BY <1>0, <1>1, <1>3 DEF Tim2, Pulse, Due, Numbers
<1>5. pos'[a] \in Int
  BY <1>3, <1>4, DueType
<1>6. Due(a)' \in {0, 1}
  BY DEF Due
<1>7. a \notin lock => Due(a)' = 0
  BY <1>2 DEF Tim2, Moving, Due
<1>8. lag + 1 <= Lag /\ lag' = lag + 1
  BY <1>1, <1>3 DEF Tim2
<1> QED
  BY <1>1, <1>3, <1>4, <1>5, <1>6, <1>7, <1>8

\* No step takes an axis further than Reach, one action after the other.
LEMMA NextReached ==
  ASSUME TypeOK, Control, Untouched, Homes => Before, Reached, [Next]_vars PROVE Reached'
<1> USE DEF machine, local, motion
<1>0. Numbers /\ Others
  BY TypeParts
<1> SUFFICES ASSUME Homes', NEW a \in Axis, switch'[a] = "ok" PROVE Reach(a)'
  BY DEF Reached
<1>a. Homes
  BY <1>0 DEF Homes, Next, Main, Phase, WakeUp, Poll, Publish, Prep, Check, Stop, Flip, SetPosition, Abort,
              Finish, Suspended, Restart, Tim2, Reset, Request, vars
<1>b. switch[a] = "ok"
  BY DEF Next, Main, Phase, WakeUp, Poll, Publish, Prep, Check, Stop, Flip, SetPosition, Abort,
         Finish, Suspended, Restart, Tim2, Reset, Request, vars
<1>c. Reach(a) /\ pos[a] \in Int /\ pos[a] <= 2 * Lag
  BY <1>0, <1>a, <1>b DEF Reached, Reach, Numbers
<1>d. lag \in Int /\ 0 <= lag /\ lag <= Lag /\ Lag \in Int /\ 0 <= Lag
  BY <1>0, HomingAssumption DEF Numbers, HomingAssumption
<1>e. Due(a) \in {0, 1} /\ (~tim2 \/ a \notin out => Due(a) = 0)
  BY DueType
<1>1. CASE Phase \/ Stop \/ Flip \/ SetPosition \/ Abort \/ Finish \/ Suspended \/ Restart
  <2>1. pos' = pos /\ pc' \notin Turn
    BY <1>1 DEF Phase, Stop, Flip, SetPosition, Abort, Finish, Suspended, Restart, Turn
  <2> QED
    BY <2>1, <1>c DEF Reach, Turn
<1>2. CASE WakeUp
  <2>1. pos' = pos /\ pc' = "poll" /\ lag' = 0 /\ Due(a)' = 0 /\ approach' = approach
    BY <1>2 DEF WakeUp, Due
  <2>2. axislock' = cycle
    BY <1>2 DEF WakeUp, Control, Masked
  <2>3. approach /\ a \in cycle => pos[a] <= 0
    BY <1>2, <1>a, <1>b DEF WakeUp, Before
  <2> QED
    BY <2>1, <2>2, <2>3, <1>c, <1>d DEF Reach
<1>3. CASE Poll
  <2>1. pos' = pos /\ pc' = "publish" /\ lag' = 0 /\ Due(a)' = Due(a) /\ approach' = approach /\ lock' = lock
    BY <1>3 DEF Poll, Due
  <2>2. approach => lock = axislock /\ axislock' = axislock \ Engaged
    BY <1>3 DEF Poll, Control, Masked, Turn
  <2>3. a \notin Engaged => pos[a] < 0
    BY <1>b, <1>c DEF Engaged
  <2>4. approach => (a \in axislock => pos[a] + Due(a) <= lag) /\ pos[a] + Due(a) <= 2 * Lag
    BY <1>3, <1>c DEF Reach, Poll, Turn
  <2> QED
    BY <2>1, <2>2, <2>3, <2>4, <1>c, <1>d, <1>e DEF Reach
<1>4. CASE Publish \/ Prep \/ Check
  <2>1. pos' = pos /\ lag' = lag /\ approach' = approach /\ axislock' = axislock /\ out' = out /\ pc \in Turn
    BY <1>4 DEF Publish, Prep, Check, Turn
  <2>2. pc' # "publish" /\ (tim2' => tim2)
    BY <1>4, <1>0 DEF Publish, Prep, Check, McReset, Others
  <2>3. Due(a)' \in {0, 1} /\ Due(a)' <= Due(a)
    BY <2>1, <2>2 DEF Due
  <2> QED
    BY <2>1, <2>2, <2>3, <1>c, <1>d, <1>e DEF Reach
<1>5. CASE Tim2
  <2>1. pc' = pc /\ approach' = approach /\ axislock' = axislock /\ lock' = lock
    BY <1>5 DEF Tim2
  <2>2. CASE ~approach
    <3>1. pos'[a] <= pos[a]
      BY <1>0, <1>5, <2>2, <1>c DEF Tim2, Pulse, Numbers
    <3>2. pos'[a] \in Int
      BY NextType, TypeParts DEF TypeOK
    <3> QED
      BY <2>1, <2>2, <3>1, <3>2, <1>c, <1>d DEF Reach
  <2>3. CASE approach
    <3>1. pos'[a] = pos[a] + Due(a) /\ pos[a] \in Int /\ pos'[a] \in Int
      BY <1>5, <1>a, <2>3, Tim2Moves
    <3>2. Due(a)' \in {0, 1} /\ (a \notin lock => Due(a)' = 0)
      BY <1>5, <1>a, <2>3, Tim2Moves
    <3>3. pc \in Turn /\ lag \in Int /\ lag + 1 <= Lag /\ lag' = lag + 1
      BY <1>5, <1>a, <2>3, Tim2Moves
    <3>4. pc # "publish" => lock = axislock
      BY <2>3, <3>3 DEF Control, Masked
    <3>5. a \in axislock => pos'[a] + Due(a)' <= lag'
      BY <3>1, <3>2, <3>3, <2>3, <1>c DEF Reach
    <3>6. pc = "publish" /\ a \in lock => pos'[a] + Due(a)' <= Lag + lag'
      BY <3>1, <3>2, <3>3, <2>3, <1>c, <1>d, <1>e DEF Reach
    <3>7. pos'[a] + Due(a)' <= 2 * Lag
      <4>1. CASE a \notin lock
        BY <4>1, <3>1, <3>2, <3>3, <2>3, <1>c, <1>d, <1>e DEF Reach
      <4>2. CASE a \in lock
        BY <4>2, <3>1, <3>2, <3>3, <3>4, <3>5, <3>6, <1>d
      <4> QED
        BY <4>1, <4>2
    <3> QED
      BY <2>1, <3>1, <3>2, <3>5, <3>6, <3>7, <1>d DEF Reach
  <2> QED
    BY <2>2, <2>3
<1>6. CASE Reset \/ Request
  <2>1. UNCHANGED <<pos, lag, approach, axislock, lock, out, pc>> /\ (tim2' => tim2)
    BY <1>6, <1>0 DEF Reset, McReset, Request, Others
  <2>2. Due(a)' \in {0, 1} /\ Due(a)' <= Due(a)
    BY <2>1 DEF Due
  <2> QED
    BY <2>1, <2>2, <1>c, <1>d, <1>e DEF Reach
<1>7. CASE UNCHANGED vars
  BY <1>7, <1>c DEF vars, Reach, Due
<1> QED
  BY <1>1, <1>2, <1>3, <1>4, <1>5, <1>6, <1>7 DEF Next, Main

\* The invariant that OvershootBounded needs, for every travel, pull-off, ring and start.
LEMMA Invariance == Spec => []IInv
<1>1. Init => IInv
  BY InitInv
<1>2. IInv /\ [Next]_vars => IInv'
  <2> SUFFICES ASSUME IInv, [Next]_vars PROVE IInv'
    OBVIOUS
  <2>1. TypeOK /\ Control /\ Untouched /\ (Homes => Before) /\ Reached
    BY DEF IInv, Control
  <2>2. TypeOK' /\ Control' /\ Untouched' /\ (Homes' => Before') /\ Reached'
    BY <2>1, NextType, NextControl, NextBefore, NextReached
  <2> QED
    BY <2>2 DEF IInv, Control
<1> QED
  BY <1>1, <1>2, PTL DEF Spec

\* An axis never passes its switch by more than two turns of the polling loop take: limits.c
\* locks it in time, in every cycle, whatever the travel, the pull-off and the requests.
THEOREM Overshoot == Spec => []OvershootBounded
<1>1. IInv => OvershootBounded
  BY DEF IInv, Reached, Reach, OvershootBounded
<1> QED
  BY <1>1, Invariance, PTL

-----------------------------------------------------------------------------
(* Where homing ends *)

\* The search again is longer than the pull-off by what two turns of the loop take: limits.c
\* only asks for more than the pull-off (line 30, "Must be > 1"), and searches five times as far.
LocateReaches == Locate >= Pulloff + 2 * Lag

Motion == Turn \cup {"phase", "wake", "flip"}
Passed == {"stop", "flip"}
First == n_cycle = 2 * N_HOMING_LOCATE_CYCLE + 1
Again == n_cycle < 2 * N_HOMING_LOCATE_CYCLE
Clean == "RESET" \notin flags

\* Events of the motion that TIM2 has taken off the ring.
Given == Travel - left - ring

\* The motions alternate, and the last one is a pull-off.
Alternates ==
  /\ pc \in Motion => n_cycle % 2 = (IF approach THEN 1 ELSE 0)
  /\ pc = "set" => n_cycle = 0 /\ approach

\* An approach goes on with an axis to lock; a pull-off moves all axes.
Locks ==
  /\ pc \in Turn => axislock \subseteq cycle /\ axislock \subseteq lock
  /\ pc = "poll" => axislock # {}
  /\ pc \in Turn /\ ~approach => lock = cycle

\* While there is more to cut, the ring holds what the loop's next turn can use.
RingFed ==
  /\ pc = "wake" => Given = 0
  /\ left > 0 => /\ pc = "wake" => ring = Ring
                 /\ pc \in {"check", "stop", "poll"} => ring + lag >= Ring
                 /\ pc \in {"publish", "prep"} => ring + lag + Lag >= Ring

\* A switch that never closes ends the first approach with a failure, and one that never opens
\* the first pull-off.
Works ==
  pc \in Motion \cup {"set"} => \A a \in cycle :
    /\ ~approach \/ ~First \/ pc \in Passed => switch[a] # "open"
    /\ pc \in Turn /\ a \notin axislock => switch[a] # "open"
    /\ Again \/ (~approach /\ pc \in Passed) => switch[a] = "ok"

\* The switches are found again within the pull-off and two turns of the loop, ...
InTime ==
  Clean /\ approach /\ Again /\ pc \in Turn =>
    Given <= Pulloff + lag + (IF axislock = {} THEN Lag ELSE 0)

\* ... so that no end of a motion is left pending, which would cut the next pull-off short.
NoneLeft ==
  Clean /\ Again =>
    /\ pc \in {"phase", "wake"} /\ ~approach => "CYCLE_STOP" \notin flags
    /\ pc \in Passed /\ approach => "CYCLE_STOP" \notin flags
    /\ pc \in Turn /\ ~approach /\ (pc = "stop" \/ "CYCLE_STOP" \in flags) => left = 0 /\ ring = 0 /\ ~tim2

\* Every event takes each axis that is not locked one step on its way.
Place(a) ==
  IF approach
  THEN /\ ~First /\ pc \in {"phase", "wake"} => pos[a] >= -Pulloff
       /\ ~First /\ pc \in Turn => pos[a] + Due(a) + Pulloff >= Given \/ pos[a] >= 0
       /\ (pc \in Turn /\ a \notin axislock) \/ pc = "flip" => pos[a] >= 0
       /\ pc = "set" => pos[a] \in -Pulloff .. 2 * Lag - Pulloff
  ELSE /\ pc \in {"phase", "wake"} => pos[a] >= 0
       /\ pc \in Turn => pos[a] - Due(a) + Given >= 0
       /\ pc = "flip" => pos[a] >= -Pulloff
       /\ Again /\ pc \in Turn => pos[a] - Due(a) + Given <= 2 * Lag
       /\ Again /\ pc = "flip" => pos[a] <= 2 * Lag - Pulloff
Placed == Clean /\ pc \in Motion \cup {"set"} => \A a \in cycle : switch[a] = "ok" => Place(a)

\* What has been homed stays where it is.
Homed(a) == switch[a] = "ok" /\ pos[a] \in -Pulloff .. 2 * Lag - Pulloff
Over == pc \in {"end", "suspended"} \/ (pc \in {"restart", "done"} /\ state # "ALARM")
Stays ==
  /\ pc \in Motion \cup {"set"} => homed = (IF cycle = HOMING_CYCLE_0 THEN {} ELSE HOMING_CYCLE_0)
  /\ Over => homed = Axis /\ ~tim2
  /\ (Clean /\ Homes) \/ (Over /\ pc # "end") => \A a \in homed : Homed(a)

LocateInv == Alternates /\ Locks /\ RingFed /\ Works /\ InTime /\ NoneLeft /\ Placed /\ Stays

LEMMA Bounds ==
  /\ N_HOMING_LOCATE_CYCLE \in Nat /\ N_HOMING_LOCATE_CYCLE > 0
  /\ Seek \in Nat /\ Locate \in Nat /\ Pulloff \in Nat /\ Ring \in Nat /\ Ring > 0 /\ Lag \in Nat /\ 2 * Lag < Ring
  BY HomingAssumption DEF HomingAssumption

\* A reset stays to the end of homing.
LEMMA StaysClean ==
  ASSUME Others, [Next]_vars, Clean', pc' # "done", pc # "restart", pc # "done" PROVE Clean
<1> USE DEF Others, Clean, Requests, machine, local, motion
<1>1. CASE Check
  BY <1>1 DEF Check, McReset
<1>2. CASE Finish
  BY <1>2 DEF Finish
<1>3. CASE Phase \/ WakeUp \/ Poll \/ Publish \/ Prep \/ Stop \/ Flip \/ SetPosition \/ Abort \/ Suspended \/ UNCHANGED vars
  BY <1>3 DEF Phase, WakeUp, Poll, Publish, Prep, Stop, Flip, SetPosition, Abort, Suspended, vars
<1>4. CASE Restart \/ Tim2 \/ Reset \/ Request
  BY <1>4 DEF Restart, Tim2, Reset, McReset, Request
<1> QED
  BY <1>1, <1>2, <1>3, <1>4 DEF Next, Main

LEMMA NextAlternates == ASSUME TypeOK, Alternates, [Next]_vars PROVE Alternates'
<1> USE Bounds DEF machine, local, motion
<1>0. Numbers /\ Others
  BY TypeParts
<1>1. CASE Phase \/ WakeUp \/ Poll \/ Publish \/ Prep \/ Check \/ Stop
  BY <1>1 DEF Phase, WakeUp, Poll, Publish, Prep, Check, Stop, Alternates, Motion, Turn
<1>2. CASE Flip
  <2>1. n_cycle \in Int /\ n_cycle % 2 = (IF approach THEN 1 ELSE 0)
    BY <1>0, <1>2 DEF Flip, Alternates, Motion, Numbers
  <2>2. CASE n_cycle > 0
    <3>1. (n_cycle - 1) % 2 = (IF approach THEN 0 ELSE 1)
      BY <2>1
    <3> QED
      BY <1>0, <1>2, <2>2, <3>1 DEF Flip, Alternates, Motion, Others, Turn
  <2>3. CASE ~(n_cycle > 0)
    <3>1. n_cycle = 0
      BY <1>0, <2>3 DEF Numbers
    <3>2. ~approach
      BY <2>1, <3>1
    <3>3. approach'
      BY <1>2, <3>2 DEF Flip
    <3>4. pc' = "set" /\ n_cycle' = 0
      BY <1>2, <2>3, <3>1 DEF Flip
    <3> QED
      BY <3>3, <3>4 DEF Alternates, Motion, Turn
  <2> QED
    BY <2>2, <2>3
<1>3. CASE SetPosition
  <2>1. (2 * N_HOMING_LOCATE_CYCLE + 1) % 2 = 1
    OBVIOUS
  <2> QED
    BY <1>3, <2>1 DEF SetPosition, Alternates, Motion, Turn
<1>4. CASE Abort \/ Finish \/ Suspended \/ Restart
  BY <1>4 DEF Abort, Finish, Suspended, Restart, Alternates, Motion, Turn
<1>5. CASE Tim2 \/ Reset \/ Request \/ UNCHANGED vars
  BY <1>5 DEF Tim2, Reset, Request, vars, Alternates
<1> QED
  BY <1>1, <1>2, <1>3, <1>4, <1>5 DEF Next, Main

LEMMA NextLocks == ASSUME TypeOK, Control, Locks, [Next]_vars PROVE Locks'
<1> USE DEF machine, local, motion, Locks, Turn
<1>0. cycle # {}
  BY TypeParts DEF Others, HOMING_CYCLE_0, HOMING_CYCLE_1
<1>1. CASE Phase
  BY <1>1 DEF Phase
<1>2. CASE WakeUp
  BY <1>0, <1>2 DEF WakeUp, Control, Masked
<1>3. CASE Poll
  BY <1>3 DEF Poll
<1>4. CASE Publish
  BY <1>4 DEF Publish
<1>5. CASE Prep
  BY <1>5 DEF Prep
<1>6. CASE Check
  <2>1. pc' = "poll" => axislock # {}
    BY <1>6 DEF Check
  <2> QED
    BY <1>6, <2>1 DEF Check
<1>7. CASE Stop \/ Flip \/ SetPosition \/ Abort \/ Finish \/ Suspended \/ Restart
  BY <1>7 DEF Stop, Flip, SetPosition, Abort, Finish, Suspended, Restart
<1>8. CASE Tim2 \/ Reset \/ Request \/ UNCHANGED vars
  BY <1>8 DEF Tim2, Reset, Request, vars
<1> QED
  BY <1>1, <1>2, <1>3, <1>4, <1>5, <1>6, <1>7, <1>8 DEF Next, Main

LEMMA NextRingFed == ASSUME TypeOK, Control, RingFed, [Next]_vars PROVE RingFed'
<1> USE DEF machine, local, motion, Turn
<1>0. left \in Nat /\ ring \in 0..Ring /\ lag \in 0..Lag /\ Lag \in Nat /\ Ring \in Nat /\ 2 * Lag < Ring
  BY TypeParts, Bounds DEF Numbers
<1>1. CASE Phase
  <2>1. left' = Travel - Room(Travel, 0) /\ ring' = 0 + Room(Travel, 0) /\ Travel' = Travel /\ pc' = "wake"
    BY <1>1 DEF Phase, PrepBuffer, Travel
  <2> QED
    BY <1>0, <2>1, TravelType DEF RingFed, Room, Given
<1>2. CASE WakeUp
  BY <1>0, <1>2 DEF WakeUp, RingFed, Given, Travel
<1>3. CASE Poll
  BY <1>0, <1>3 DEF Poll, RingFed, Given, Travel
<1>4. CASE Publish
  BY <1>0, <1>4 DEF Publish, RingFed, Given, Travel
<1>5. CASE Prep
  <2>1. left' = left - Room(left, ring) /\ ring' = ring + Room(left, ring) /\ pc' = "check" /\ lag' = lag
    BY <1>5 DEF Prep, PrepBuffer
  <2> QED
    BY <1>0, <2>1 DEF RingFed, Room
<1>6. CASE Check
  BY <1>0, <1>6 DEF Check, RingFed
<1>7. CASE Stop \/ Flip \/ SetPosition \/ Abort \/ Finish \/ Suspended \/ Restart
  BY <1>7 DEF Stop, Flip, SetPosition, Abort, Finish, Suspended, Restart, RingFed
<1>8. CASE Tim2
  <2>1. pc # "wake" /\ pc' = pc /\ left' = left
    BY <1>8 DEF Tim2, Control, AtRest, Resting
  <2>2. pc \in Turn => lag' = lag + 1
    BY <1>8 DEF Tim2
  <2>3. ring' = ring - 1 \/ (ring = 0 /\ ring' = ring)
    <3>1. ring > 0 \/ ring = 0
      BY <1>0
    <3> QED
      BY <1>8, <3>1 DEF Tim2
  <2> QED
    BY <1>0, <2>1, <2>2, <2>3 DEF RingFed
<1>9. CASE Reset \/ Request \/ UNCHANGED vars
  BY <1>9 DEF Reset, Request, vars, RingFed, Given, Travel
<1> QED
  BY <1>1, <1>2, <1>3, <1>4, <1>5, <1>6, <1>7, <1>8, <1>9 DEF Next, Main


LEMMA NextWorks == ASSUME TypeOK, Control, Alternates, Works, [Next]_vars PROVE Works'
<1> USE DEF machine, local, motion
<1>0. Numbers /\ Others
  BY TypeParts
<1>1. CASE Phase
  BY <1>1 DEF Phase, Works, Motion, Passed, Turn, First, Again
<1>2. CASE WakeUp
  BY <1>2 DEF WakeUp, Works, Motion, Passed, Turn, First, Again, Control, Masked
<1>3. CASE Poll
  BY <1>0, <1>3 DEF Poll, Works, Motion, Passed, Turn, First, Again, Engaged, Others
<1>4. CASE Publish \/ Prep
  BY <1>4 DEF Publish, Prep, Works, Motion, Passed, Turn, First, Again
<1>5. CASE Check
  <2>1. CASE pc' = "stop"
    <3>1. CASE approach
      <4>1. axislock = {}
        BY <1>5, <2>1, <3>1 DEF Check, Failed
      <4> QED
        BY <1>5, <2>1, <3>1, <4>1 DEF Check, Works, Motion, Passed, Turn, First, Again
    <3>2. CASE ~approach
      <4>1. axislock # {}
        BY <1>0, <1>5, <3>2 DEF Check, Others, Control, Masked, Turn, HOMING_CYCLE_0, HOMING_CYCLE_1
      <4>2. Engaged \cap cycle = {}
        BY <1>5, <2>1, <3>2, <4>1 DEF Check, Failed
      <4>3. \A a \in cycle : switch[a] # "open"
        BY <1>5, <3>2 DEF Check, Works, Motion, Turn
      <4>4. \A a \in cycle : switch[a] = "ok"
        BY <1>0, <4>2, <4>3, CycleAxes DEF Engaged, Others
      <4> QED
        BY <1>5, <4>4 DEF Check, Works
    <3> QED
      BY <3>1, <3>2
  <2>2. CASE pc' # "stop"
    BY <1>5, <2>2 DEF Check, Works, Motion, Passed, Turn, First, Again
  <2> QED
    BY <2>1, <2>2
<1>6. CASE Stop
  BY <1>6 DEF Stop, Works, Motion, Passed, Turn, First, Again
<1>7. CASE Flip
  <2>1. n_cycle \in 0 .. 2 * N_HOMING_LOCATE_CYCLE + 1 /\ n_cycle % 2 = (IF approach THEN 1 ELSE 0)
    BY <1>0, <1>7 DEF Flip, Alternates, Motion, Numbers
  <2>2. Again' /\ ~Again => ~approach
    <3>1. SUFFICES ASSUME Again', ~Again, approach PROVE FALSE
      OBVIOUS
    <3>2. n_cycle' = n_cycle - 1 \/ n_cycle' = n_cycle
      BY <1>7 DEF Flip
    <3>3. n_cycle = 2 * N_HOMING_LOCATE_CYCLE
      BY <2>1, <3>1, <3>2, Bounds DEF Again
    <3> QED
      BY <2>1, <3>1, <3>3, Bounds
  <2>3. \A a \in cycle : switch[a] # "open"
    BY <1>7 DEF Flip, Works, Motion, Passed
  <2>4. Again' => \A a \in cycle : switch[a] = "ok"
    BY <1>7, <2>2 DEF Flip, Works, Motion, Passed
  <2>5. cycle' = cycle /\ switch' = switch /\ pc' \notin Passed /\ pc' \notin Turn
    BY <1>7 DEF Flip, Passed, Turn
  <2> QED
    BY <2>3, <2>4, <2>5 DEF Works
<1>8. CASE SetPosition
  <2>1. pc' = "phase" => approach' /\ First' /\ ~Again'
    BY <1>8, Bounds DEF SetPosition, First, Again
  <2>2. pc' = "phase" \/ pc' = "end"
    BY <1>8 DEF SetPosition
  <2> QED
    BY <2>1, <2>2 DEF Works, Motion, Passed, Turn
<1>9. CASE Abort \/ Finish \/ Suspended \/ Restart
  BY <1>9 DEF Abort, Finish, Suspended, Restart, Works, Motion, Turn
<1>10. CASE Tim2 \/ Reset \/ Request \/ UNCHANGED vars
  BY <1>10 DEF Tim2, Reset, Request, vars, Works, First, Again
<1> QED
  BY <1>1, <1>2, <1>3, <1>4, <1>5, <1>6, <1>7, <1>8, <1>9, <1>10 DEF Next, Main

\* What the two parts of the motion that are left say about the third.
LEMMA GivenType ==
  ASSUME TypeOK
  PROVE  /\ Travel \in Int /\ left \in Int /\ ring \in Int /\ lag \in Int /\ Given \in Int
         /\ 0 <= left /\ 0 <= ring /\ 0 <= lag /\ lag <= Lag /\ Given = Travel - left - ring
<1>1. Numbers
  BY TypeParts
<1> QED
  BY <1>1, TravelType, Bounds DEF Numbers, Given

LEMMA SameTravel == ASSUME approach' = approach, n_cycle' = n_cycle PROVE Travel' = Travel
  BY DEF Travel

\* What a TIM2 interrupt takes off the ring; it finds the ring empty at the end of the motion only.
LEMMA Tim2Given ==
  ASSUME TypeOK, Control, RingFed, Tim2, Homes
  PROVE  /\ pc \in Turn /\ lag' = lag + 1 /\ lag < Lag /\ left' = left
         /\ \/ ring > 0 /\ Given' = Given + 1 /\ tim2' /\ tim2 /\ out' = cycle \cap lock /\ flags' = flags
            \/ ring = 0 /\ left = 0 /\ Given' = Given /\ ~tim2' /\ ring' = 0 /\ flags' = flags \cup {"CYCLE_STOP"}
<1> USE DEF machine, local, motion
<1>0. Others
  BY TypeParts
<1>1. pc \in Turn /\ tim2
  BY <1>0 DEF Tim2, Control, AtRest, Resting, Turn, Others, Homes
<1>2. state = "HOMING"
  BY <1>1 DEF Control, StillHoming, Homes, Turn
<1>3. lag' = lag + 1 /\ lag < Lag /\ left' = left
  BY <1>1 DEF Tim2
<1>4. Travel' = Travel
  BY SameTravel DEF Tim2
<1>5. Moving = cycle \cap lock
  BY <1>2 DEF Moving
<1>6. CASE ring > 0
  <2>1. ring' = ring - 1 /\ tim2' = tim2 /\ out' = Moving /\ flags' = flags
    BY <1>6 DEF Tim2
  <2>2. Given' = Given + 1
    BY <1>3, <1>4, <2>1, GivenType DEF Given
  <2> QED
    BY <1>1, <1>3, <1>5, <1>6, <2>1, <2>2
<1>7. CASE ~(ring > 0)
  <2>1. ring' = ring /\ tim2' = FALSE /\ flags' = flags \cup {"CYCLE_STOP"}
    BY <1>7 DEF Tim2
  <2>2. ring = 0
    BY <1>7, GivenType
  <2>3. left = 0
    BY <1>1, <1>3, <2>2, GivenType, Bounds DEF RingFed, Turn
  <2>4. Given' = Given
    BY <1>3, <1>4, <2>1 DEF Given
  <2> QED
    BY <1>1, <1>3, <2>1, <2>2, <2>3, <2>4
<1> QED
  BY <1>6, <1>7

LEMMA CameClean == ASSUME Others, [Next]_vars, Clean', Homes' PROVE Clean /\ Homes
<1>1. Homes
  BY DEF machine, local, motion, Homes, Next, Main, Phase, WakeUp, Poll, Publish, Prep, Check, Stop, Flip,
         SetPosition, Abort, Finish, Suspended, Restart, Tim2, Reset, Request, vars
<1> QED
  BY <1>1, StaysClean DEF Homes

LEMMA NextInTime ==
  ASSUME TypeOK, Control, Locks, RingFed, Works, InTime, Placed, [Next]_vars PROVE InTime'
<1> USE DEF machine, local, motion
<1>0. Numbers /\ Others
  BY TypeParts
<1> SUFFICES ASSUME Clean', approach', Again', pc' \in Turn
             PROVE  Given' <= Pulloff + lag' + (IF axislock' = {} THEN Lag ELSE 0)
  BY DEF InTime
<1>a. Clean /\ Homes
  BY <1>0, CameClean DEF Homes, Turn
<1>b. /\ Travel \in Int /\ left \in Int /\ ring \in Int /\ lag \in Int /\ Given \in Int
      /\ 0 <= lag /\ lag <= Lag /\ Given = Travel - left - ring /\ Lag \in Int /\ Pulloff \in Int
  BY GivenType, Bounds
<1>1. CASE WakeUp
  <2>1. Given' = 0 /\ lag' = 0
    BY <1>1, SameTravel DEF WakeUp, RingFed, Given
  <2> QED
    BY <2>1, Bounds
<1>2. CASE Poll
  <2>1. Given' = Given /\ lag' = 0 /\ approach /\ Again /\ pc = "poll"
    BY <1>2, SameTravel DEF Poll, Given, Again
  <2>2. axislock # {} /\ axislock \subseteq cycle
    BY <2>1 DEF Locks, Turn
  <2>3. Given <= Pulloff + Lag
    BY <1>a, <1>b, <2>1, <2>2 DEF InTime, Turn
  <2>4. CASE axislock' = {}
    BY <1>b, <2>1, <2>3, <2>4
  <2>5. CASE axislock' # {}
    <3>1. PICK a \in axislock' : TRUE
      BY <2>5
    <3>2. a \in cycle /\ a \in Axis /\ a \notin Engaged
      BY <1>0, <1>2, <2>1, <2>2, <3>1 DEF Poll, Others
    <3>3. switch[a] = "ok"
      BY <2>1, <3>2 DEF Works, Motion, Turn
    <3>4. pos[a] \in Int /\ pos[a] < 0
      BY <1>0, <3>2, <3>3 DEF Engaged, Numbers
    <3>5. ~First
      BY <1>0, <2>1, Bounds DEF Again, First, Numbers
    <3>6. pos[a] + Due(a) + Pulloff >= Given
      BY <1>a, <2>1, <3>2, <3>3, <3>4, <3>5 DEF Placed, Place, Motion, Turn
    <3> QED
      BY <1>b, <2>1, <2>5, <3>4, <3>6, DueType
  <2> QED
    BY <2>4, <2>5
<1>3. CASE Publish \/ Check
  BY <1>3, <1>a, SameTravel DEF Publish, Check, InTime, Given, Again, Turn
<1>4. CASE Prep
  <2>1. left' = left - Room(left, ring) /\ ring' = ring + Room(left, ring) /\ Travel' = Travel
    BY <1>4, SameTravel DEF Prep, PrepBuffer
  <2>2. Room(left, ring) \in Int
    BY <1>b, Bounds DEF Room
  <2>3. Given' = Given
    BY <1>b, <2>1, <2>2 DEF Given
  <2> QED
    BY <1>4, <1>a, <2>3 DEF Prep, InTime, Again, Turn
<1>5. CASE Tim2
  <2>1. pc \in Turn /\ lag' = lag + 1 /\ (Given' = Given \/ Given' = Given + 1)
    BY <1>5, <1>a, Tim2Given
  <2>2. approach /\ Again /\ axislock' = axislock
    BY <1>5 DEF Tim2, Again
  <2> QED
    BY <1>a, <1>b, <2>1, <2>2 DEF InTime
<1>6. CASE Phase \/ Stop \/ Flip \/ SetPosition \/ Abort \/ Finish \/ Suspended \/ Restart
  BY <1>6 DEF Phase, Stop, Flip, SetPosition, Abort, Finish, Suspended, Restart, Turn
<1>7. CASE Reset \/ Request \/ UNCHANGED vars
  BY <1>7, <1>a, SameTravel DEF Reset, Request, vars, InTime, Given, Again
<1> QED
  BY <1>1, <1>2, <1>3, <1>4, <1>5, <1>6, <1>7 DEF Next, Main

LEMMA NextNoneLeft ==
  ASSUME LocateReaches, TypeOK, Control, Alternates, Locks, RingFed, InTime, NoneLeft, [Next]_vars
  PROVE  NoneLeft'
<1> USE DEF machine, local, motion
<1>0. Numbers /\ Others
  BY TypeParts
<1> SUFFICES ASSUME Clean', Again', pc' \in Motion
             PROVE  /\ pc' \in {"phase", "wake"} /\ ~approach' => "CYCLE_STOP" \notin flags'
                    /\ pc' \in Passed /\ approach' => "CYCLE_STOP" \notin flags'
                    /\ pc' \in Turn /\ ~approach' /\ (pc' = "stop" \/ "CYCLE_STOP" \in flags') =>
                         left' = 0 /\ ring' = 0 /\ ~tim2'
  BY DEF NoneLeft, Motion, Passed, Turn
<1>a. Clean /\ Homes
  BY <1>0, CameClean DEF Homes, Motion, Turn
<1>1. CASE Phase \/ WakeUp \/ Publish \/ Stop
  BY <1>1, <1>a DEF Phase, WakeUp, Publish, Stop, NoneLeft, Again, Passed, Turn
<1>2. CASE Poll
  BY <1>2, <1>a DEF Poll, NoneLeft, Again, Passed, Turn
<1>3. CASE Prep
  <2>1. left = 0 /\ ring = 0 => left' = 0 /\ ring' = 0
    <3>1. Room(0, 0) = 0
      BY Bounds DEF Room
    <3> QED
      BY <1>3, <3>1 DEF Prep, PrepBuffer
  <2> QED
    BY <1>3, <1>a, <2>1 DEF Prep, NoneLeft, Again, Passed, Turn
<1>4. CASE Check
  <2>1. UNCHANGED <<left, ring, approach, n_cycle>> /\ pc = "check"
    BY <1>4 DEF Check
  <2>2. pc' \in {"poll", "stop"}
    BY <1>4 DEF Check, Motion, Turn
  <2>3. tim2' = tim2 /\ flags' \subseteq flags
    BY <1>4, <2>2 DEF Check
  <2>4. approach /\ pc' = "stop" => "CYCLE_STOP" \notin flags'
    BY <1>4, <2>2 DEF Check, Failed
  <2>5. ~approach /\ pc' = "stop" => "CYCLE_STOP" \in flags
    <3>1. ~approach => axislock # {}
      BY <1>0, <2>1 DEF Others, Control, Masked, Turn, HOMING_CYCLE_0, HOMING_CYCLE_1
    <3> QED
      BY <1>4, <3>1 DEF Check, Failed
  <2> QED
    BY <1>a, <2>1, <2>2, <2>3, <2>4, <2>5 DEF NoneLeft, Again, Passed, Turn
<1>5. CASE Flip
  <2>1. n_cycle \in 0 .. 2 * N_HOMING_LOCATE_CYCLE + 1 /\ n_cycle % 2 = (IF approach THEN 1 ELSE 0)
    BY <1>0, <1>5 DEF Flip, Alternates, Motion, Numbers
  <2>2. approach => Again
    <3>1. SUFFICES ASSUME ~Again, approach PROVE FALSE
      OBVIOUS
    <3>2. n_cycle' = n_cycle - 1 \/ n_cycle' = n_cycle
      BY <1>5 DEF Flip
    <3>3. n_cycle = 2 * N_HOMING_LOCATE_CYCLE
      BY <2>1, <3>1, <3>2, Bounds DEF Again
    <3> QED
      BY <2>1, <3>1, <3>3, Bounds
  <2>3. pc' \notin Passed /\ pc' \notin Turn /\ flags' = flags /\ pc = "flip"
    BY <1>5 DEF Flip, Passed, Turn
  <2>4. ~approach' => approach
    BY <1>5 DEF Flip
  <2> QED
    BY <1>a, <2>2, <2>3, <2>4 DEF NoneLeft, Passed
<1>6. CASE SetPosition
  BY <1>6 DEF SetPosition, Passed, Turn, Motion
<1>7. CASE Abort \/ Finish \/ Suspended \/ Restart
  BY <1>7 DEF Abort, Finish, Suspended, Restart, Motion, Turn
<1>8. CASE Tim2
  <2>1. pc \in Turn /\ pc' = pc /\ approach' = approach /\ Again /\ tim2
    BY <1>8, <1>a, Tim2Given DEF Tim2, Again
  <2>2. CASE ring > 0
    <3>1. flags' = flags
      BY <1>8, <1>a, <2>2, Tim2Given
    <3> QED
      BY <1>a, <2>1, <3>1 DEF NoneLeft, Passed, Turn
  <2>3. CASE ring = 0
    <3>1. left = 0 /\ ring' = 0 /\ left' = 0 /\ ~tim2'
      BY <1>8, <1>a, <2>3, Tim2Given
    <3>2. ~(approach /\ pc \in Passed)
      <4>1. SUFFICES ASSUME approach, pc = "stop" PROVE FALSE
        BY <2>1 DEF Passed, Turn
      <4>2. Travel = Locate
        BY <1>0, <2>1, <4>1, Bounds DEF Travel, Again, Numbers
      <4>3. axislock = {}
        BY <4>1 DEF Control, Masked
      <4>4. Given <= Pulloff + lag + Lag
        BY <1>a, <2>1, <4>1, <4>3 DEF InTime
      <4>5. lag < Lag
        BY <1>8, <1>a, Tim2Given
      <4> QED
        BY <2>3, <3>1, <4>2, <4>4, <4>5, GivenType, Bounds DEF LocateReaches
    <3> QED
      BY <2>1, <3>1, <3>2 DEF Turn
  <2> QED
    BY <2>2, <2>3, GivenType
<1>9. CASE Reset
  <2>1. FALSE
    BY <1>9 DEF Reset, McReset, Clean
  <2> QED
    BY <2>1
<1>10. CASE Request \/ UNCHANGED vars
  BY <1>10, <1>a DEF Request, vars, NoneLeft, Again
<1> QED
  BY <1>1, <1>2, <1>3, <1>4, <1>5, <1>6, <1>7, <1>8, <1>9, <1>10 DEF Next, Main

LEMMA NextPlaced ==
  ASSUME TypeOK, Control, Reached, Alternates, Locks, RingFed, NoneLeft, Placed, [Next]_vars
  PROVE  Placed'
<1> USE DEF machine, local, motion
<1>0. Numbers /\ Others
  BY TypeParts
<1> SUFFICES ASSUME Clean', pc' \in Motion \cup {"set"}, NEW a \in cycle', switch'[a] = "ok"
             PROVE  Place(a)'
  BY DEF Placed
<1>a. Clean /\ Homes
  BY <1>0, CameClean DEF Homes, Motion, Turn
<1>b. /\ Travel \in Int /\ left \in Int /\ ring \in Int /\ lag \in Int /\ Given \in Int
      /\ 0 <= left /\ 0 <= ring /\ Given = Travel - left - ring /\ Lag \in Int /\ Pulloff \in Int
  BY GivenType, Bounds
<1>c. switch[a] = "ok" /\ a \in Axis
  BY <1>0, CycleAxes DEF Others, Next, Main, Phase, WakeUp, Poll, Publish, Prep, Check, Stop, Flip, SetPosition, Abort,
         Finish, Suspended, Restart, Tim2, Reset, Request, vars
<1>d. pos[a] \in Int
  BY <1>0, <1>c DEF Numbers
<1>e. a \in cycle /\ pc \in Motion \cup {"set"} => Place(a)
  BY <1>a, <1>c DEF Placed
<1>f. Due(a) \in {0, 1} /\ (~tim2 \/ a \notin out => Due(a) = 0)
  BY DueType
<1>1. CASE Phase
  BY <1>1, <1>e DEF Phase, Place, Motion, Turn, First, Again
<1>2. CASE WakeUp
  <2>1. Given' = 0 /\ Due(a)' = 0 /\ pos' = pos /\ approach' = approach /\ cycle' = cycle
    BY <1>2, SameTravel DEF WakeUp, RingFed, Given, Due
  <2>2. pc = "wake" /\ pc' = "poll" /\ axislock' = cycle /\ n_cycle' = n_cycle
    BY <1>2 DEF WakeUp, Control, Masked
  <2>3. pos[a] <= 2 * Lag
    BY <1>a, <1>c DEF Reached, Reach
  <2>4. Place(a)
    BY <1>e, <2>1, <2>2 DEF Motion
  <2> QED
    BY <1>b, <1>d, <2>1, <2>2, <2>3, <2>4 DEF Place, Turn, First, Again
<1>3. CASE Poll
  <2>1. Given' = Given /\ Due(a)' = Due(a)
    BY <1>3, SameTravel DEF Poll, Given, Due
  <2>2. a \in Engaged => pos[a] >= 0
    BY <1>c DEF Engaged
  <2> QED
    BY <1>3, <1>e, <2>1, <2>2 DEF Poll, Place, Motion, Turn, First, Again
<1>4. CASE Publish
  <2>1. Given' = Given /\ Due(a)' = Due(a)
    BY <1>4, SameTravel DEF Publish, Given, Due
  <2> QED
    BY <1>4, <1>e, <2>1 DEF Publish, Place, Motion, Turn, First, Again
<1>5. CASE Prep
  <2>1. left' = left - Room(left, ring) /\ ring' = ring + Room(left, ring) /\ Travel' = Travel
    BY <1>5, SameTravel DEF Prep, PrepBuffer
  <2>2. Room(left, ring) \in Int
    BY <1>b, Bounds DEF Room
  <2>3. Given' = Given
    BY <1>b, <2>1, <2>2 DEF Given
  <2>4. Due(a)' = Due(a)
    BY <1>5 DEF Prep, Due
  <2> QED
    BY <1>5, <1>e, <2>3, <2>4 DEF Prep, Place, Motion, Turn, First, Again
<1>6. CASE Check
  <2>1. pc' \in {"poll", "stop"} /\ pc = "check"
    BY <1>6 DEF Check, Motion, Turn
  <2>2. UNCHANGED <<pos, approach, n_cycle, cycle, axislock, left, ring, out>> /\ tim2' = tim2
    BY <1>6, <2>1 DEF Check
  <2>3. Given' = Given /\ Due(a)' = Due(a)
    BY <2>2, SameTravel DEF Given, Due
  <2> QED
    BY <1>e, <2>1, <2>2, <2>3 DEF Place, Motion, Turn, First, Again
<1>7. CASE Stop
  <2>1. UNCHANGED <<pos, approach, n_cycle, cycle>> /\ pc = "stop" /\ pc' = "flip" /\ a \in cycle
    BY <1>7 DEF Stop
  <2>2. Place(a)
    BY <1>e, <2>1 DEF Motion, Turn
  <2>3. CASE approach
    <3>1. pos[a] >= 0
      BY <2>1, <2>2, <2>3 DEF Place, Turn, Control, Masked
    <3> QED
      BY <2>1, <2>3, <3>1 DEF Place, Turn
  <2>4. CASE ~approach
    <3>1. pos[a] - Due(a) + Given >= 0
      BY <2>1, <2>2, <2>4 DEF Place, Turn
    <3>2. Travel = Pulloff
      BY <2>4 DEF Travel
    <3>3. pos'[a] >= -Pulloff
      BY <1>b, <1>d, <1>f, <2>1, <3>1, <3>2
    <3>4. Again => pos'[a] <= 2 * Lag - Pulloff
      <4>1. SUFFICES ASSUME Again PROVE pos[a] <= 2 * Lag - Pulloff
        BY <2>1
      <4>2. left = 0 /\ ring = 0 /\ ~tim2
        BY <1>a, <2>1, <2>4, <4>1 DEF NoneLeft, Turn
      <4>3. pos[a] - Due(a) + Given <= 2 * Lag
        BY <2>1, <2>2, <2>4, <4>1 DEF Place, Turn
      <4> QED
        BY <1>b, <1>d, <1>f, <3>2, <4>2, <4>3
    <3> QED
      BY <2>1, <2>4, <3>3, <3>4 DEF Place, Turn, Again
  <2> QED
    BY <2>3, <2>4
<1>8. CASE Flip
  <2>1. UNCHANGED <<pos, cycle>> /\ pc = "flip" /\ pc' \in {"phase", "set"}
    BY <1>8 DEF Flip
  <2>2. Place(a)
    BY <1>e, <2>1 DEF Motion
  <2>3. n_cycle \in 0 .. 2 * N_HOMING_LOCATE_CYCLE + 1 /\ n_cycle % 2 = (IF approach THEN 1 ELSE 0)
    BY <1>0, <1>8 DEF Flip, Alternates, Motion, Numbers
  <2>4. CASE approach
    <3>1. pc' = "phase"
      <4>1. n_cycle > 0
        BY <2>3, <2>4
      <4> QED
        BY <1>8, <4>1 DEF Flip
    <3>2. ~approach'
      BY <1>8, <2>4 DEF Flip
    <3>3. pos[a] >= 0
      BY <2>1, <2>2, <2>4 DEF Place
    <3> QED
      BY <2>1, <3>1, <3>2, <3>3 DEF Place, Turn
  <2>5. CASE ~approach
    <3>1. approach'
      BY <1>8, <2>5 DEF Flip
    <3>2. pos[a] >= -Pulloff
      BY <2>1, <2>2, <2>5 DEF Place
    <3>3. pc' = "set" => Again
      <4>1. pc' = "set" => ~(n_cycle > 0)
        BY <1>8 DEF Flip
      <4> QED
        BY <2>3, <4>1, Bounds DEF Again
    <3>4. Again => pos[a] <= 2 * Lag - Pulloff
      BY <2>1, <2>2, <2>5 DEF Place
    <3> QED
      BY <1>b, <1>d, <2>1, <3>1, <3>2, <3>3, <3>4 DEF Place, Turn
  <2> QED
    BY <2>4, <2>5
<1>9. CASE SetPosition
  <2>1. pc' = "phase" /\ approach' /\ First'
    BY <1>9 DEF SetPosition, Motion, Turn, First
  <2> QED
    BY <2>1 DEF Place, Turn
<1>10. CASE Abort \/ Finish \/ Suspended \/ Restart
  BY <1>10 DEF Abort, Finish, Suspended, Restart, Motion, Turn
<1>11. CASE Tim2
  <2>1. UNCHANGED <<pc, cycle, approach, n_cycle, axislock>> /\ pc \in Turn
    BY <1>11, <1>a, Tim2Given DEF Tim2
  <2>2. Place(a)
    BY <1>e, <2>1 DEF Motion
  <2>3. pos'[a] = (IF approach THEN pos[a] + Due(a) ELSE pos[a] - Due(a))
    BY <1>0, <1>11, <1>c, <1>d DEF Tim2, Pulse, Due, Numbers
  <2>4. Due(a)' \in {0, 1}
    BY DEF Due
  <2>5. \/ ring > 0 /\ Given' = Given + 1 /\ (a \in lock => Due(a)' = 1)
        \/ ring = 0 /\ Given' = Given /\ Due(a)' = 0
    <3>1. \/ ring > 0 /\ Given' = Given + 1 /\ tim2' /\ out' = cycle \cap lock
          \/ ring = 0 /\ Given' = Given /\ ~tim2'
      BY <1>11, <1>a, Tim2Given
    <3> QED
      BY <2>1, <3>1 DEF Due
  <2>6. CASE approach
    <3>1. pos'[a] = pos[a] + Due(a)
      BY <2>3, <2>6
    <3>2. ~First => pos'[a] + Due(a)' + Pulloff >= Given' \/ pos'[a] >= 0
      <4>1. SUFFICES ASSUME ~First, ~(pos[a] >= 0)
                     PROVE  pos'[a] + Due(a)' + Pulloff >= Given'
        BY <1>d, <1>f, <3>1
      <4>2. pos[a] + Due(a) + Pulloff >= Given
        BY <2>1, <2>2, <2>6, <4>1 DEF Place
      <4>3. a \in axislock
        BY <2>1, <2>2, <2>6, <4>1 DEF Place
      <4>4. a \in lock
        BY <2>1, <4>3 DEF Locks
      <4> QED
        BY <1>b, <1>d, <1>f, <2>4, <2>5, <3>1, <4>2, <4>4
    <3>3. a \notin axislock => pos'[a] >= 0
      BY <1>d, <1>f, <2>1, <2>2, <2>6, <3>1 DEF Place
    <3> QED
      BY <2>1, <2>6, <3>2, <3>3 DEF Place, Turn, First
  <2>7. CASE ~approach
    <3>1. pos'[a] = pos[a] - Due(a)
      BY <2>3, <2>7
    <3>2. a \in lock
      BY <2>1, <2>7 DEF Locks
    <3>3. pos'[a] - Due(a)' + Given' = pos[a] - Due(a) + Given
      BY <1>b, <1>d, <1>f, <2>4, <2>5, <3>1, <3>2
    <3> QED
      BY <2>1, <2>2, <2>7, <3>3 DEF Place, Turn, Again
  <2> QED
    BY <2>6, <2>7
<1>12. CASE Reset
  <2>1. FALSE
    BY <1>12 DEF Reset, McReset, Clean
  <2> QED
    BY <2>1
<1>13. CASE Request \/ UNCHANGED vars
  <2>1. UNCHANGED <<pos, pc, cycle, approach, n_cycle, axislock, left, ring, out, tim2>>
    BY <1>13 DEF Request, vars
  <2>2. Given' = Given /\ Due(a)' = Due(a)
    BY <2>1, SameTravel DEF Given, Due
  <2> QED
    BY <1>e, <2>1, <2>2 DEF Place, First, Again
<1> QED
  BY <1>1, <1>2, <1>3, <1>4, <1>5, <1>6, <1>7, <1>8, <1>9, <1>10, <1>11, <1>12, <1>13 DEF Next, Main

LEMMA NextStays ==
  ASSUME TypeOK, Control, Alternates, Works, Placed, Stays, [Next]_vars PROVE Stays'
<1> USE DEF machine, local, motion
<1>0. Numbers /\ Others
  BY TypeParts
<1>1. CASE Phase \/ WakeUp \/ Poll \/ Publish \/ Prep \/ Stop \/ Flip
  <2>1. UNCHANGED <<pos, switch, homed, cycle, flags, state>> /\ pc \in Motion /\ pc' \in Motion \cup {"set"}
    BY <1>1 DEF Phase, WakeUp, Poll, Publish, Prep, Stop, Flip, Motion, Turn
  <2> QED
    BY <2>1 DEF Stays, Over, Homed, Clean, Homes, Motion, Turn
<1>2. CASE Check
  <2>1. UNCHANGED <<pos, switch, homed, cycle, state>> /\ pc = "check" /\ pc' \in {"poll", "stop", "rt"}
    BY <1>2 DEF Check
  <2>2. pc' # "rt" /\ Clean' => Clean
    BY <1>2, <1>0, StaysClean DEF Check
  <2> QED
    BY <2>1, <2>2 DEF Stays, Over, Homed, Homes, Motion, Turn
<1>3. CASE SetPosition
  <2>1. UNCHANGED <<pos, switch, flags, tim2>> /\ pc = "set" /\ homed' = homed \cup cycle
    BY <1>3 DEF SetPosition
  <2>2. homed = (IF cycle = HOMING_CYCLE_0 THEN {} ELSE HOMING_CYCLE_0) /\ ~tim2
    BY <2>1 DEF Stays, Control, AtRest, Resting
  <2>3. Clean => \A a \in homed' : Homed(a)
    <3>1. SUFFICES ASSUME Clean, NEW a \in homed' PROVE Homed(a)
      OBVIOUS
    <3>2. CASE a \in homed
      BY <2>1, <3>1, <3>2 DEF Stays, Homes
    <3>3. CASE a \in cycle
      <4>1. Again /\ approach
        BY <2>1, Bounds DEF Alternates, Again
      <4>2. switch[a] = "ok"
        BY <2>1, <3>3, <4>1 DEF Works
      <4>3. Place(a)
        BY <2>1, <3>1, <3>3, <4>2 DEF Placed
      <4> QED
        BY <2>1, <4>1, <4>2, <4>3 DEF Place, Homed
    <3> QED
      BY <2>1, <3>2, <3>3
  <2>4. CASE cycle = HOMING_CYCLE_0
    <3>1. pc' = "phase" /\ cycle' = HOMING_CYCLE_1 /\ homed' = HOMING_CYCLE_0
      BY <1>3, <2>2, <2>4 DEF SetPosition
    <3> QED
      BY <2>1, <2>3, <3>1 DEF Stays, Over, Homed, Clean, Homes, HOMING_CYCLE_0, HOMING_CYCLE_1
  <2>5. CASE cycle # HOMING_CYCLE_0
    <3>1. pc' = "end" /\ homed' = Axis
      BY <1>0, <1>3, <2>1, <2>2, <2>5 DEF SetPosition, Others, HOMING_CYCLE_0, HOMING_CYCLE_1, Axis
    <3> QED
      BY <2>1, <2>2, <2>3, <3>1 DEF Stays, Over, Homed, Clean, Homes, Motion, Turn
  <2> QED
    BY <2>4, <2>5
<1>4. CASE Abort
  BY <1>4 DEF Abort, Stays, Over, Homes, Motion, Turn
<1>5. CASE Finish
  <2>1. UNCHANGED <<pos, switch, homed, tim2>> /\ pc = "end" /\ pc' \in {"restart", "suspended", "done"}
    BY <1>5 DEF Finish
  <2>2. (pc' = "restart" /\ state' = "ALARM") \/ Clean
    BY <1>5 DEF Finish, Clean
  <2> QED
    BY <2>1, <2>2 DEF Stays, Over, Homed, Homes, Motion, Turn
<1>6. CASE Suspended
  BY <1>6 DEF Suspended, Stays, Over, Homed, Homes, Motion, Turn
<1>7. CASE Restart
  BY <1>7 DEF Restart, Stays, Over, Homed, Homes, Motion, Turn
<1>8. CASE Tim2
  <2>1. UNCHANGED <<pc, switch, homed, cycle, state>> /\ tim2
    BY <1>8 DEF Tim2
  <2>2. ~Over /\ pc # "suspended"
    BY <2>1 DEF Stays, Over
  <2>3. Clean' => Clean
    BY <1>8 DEF Tim2, Clean
  <2>4. Homes => pc \in Motion
    BY <1>0, <2>1 DEF Homes, Others, Control, AtRest, Resting, Motion
  <2>5. Homes => \A a \in homed : pos'[a] = pos[a]
    <3>1. SUFFICES ASSUME Homes, NEW a \in homed PROVE pos'[a] = pos[a]
      OBVIOUS
    <3>2. a \notin cycle /\ a \in Axis
      BY <1>0, <2>4, <3>1 DEF Stays, Others, HOMING_CYCLE_0, HOMING_CYCLE_1
    <3>3. a \notin out
      BY <3>2 DEF Control, InCycle
    <3> QED
      BY <1>8, <3>2, <3>3 DEF Tim2, Pulse
  <2> QED
    BY <2>1, <2>2, <2>3, <2>4, <2>5 DEF Stays, Over, Homed, Homes
<1>9. CASE Reset
  <2>1. UNCHANGED <<pos, pc, switch, homed, cycle, state>> /\ (tim2' => tim2) /\ ~Clean'
    BY <1>0, <1>9 DEF Reset, McReset, Clean, Others
  <2> QED
    BY <2>1 DEF Stays, Over, Homed
<1>10. CASE Request \/ UNCHANGED vars
  BY <1>10 DEF Request, vars, Stays, Over, Homed, Clean, Homes
<1> QED
  BY <1>1, <1>2, <1>3, <1>4, <1>5, <1>6, <1>7, <1>8, <1>9, <1>10 DEF Next, Main

LEMMA InitLocate == Init => LocateInv
<1> SUFFICES ASSUME Init PROVE LocateInv
  OBVIOUS
<1>1. (2 * N_HOMING_LOCATE_CYCLE + 1) % 2 = 1 /\ First /\ ~Again
  BY Bounds DEF Init, First, Again
<1>2. Alternates /\ Locks /\ RingFed
  BY <1>1 DEF Init, Alternates, Locks, RingFed, Turn
<1>3. Works /\ InTime /\ NoneLeft
  BY <1>1 DEF Init, Works, InTime, NoneLeft, Turn, Passed
<1>4. Placed
  BY <1>1 DEF Init, Placed, Place, Turn
<1>5. Stays
  BY DEF Init, Stays, Over, Homes
<1> QED
  BY <1>2, <1>3, <1>4, <1>5 DEF LocateInv

\* $H leaves the machine in IDLE only with every axis the pull-off away from a switch that works,
\* up to two turns of the polling loop: limits.c, whatever the travel, the starts, the switches and
\* the requests, if the search again is longer than the pull-off by those two turns.
THEOREM HomedInPlace == ASSUME LocateReaches PROVE Spec => []HomedAtSwitch
<1>1. Init => LocateInv
  BY InitLocate
<1>2. IInv /\ LocateInv /\ [Next]_vars => LocateInv'
  <2> SUFFICES ASSUME IInv, LocateInv, [Next]_vars PROVE LocateInv'
    OBVIOUS
  <2>1. TypeOK /\ Control /\ Reached
    BY DEF IInv, Control
  <2>2. Alternates /\ Locks /\ RingFed /\ Works /\ InTime /\ NoneLeft /\ Placed /\ Stays
    BY DEF LocateInv
  <2>3. Alternates' /\ Locks' /\ RingFed' /\ Works'
    BY <2>1, <2>2, NextAlternates, NextLocks, NextRingFed, NextWorks
  <2>4. InTime' /\ NoneLeft'
    BY <2>1, <2>2, NextInTime, NextNoneLeft
  <2>5. Placed' /\ Stays'
    BY <2>1, <2>2, NextPlaced, NextStays
  <2> QED
    BY <2>3, <2>4, <2>5 DEF LocateInv
<1>3. LocateInv => HomedAtSwitch
  BY DEF LocateInv, Stays, Over, Homed, HomedAtSwitch
<1> QED
  BY <1>1, <1>2, <1>3, Invariance, PTL DEF Spec
=============================================================================
