------------------------------- MODULE Homing -------------------------------
(***************************************************************************)
(* The homing cycle: limits_go_home() of drivers/grbl/limits.c, called by  *)
(* $H through mc_homing_cycle().  It plans its own motions, prepares the   *)
(* segments and polls the limit switches in a loop that makes no pass of   *)
(* protocol_execute_realtime(), while the TIM2 interrupt steps the axes    *)
(* and masks those that the loop has locked; it reads the real-time flags  *)
(* itself, and an interrupt may set one at any point.                      *)
(*                                                                         *)
(* A distance is a number of step events, each a step of every axis of the *)
(* cycle: the axes have one resolution.  An axis stands on its switch from *)
(* position 0 on.  Hard limits are off (the cycle disables them).          *)
(***************************************************************************)
EXTENDS Integers

CONSTANTS
  N_HOMING_LOCATE_CYCLE,   \* config.h
  Seek,      \* how far a switch is searched: 1.5 times the axis' travel
  Locate,    \* how far it is searched again: 5 times the pull-off
  Pulloff,   \* settings.homing_pulloff
  Ring,      \* step events that the segment ring holds
  Lag,       \* bound: TIM2 interrupts in one turn of the polling loop
  Start      \* how far before its switch an axis may stand when $H is given

\* The loop refills the ring before it runs dry (limits.c: "no longer than 200us"), and no
\* axis starts beyond the point where its switch closes.
ASSUME HomingAssumption ==
  /\ N_HOMING_LOCATE_CYCLE \in Nat \ {0}
  /\ Seek \in Nat /\ Locate \in Nat /\ Pulloff \in Nat /\ Ring \in Nat \ {0} /\ Lag \in Nat
  /\ 2 * Lag < Ring
  /\ Start \subseteq Nat

Axis == {"X", "Y", "Z"}
HOMING_CYCLE_0 == {"Z"}
HOMING_CYCLE_1 == {"X", "Y"}

VARIABLES
  \* --- the machine
  pos,        \* where each axis stands
  switch,     \* whether its limit switch works, never closes or is always closed
  \* --- main program
  pc,         \* where it stands
  cycle,      \* cycle_mask
  n_cycle, approach, axislock,
  left,       \* events of the motion that are not yet cut into segments
  homed,      \* axes whose machine position has been set
  state,      \* sys.state
  \* --- shared with interrupts
  lock,       \* sys.homing_axis_lock
  ring,       \* events on the segment ring
  out,        \* st.step_outbits: the axes that the next interrupt steps
  tim2,       \* the stepper timer runs and interrupts
  flags,      \* sys_rt_exec_state
  alarm,      \* sys_rt_exec_alarm is one of homing
  \* --- bound
  lag         \* TIM2 interrupts since the switches were read

machine == <<pos, switch>>
local   == <<cycle, n_cycle, approach, axislock, homed>>
motion  == <<left, ring, out, tim2>>
vars    == <<machine, pc, local, state, lock, motion, flags, alarm, lag>>

Requests == {"RESET", "SAFETY_DOOR", "FEED_HOLD"}
Turn == {"poll", "publish", "prep", "check", "stop"}

\* $H in IDLE or ALARM, with the planner empty and nothing moving.
Init ==
  /\ pos \in [Axis -> {-d : d \in Start}] /\ switch \in [Axis -> {"ok", "open", "closed"}]
  /\ pc = "phase" /\ cycle = HOMING_CYCLE_0 /\ n_cycle = 2 * N_HOMING_LOCATE_CYCLE + 1
  /\ approach = TRUE /\ axislock = {} /\ homed = {} /\ state = "HOMING" /\ lock = {}
  /\ left = 0 /\ ring = 0 /\ out = {} /\ tim2 = FALSE
  /\ flags = {} /\ alarm = FALSE /\ lag = 0

\* limits_get_state()
Engaged == {a \in Axis : switch[a] = "closed" \/ (switch[a] = "ok" /\ pos[a] >= 0)}

\* max_travel of the motion that is about to be planned.
Travel ==
  IF ~approach THEN Pulloff
  ELSE IF n_cycle = 2 * N_HOMING_LOCATE_CYCLE + 1 THEN Seek ELSE Locate

\* st_prep_buffer(), with l events to cut and r on the ring: it fills the ring.
Room(l, r) == IF l < Ring - r THEN l ELSE Ring - r
\* Mutant of PrepBuffer: the ring is filled whatever is on it already.
PrepBufferOver(l, r) == left' = l - Room(l, 0) /\ ring' = r + Room(l, 0)

PrepBuffer(l, r) == left' = l - Room(l, r) /\ ring' = r + Room(l, r)

\* mc_reset() in a homing cycle, with st_go_idle(); the alarm is set by then or here.
McReset ==
  /\ flags' = flags \cup {"RESET"}
  /\ tim2' = (tim2 /\ "RESET" \in flags)
  /\ alarm' = TRUE

-----------------------------------------------------------------------------
(* limits_go_home() *)

\* Plans the motion, unlocks the cycle's axes and fills the ring.
Phase ==
  /\ pc = "phase" /\ pc' = "wake"
  /\ axislock' = cycle /\ lock' = cycle
  /\ PrepBuffer(Travel, 0)
  /\ UNCHANGED <<machine, cycle, n_cycle, approach, homed, state, out, tim2, flags, alarm, lag>>

\* st_wake_up()
WakeUp ==
  /\ pc = "wake" /\ pc' = "poll"
  /\ out' = {} /\ tim2' = TRUE /\ lag' = 0
  /\ UNCHANGED <<machine, local, state, lock, left, ring, flags, alarm>>

\* An axis that stands on its switch is locked, first in the loop's own copy.
Poll ==
  /\ pc = "poll" /\ pc' = "publish"
  /\ axislock' = (IF approach THEN axislock \ Engaged ELSE axislock)
  /\ lag' = 0
  /\ UNCHANGED <<machine, cycle, n_cycle, approach, homed, state, lock, motion, flags, alarm>>

Publish ==
  /\ pc = "publish" /\ pc' = "prep"
  /\ lock' = (IF approach THEN axislock ELSE lock)
  /\ UNCHANGED <<machine, local, state, motion, flags, alarm, lag>>

Prep ==
  /\ pc = "prep" /\ pc' = "check"
  /\ PrepBuffer(left, ring)
  /\ UNCHANGED <<machine, local, state, lock, out, tim2, flags, alarm, lag>>

\* Mutant of Failed: running out of travel without finding the switch is no failure.
FailedSeen ==
  \/ flags \cap {"RESET", "SAFETY_DOOR"} # {} \/ alarm
  \/ ~approach /\ Engaged \cap cycle # {}

\* Reset, door, switch still engaged after the pull-off, switch not found.
Failed ==
  \/ flags \cap {"RESET", "SAFETY_DOOR"} # {} \/ alarm
  \/ ~approach /\ Engaged \cap cycle # {}
  \/ approach /\ "CYCLE_STOP" \in flags

\* Only these flags, or the last axis at its switch, end the loop.
Check ==
  /\ pc = "check"
  /\ IF flags \cap {"RESET", "SAFETY_DOOR", "CYCLE_STOP"} = {}
     THEN /\ pc' = (IF axislock = {} THEN "stop" ELSE "poll")
          /\ UNCHANGED <<flags, alarm, tim2>>
     ELSE IF Failed THEN pc' = "rt" /\ McReset
     ELSE pc' = "stop" /\ flags' = flags \ {"CYCLE_STOP"} /\ UNCHANGED <<alarm, tim2>>
  /\ UNCHANGED <<machine, local, state, lock, left, ring, out, lag>>

\* st_reset()
Stop ==
  /\ pc = "stop" /\ pc' = "flip"
  /\ left' = 0 /\ ring' = 0 /\ out' = {} /\ tim2' = FALSE
  /\ UNCHANGED <<machine, local, state, lock, flags, alarm, lag>>

\* After the debounce delay the direction is reversed: 2 * N_HOMING_LOCATE_CYCLE + 2 motions.
Flip ==
  /\ pc = "flip" /\ approach' = ~approach
  /\ IF n_cycle > 0 THEN n_cycle' = n_cycle - 1 /\ pc' = "phase" ELSE pc' = "set" /\ UNCHANGED n_cycle
  /\ UNCHANGED <<machine, cycle, axislock, homed, state, lock, motion, flags, alarm, lag>>

\* The positions are set, and the next cycle begins.
SetPosition ==
  /\ pc = "set" /\ homed' = homed \cup cycle
  /\ IF cycle = HOMING_CYCLE_0
     THEN /\ pc' = "phase" /\ cycle' = HOMING_CYCLE_1
          /\ n_cycle' = 2 * N_HOMING_LOCATE_CYCLE + 1 /\ approach' = TRUE
     ELSE pc' = "end" /\ UNCHANGED <<cycle, n_cycle, approach>>
  /\ UNCHANGED <<machine, axislock, state, lock, motion, flags, alarm, lag>>

-----------------------------------------------------------------------------
(* Its callers *)

\* protocol_execute_realtime() after a failure, with RESET set: ALARM and abort.
Abort ==
  /\ pc = "rt" /\ pc' = "restart"
  /\ state' = "ALARM" /\ alarm' = FALSE
  /\ UNCHANGED <<machine, local, lock, motion, flags, lag>>

\* The same at the end of mc_homing_cycle().  A safety door suspends the program for good,
\* a feed hold comes to nothing, and $H leaves the machine in IDLE.
Finish ==
  /\ pc = "end"
  /\ IF "RESET" \in flags THEN pc' = "restart" /\ state' = "ALARM" /\ UNCHANGED flags
     ELSE /\ flags' = flags \ {"FEED_HOLD", "SAFETY_DOOR"}
          /\ IF "SAFETY_DOOR" \in flags THEN pc' = "suspended" /\ state' = "SAFETY_DOOR"
             ELSE pc' = "done" /\ state' = "IDLE"
  /\ alarm' = FALSE
  /\ UNCHANGED <<machine, local, lock, motion, lag>>

Suspended ==
  /\ pc = "suspended" /\ "RESET" \in flags /\ pc' = "restart"
  /\ UNCHANGED <<machine, local, state, lock, motion, flags, alarm, lag>>

\* The loop of main.c, which clears sys, the flags and the steppers; an ALARM stays.
Restart ==
  /\ pc = "restart" /\ pc' = "done"
  /\ state' = (IF state = "ALARM" THEN "ALARM" ELSE "IDLE")
  /\ lock' = {} /\ flags' = {} /\ alarm' = FALSE
  /\ left' = 0 /\ ring' = 0 /\ out' = {} /\ tim2' = FALSE
  /\ UNCHANGED <<machine, local, lag>>

-----------------------------------------------------------------------------
(* Interrupts *)

\* The motors step what the interrupt before computed.
Pulse == pos' = [a \in Axis |-> IF a \notin out THEN pos[a] ELSE IF approach THEN pos[a] + 1 ELSE pos[a] - 1]

\* Mutant of Moving: the axis lock is not applied.
MovingAll == cycle

\* The axes of the next step event, without the locked ones while homing.
Moving == IF state = "HOMING" THEN cycle \cap lock ELSE cycle

\* Mutant of Tim2: the end of the motion is not reported.
Tim2Silent ==
  /\ tim2 /\ (pc \in Turn => lag < Lag)
  /\ lag' = IF pc \in Turn THEN lag + 1 ELSE lag
  /\ Pulse
  /\ IF ring > 0 THEN ring' = ring - 1 /\ out' = Moving /\ UNCHANGED tim2
     ELSE tim2' = FALSE /\ UNCHANGED <<ring, out>>
  /\ UNCHANGED <<switch, pc, local, state, lock, left, flags, alarm>>

Tim2 ==
  /\ tim2 /\ (pc \in Turn => lag < Lag)
  /\ lag' = IF pc \in Turn THEN lag + 1 ELSE lag
  /\ Pulse
  /\ IF ring > 0 THEN ring' = ring - 1 /\ out' = Moving /\ UNCHANGED <<tim2, flags>>
     ELSE tim2' = FALSE /\ flags' = flags \cup {"CYCLE_STOP"} /\ UNCHANGED <<ring, out>>
  /\ UNCHANGED <<switch, pc, local, state, lock, left, alarm>>

\* A reset only has motors to stop, and an alarm to raise, while homing.
Reset ==
  /\ pc # "done" /\ "RESET" \notin flags
  /\ IF state = "HOMING" THEN McReset ELSE flags' = flags \cup {"RESET"} /\ UNCHANGED <<tim2, alarm>>
  /\ UNCHANGED <<machine, pc, local, state, lock, left, ring, out, lag>>

Request ==
  /\ pc \notin {"done", "suspended"}
  /\ \E r \in {"SAFETY_DOOR", "FEED_HOLD"} \ flags : flags' = flags \cup {r}
  /\ UNCHANGED <<machine, pc, local, state, lock, motion, alarm, lag>>

-----------------------------------------------------------------------------
Main ==
  \/ Phase \/ WakeUp \/ Poll \/ Publish \/ Prep \/ Check \/ Stop \/ Flip \/ SetPosition
  \/ Abort \/ Finish \/ Suspended \/ Restart
Next == Main \/ Tim2 \/ Reset \/ Request
Spec == Init /\ [][Next]_vars

\* The main program runs between interrupts, and TIM2 fires while it is on.
FairSpec == Spec /\ WF_vars(Main) /\ WF_vars(Tim2)

-----------------------------------------------------------------------------
(* Properties *)

\* Every variable keeps to the values the code gives it.
TypeOK ==
  /\ pos \in [Axis -> Int] /\ switch \in [Axis -> {"ok", "open", "closed"}]
  /\ pc \in Turn \cup {"phase", "wake", "flip", "set", "rt", "end", "suspended", "restart", "done"}
  /\ cycle \in {HOMING_CYCLE_0, HOMING_CYCLE_1} /\ n_cycle \in 0 .. 2 * N_HOMING_LOCATE_CYCLE + 1
  /\ approach \in BOOLEAN /\ axislock \subseteq Axis /\ homed \subseteq Axis
  /\ state \in {"HOMING", "ALARM", "SAFETY_DOOR", "IDLE"}
  /\ lock \subseteq Axis /\ left \in Nat /\ ring \in 0 .. Ring /\ out \subseteq Axis
  /\ tim2 \in BOOLEAN /\ flags \subseteq Requests \cup {"CYCLE_STOP"} /\ alarm \in BOOLEAN
  /\ lag \in 0 .. Lag

\* $H ends in IDLE only with every axis at the pull-off distance from its switch, up to the
\* events that pass before a poll sees the switch and its axis is locked: never with a
\* switch that does not work, after a reset or a door in any cycle, or with a pull-off cut
\* short.
HomedAtSwitch ==
  pc = "done" /\ state = "IDLE" =>
    \A a \in Axis : a \in homed /\ switch[a] = "ok" /\ pos[a] \in -Pulloff .. 2 * Lag - Pulloff

\* No axis is driven further past its switch than the polling loop needs to see and lock it,
\* though the step computed before the lock is still given: in any cycle, until the loop is
\* left on a failure.
Homes == pc \notin {"rt", "restart", "done"}
OvershootBounded == Homes => \A a \in Axis : switch[a] = "ok" => pos[a] <= 2 * Lag

\* $H comes to an end, whichever switches work and whatever is requested, except that a
\* safety door in the last moment suspends the program until a reset.
HomingEnds == <>(pc \in {"done", "suspended"})

-----------------------------------------------------------------------------
(* What a comment of the code says and a run refutes *)

\* limits.c:332, on a failure: mc_reset() is there to "Stop motors, if they are running".
MotorsStopped == pc = "restart" => ~tim2
=============================================================================
