------------------------------ MODULE Realtime ------------------------------
(***************************************************************************)
(* The real-time executor of drivers/grbl/protocol.c and its callers: the  *)
(* main program runs one command at a time and, at check points, one pass  *)
(* of protocol_exec_rt_system, which consumes the flags that interrupts    *)
(* set.  A pass copies the flags once and then tests and clears them while *)
(* interrupts go on setting flags and stopping the stepper timer, so it is *)
(* split where that matters.                                               *)
(*                                                                         *)
(* Blocks and segments are counted; SegmentBuffer has what is in them.     *)
(***************************************************************************)
EXTENDS Integers

CONSTANTS
  PlannerSize,    \* blocks the planner holds: BLOCK_BUFFER_SIZE - 1
  SegmentCount,   \* segments the ring holds: SEGMENT_BUFFER_SIZE - 1
  Requests,       \* what the operator and the limit switches may do
  Commands,       \* lines the host may send
  MaxRequests     \* bound: requests in a behaviour

AllRequests == {"FEED_HOLD", "SAFETY_DOOR", "CYCLE_START", "JOG_CANCEL", "RESET", "LIMIT",
                "SPINDLE_STOP", "PIN_FEED_HOLD", "PIN_CYCLE_START"}
AllCommands == {"line", "jog", "sync", "probe", "sleep", "unlock"}

ASSUME RealtimeAssumption ==
  /\ PlannerSize \in Nat \ {0}
  /\ SegmentCount \in Nat \ {0}
  /\ Requests \subseteq AllRequests
  /\ Commands \subseteq AllCommands
  /\ MaxRequests \in Nat

VARIABLES
  \* --- main program
  pc,            \* where it stands
  job,           \* the command being executed
  ctx,           \* the loop around protocol_exec_rt_system: plain, sleep or restore
  rt_exec,       \* this pass's copy of the flags
  state, suspend, step_control, abort, soft_limit,   \* the fields of sys
  blocks,        \* blocks in the planner
  \* --- shared with interrupts
  flags,         \* sys_rt_exec_state
  alarm,         \* sys_rt_exec_alarm
  segs,          \* segments on the ring or being executed
  tim2,          \* the stepper timer runs and interrupts
  probe,         \* sys_probe_state is PROBE_ACTIVE
  accessory,     \* EXEC_SPINDLE_OVR_STOP is set in sys_rt_exec_accessory_override
  spindle_stop,  \* sys.spindle_stop_ovr
  energized,     \* spindle and coolant are as the program left them
  pin,           \* the flags that the control pin interrupt is about to store, or {}
  \* --- bound and history
  requests,
  held           \* a hold was requested in time, and no cycle start since; a feed hold
                 \* given while the door holds the machine does not count

mainVars == <<pc, job, ctx, rt_exec, abort>>
sysVars  == <<state, suspend, step_control, soft_limit>>
stepVars == <<segs, tim2>>
stopVars == <<spindle_stop, accessory>>
spindleVars == <<stopVars, energized>>
askVars == <<requests, pin>>
vars == <<pc, job, ctx, rt_exec, abort, state, suspend, step_control, soft_limit,
          blocks, flags, alarm, segs, tim2, probe, spindleVars, pin, requests, held>>

States == {"IDLE", "ALARM", "CYCLE", "HOLD", "JOG", "SAFETY_DOOR", "SLEEP"}
HoldFlags == {"MOTION_CANCEL", "FEED_HOLD", "SAFETY_DOOR", "SLEEP"}
Flags == HoldFlags \cup {"RESET", "CYCLE_START", "CYCLE_STOP"}
Alarms == {"none", "HARD_LIMIT", "SOFT_LIMIT", "ABORT_CYCLE", "PROBE_FAIL"}
SuspendBits == {"HOLD_COMPLETE", "RESTART_RETRACT", "RETRACT_COMPLETE", "INITIATE_RESTORE",
                "RESTORE_COMPLETE", "SAFETY_DOOR_AJAR", "MOTION_CANCEL", "JOG_CANCEL"}
Jobs == {"main", "line", "mc_line", "soft_hold", "soft_reset", "jog", "mc_jog", "sync", "synced",
         "probe", "probe_sync", "mc_probe", "probe_wait", "probe_end", "probe_fail",
         "sleep", "unlock"}

\* Power up without homing lock: main() has run through to the main loop.
Init ==
  /\ pc = "main" /\ job = "main" /\ ctx = "plain" /\ rt_exec = {} /\ abort = FALSE
  /\ state = "IDLE" /\ suspend = {} /\ step_control = {} /\ soft_limit = FALSE
  /\ blocks = 0 /\ segs = 0 /\ tim2 = FALSE
  /\ flags = {} /\ alarm = "none" /\ probe = FALSE
  /\ energized = TRUE /\ spindle_stop = {} /\ accessory = FALSE
  /\ pin = {} /\ requests = 0 /\ held = FALSE

-----------------------------------------------------------------------------
(* Operations shared by several callers *)

\* st_prep_buffer(), from step_control sc: it fills the ring unless the planner runs
\* out or, in a hold, the motion is brought to an end inside a block.
Prep(sc) ==
  IF "END_MOTION" \in sc
  THEN step_control' = sc /\ UNCHANGED <<blocks, segs>>
  ELSE \E b \in 0..blocks, s \in segs..SegmentCount :
         /\ blocks - b <= s - segs
         /\ blocks = 0 => s = segs
         /\ blocks' = b /\ segs' = s
         /\ \/ (b = 0 \/ s = SegmentCount) /\ step_control' = sc
            \/ /\ "EXECUTE_HOLD" \in sc /\ b > 0 /\ segs < SegmentCount
               /\ step_control' = sc \cup {"END_MOTION"}

\* protocol_auto_cycle_start()
AutoCycleStart == flags' = flags \cup (IF blocks > 0 THEN {"CYCLE_START"} ELSE {})

\* mc_reset(), with st_go_idle() when a motion is killed.
Kills == state \in {"CYCLE", "JOG"} \/ "EXECUTE_HOLD" \in step_control
McReset ==
  /\ flags' = flags \cup {"RESET"}
  /\ IF "RESET" \notin flags /\ Kills
     THEN alarm' = "ABORT_CYCLE" /\ tim2' = FALSE
     ELSE UNCHANGED <<alarm, tim2>>
  /\ energized' = (energized /\ "RESET" \in flags)

-----------------------------------------------------------------------------
(* One pass of protocol_exec_rt_system, entered at pc = "alarm", left at "ret" *)

\* Another pass for the command that is running.
Pass(j) == pc' = "alarm" /\ job' = j /\ UNCHANGED <<ctx, rt_exec, abort>>

\* Lines 220-240.  Hard and soft limits wait for a new reset first.
RtAlarm ==
  /\ pc = "alarm"
  /\ IF alarm = "none" THEN pc' = "snap" /\ UNCHANGED <<state, alarm, flags>>
     ELSE /\ state' = "ALARM"
          /\ IF alarm \in {"HARD_LIMIT", "SOFT_LIMIT"}
             THEN pc' = "halt" /\ flags' = flags \ {"RESET"} /\ UNCHANGED alarm
             ELSE pc' = "snap" /\ alarm' = "none" /\ UNCHANGED flags
  /\ UNCHANGED <<job, ctx, rt_exec, abort, suspend, step_control, soft_limit, blocks,
                 segs, tim2, probe, spindleVars, askVars, held>>

RtHalted ==
  /\ pc = "halt" /\ "RESET" \in flags
  /\ pc' = "snap" /\ alarm' = "none"
  /\ UNCHANGED <<job, ctx, rt_exec, abort, sysVars, blocks, flags, segs, tim2, probe, spindleVars,
                 askVars, held>>

\* Mutant of RtSnapshot: an abort is only raised when no other flag is.
RtSnapshotLast ==
  /\ pc = "snap"
  /\ rt_exec' = flags
  /\ IF flags = {"RESET"} THEN pc' = "ret" /\ abort' = TRUE
     ELSE pc' = (IF flags = {} THEN "prep" ELSE "hold") /\ UNCHANGED abort
  /\ UNCHANGED <<job, ctx, sysVars, blocks, flags, alarm, segs, tim2, probe, spindleVars, askVars, held>>

\* Lines 242-250.
RtSnapshot ==
  /\ pc = "snap"
  /\ rt_exec' = flags
  /\ IF "RESET" \in flags THEN pc' = "ret" /\ abort' = TRUE
     ELSE pc' = (IF flags = {} THEN "prep" ELSE "hold") /\ UNCHANGED abort
  /\ UNCHANGED <<job, ctx, sysVars, blocks, flags, alarm, segs, tim2, probe, spindleVars, askVars, held>>

\* A hold starts only from a motion that is not being cancelled already.
StartsHold == state \in {"CYCLE", "JOG"} /\ suspend \cap {"MOTION_CANCEL", "JOG_CANCEL"} = {}

\* sys.suspend, and then sys.state, after the hold flags in rt_exec; the door flag last.
HeldSuspend ==
  (IF state = "IDLE" THEN {"HOLD_COMPLETE"} ELSE suspend)
    \cup (IF StartsHold /\ state = "JOG" /\ "SLEEP" \notin rt_exec THEN {"JOG_CANCEL"} ELSE {})
    \cup (IF "MOTION_CANCEL" \in rt_exec /\ state # "JOG" THEN {"MOTION_CANCEL"} ELSE {})

HeldState ==
  IF "FEED_HOLD" \in rt_exec /\ state \notin {"SAFETY_DOOR", "JOG", "SLEEP"} THEN "HOLD" ELSE state

DoorSuspend ==
  IF "SAFETY_DOOR" \notin rt_exec THEN HeldSuspend
  ELSE {"SAFETY_DOOR_AJAR"} \cup
       (IF "JOG_CANCEL" \notin HeldSuspend /\ HeldState = "SAFETY_DOOR"
           /\ "INITIATE_RESTORE" \in HeldSuspend
        THEN (HeldSuspend \ {"RETRACT_COMPLETE", "INITIATE_RESTORE", "RESTORE_COMPLETE"})
               \cup {"RESTART_RETRACT"}
        ELSE HeldSuspend)

DoorState ==
  IF "SAFETY_DOOR" \in rt_exec /\ "JOG_CANCEL" \notin HeldSuspend /\ HeldState # "SLEEP"
  THEN "SAFETY_DOOR" ELSE HeldState

\* Lines 259-330.
RtHold ==
  /\ pc = "hold"
  /\ pc' = "start"
  /\ IF rt_exec \cap HoldFlags = {} THEN UNCHANGED <<state, suspend, step_control, flags, held>>
     ELSE
       /\ IF state = "ALARM"
          THEN /\ step_control' = step_control
               /\ suspend' = suspend \cup (IF "SLEEP" \in rt_exec
                                           THEN {"RETRACT_COMPLETE", "HOLD_COMPLETE"} ELSE {})
               /\ state' = (IF "SLEEP" \in rt_exec THEN "SLEEP" ELSE "ALARM")
          ELSE /\ step_control' = (IF StartsHold THEN {"EXECUTE_HOLD"} ELSE step_control)
               /\ suspend' = DoorSuspend
               /\ state' = (IF "SLEEP" \in rt_exec THEN "SLEEP" ELSE DoorState)
       /\ flags' = flags \ HoldFlags
       /\ held' = (held /\ state # "ALARM" /\ (state = "SAFETY_DOOR" => "SAFETY_DOOR" \in rt_exec))
  /\ UNCHANGED <<job, ctx, rt_exec, abort, soft_limit, blocks, alarm, segs, tim2, probe, spindleVars,
                 askVars>>

HoldRequested == rt_exec \cap {"FEED_HOLD", "MOTION_CANCEL", "SAFETY_DOOR"} # {}

\* Lines 338-348: what a cycle start does to the safety door's suspend.
DoorClosed == state = "SAFETY_DOOR" /\ "SAFETY_DOOR_AJAR" \notin suspend
ResumeState == IF DoorClosed /\ "RESTORE_COMPLETE" \in suspend THEN "IDLE" ELSE state
ResumeSuspend ==
  suspend \cup (IF DoorClosed /\ ResumeState # "IDLE" /\ "RETRACT_COMPLETE" \in suspend
                THEN {"INITIATE_RESTORE"} ELSE {})

MayStart == ResumeState = "IDLE" \/ (state = "HOLD" /\ "HOLD_COMPLETE" \in suspend)

\* Mutant of Respins: only a stop that is being taken back delays the start.
RespinsRestoring == state = "HOLD" /\ "RESTORE" \in spindle_stop

\* With the spindle stopped by an override, the suspend loop restores it first.
Respins == state = "HOLD" /\ spindle_stop # {}

StartFrame == UNCHANGED <<job, ctx, rt_exec, abort, soft_limit, alarm, tim2, probe, accessory, energized,
                          askVars>>

RtNoStart ==
  /\ pc = "start" /\ ("CYCLE_START" \notin rt_exec \/ HoldRequested)
  /\ pc' = "stop"
  /\ flags' = flags \ (rt_exec \cap {"CYCLE_START"})
  /\ UNCHANGED <<state, suspend, step_control, blocks, segs, spindle_stop, held>> /\ StartFrame

\* Mutant of RtStart: a hold requested together with the start does not block it.
RtStartAnyway ==
  /\ pc = "start" /\ "CYCLE_START" \in rt_exec
  /\ IF MayStart /\ ~Respins /\ blocks > 0 /\ "MOTION_CANCEL" \notin suspend
     THEN /\ pc' = "wake" /\ state' = "CYCLE" /\ suspend' = {}
          /\ Prep({}) /\ UNCHANGED <<flags, spindle_stop>>
     ELSE /\ pc' = "stop"
          /\ flags' = flags \ {"CYCLE_START"}
          /\ spindle_stop' = spindle_stop \cup (IF MayStart /\ Respins THEN {"RESTORE_CYCLE"} ELSE {})
          /\ IF MayStart /\ ~Respins
             THEN state' = "IDLE" /\ suspend' = {} /\ step_control' = {}
             ELSE state' = ResumeState /\ suspend' = ResumeSuspend /\ UNCHANGED step_control
          /\ UNCHANGED <<blocks, segs>>
  /\ held' = (held /\ (MayStart /\ ~Respins => HoldFlags \cap flags # {}))
  /\ StartFrame

\* Lines 333-360, up to st_wake_up().
RtStart ==
  /\ pc = "start" /\ "CYCLE_START" \in rt_exec /\ ~HoldRequested
  /\ IF MayStart /\ ~Respins /\ blocks > 0 /\ "MOTION_CANCEL" \notin suspend
     THEN /\ pc' = "wake" /\ state' = "CYCLE" /\ suspend' = {}
          /\ Prep({}) /\ UNCHANGED <<flags, spindle_stop>>
     ELSE /\ pc' = "stop"
          /\ flags' = flags \ {"CYCLE_START"}
          /\ spindle_stop' = spindle_stop \cup (IF MayStart /\ Respins THEN {"RESTORE_CYCLE"} ELSE {})
          /\ IF MayStart /\ ~Respins
             THEN state' = "IDLE" /\ suspend' = {} /\ step_control' = {}
             ELSE state' = ResumeState /\ suspend' = ResumeSuspend /\ UNCHANGED step_control
          /\ UNCHANGED <<blocks, segs>>
  /\ held' = (held /\ (MayStart /\ ~Respins => HoldFlags \cap flags # {}))
  /\ StartFrame

\* st_wake_up(), and the flag is cleared at last.
RtWake ==
  /\ pc = "wake"
  /\ pc' = "stop"
  /\ tim2' = TRUE
  /\ flags' = flags \ {"CYCLE_START"}
  /\ UNCHANGED <<job, ctx, rt_exec, abort, sysVars, blocks, alarm, segs, probe, spindleVars, askVars, held>>

\* Lines 372-404.  A jog cancel flushes the planner and the segments.
StopHolds ==
  state \in {"HOLD", "SAFETY_DOOR", "SLEEP"} /\ ~soft_limit /\ "JOG_CANCEL" \notin suspend

\* Mutant of HoldEnds: only a deceleration that reached zero completes the hold.
HoldEndsAtZero ==
  /\ suspend' = suspend \cup (IF "END_MOTION" \in step_control THEN {"HOLD_COMPLETE"} ELSE {})
  /\ step_control' = step_control \ {"EXECUTE_HOLD"}
  /\ UNCHANGED <<state, blocks, segs, tim2, held>>

HoldEnds ==
  /\ suspend' = suspend \cup (IF "EXECUTE_HOLD" \in step_control THEN {"HOLD_COMPLETE"} ELSE {})
  /\ step_control' = step_control \ {"EXECUTE_HOLD"}
  /\ UNCHANGED <<state, blocks, segs, tim2, held>>

\* Mutant of MotionEnds: a cancelled jog leaves its queued blocks in the planner.
MotionEndsUnflushed ==
  /\ IF "JOG_CANCEL" \in suspend
     THEN step_control' = {} /\ segs' = 0 /\ tim2' = FALSE /\ UNCHANGED blocks
     ELSE UNCHANGED <<step_control, blocks, segs, tim2>>
  /\ IF "SAFETY_DOOR_AJAR" \in suspend
     THEN /\ state' = "SAFETY_DOOR" /\ suspend' = (suspend \ {"JOG_CANCEL"}) \cup {"HOLD_COMPLETE"}
          /\ UNCHANGED held
     ELSE /\ state' = "IDLE" /\ suspend' = {}
          /\ held' = (held /\ HoldFlags \cap flags # {})

MotionEnds ==
  /\ IF "JOG_CANCEL" \in suspend
     THEN step_control' = {} /\ blocks' = 0 /\ segs' = 0 /\ tim2' = FALSE
     ELSE UNCHANGED <<step_control, blocks, segs, tim2>>
  /\ IF "SAFETY_DOOR_AJAR" \in suspend
     THEN /\ state' = "SAFETY_DOOR" /\ suspend' = (suspend \ {"JOG_CANCEL"}) \cup {"HOLD_COMPLETE"}
          /\ UNCHANGED held
     ELSE /\ state' = "IDLE" /\ suspend' = {}
          /\ held' = (held /\ HoldFlags \cap flags # {})

RtStop ==
  /\ pc = "stop"
  /\ pc' = "prep"
  /\ IF "CYCLE_STOP" \in rt_exec
     THEN (IF StopHolds THEN HoldEnds ELSE MotionEnds) /\ flags' = flags \ {"CYCLE_STOP"}
     ELSE UNCHANGED <<state, suspend, step_control, blocks, flags, segs, tim2, held>>
  /\ UNCHANGED <<job, ctx, rt_exec, abort, soft_limit, alarm, probe, spindleVars, askVars>>

\* Lines 456-463: a spindle stop is taken up in a hold, or taken back.
TakenUp(stop) == IF stop = {} THEN {"INITIATE"} ELSE IF "ENABLED" \in stop THEN stop \cup {"RESTORE"} ELSE stop

\* The overrides, and lines 498-501.
RtPrep ==
  /\ pc = "prep"
  /\ pc' = "ret"
  /\ accessory' = FALSE
  /\ spindle_stop' = (IF accessory /\ state = "HOLD" THEN TakenUp(spindle_stop) ELSE spindle_stop)
  /\ IF state \in {"CYCLE", "HOLD", "SAFETY_DOOR", "SLEEP", "JOG"} THEN Prep(step_control)
     ELSE UNCHANGED <<step_control, blocks, segs>>
  /\ UNCHANGED <<job, ctx, rt_exec, abort, state, suspend, soft_limit, flags, alarm, tim2, probe, energized,
                 askVars, held>>

-----------------------------------------------------------------------------
(* protocol_exec_rt_suspend: the loops around the pass *)

SuspendFrame == UNCHANGED <<job, rt_exec, abort, state, step_control, soft_limit, blocks, alarm,
                            segs, probe, accessory, askVars, held>>

Suspended == pc = "ret" /\ ctx = "plain" /\ ~abort /\ suspend # {}
Holding == Suspended /\ "HOLD_COMPLETE" \in suspend /\ state \notin {"SAFETY_DOOR", "SLEEP"}
Parked == Suspended /\ "HOLD_COMPLETE" \in suspend /\ state \in {"SAFETY_DOOR", "SLEEP"}

\* Nothing to do until the hold is complete, nor in a feed hold with the spindle on.
SuspendWait ==
  /\ Suspended /\ ("HOLD_COMPLETE" \in suspend => Holding /\ spindle_stop = {})
  /\ pc' = "alarm"
  /\ UNCHANGED <<ctx, suspend, flags, tim2, spindle_stop, energized>> /\ SuspendFrame

\* The spindle stop is only enabled if the program runs the spindle.
SpindleStop ==
  /\ Holding /\ "INITIATE" \in spindle_stop
  /\ pc' = "alarm"
  /\ \/ spindle_stop' = {"ENABLED"} /\ energized' = FALSE
     \/ spindle_stop' = {} /\ UNCHANGED energized
  /\ UNCHANGED <<ctx, suspend, flags, tim2>> /\ SuspendFrame

SpindleRestore ==
  /\ Holding /\ "INITIATE" \notin spindle_stop /\ spindle_stop \cap {"RESTORE", "RESTORE_CYCLE"} # {}
  /\ pc' = "alarm"
  /\ spindle_stop' = {} /\ energized' = TRUE
  /\ flags' = flags \cup (IF "RESTORE_CYCLE" \in spindle_stop THEN {"CYCLE_START"} ELSE {})
  /\ UNCHANGED <<ctx, suspend, tim2>> /\ SuspendFrame

SpindleStopped ==
  /\ Holding /\ spindle_stop = {"ENABLED"}
  /\ pc' = "alarm"
  /\ UNCHANGED <<ctx, suspend, flags, tim2, spindle_stop, energized>> /\ SuspendFrame

\* De-energize.
SuspendRetract ==
  /\ Parked /\ "RETRACT_COMPLETE" \notin suspend
  /\ suspend' = (suspend \ {"RESTART_RETRACT"}) \cup {"RETRACT_COMPLETE"}
  /\ pc' = "alarm"
  /\ spindle_stop' = {} /\ energized' = FALSE
  /\ UNCHANGED <<ctx, flags, tim2>> /\ SuspendFrame

\* st_go_idle(), then passes until a reset aborts.
SuspendSleep ==
  /\ Parked /\ "RETRACT_COMPLETE" \in suspend /\ state = "SLEEP"
  /\ pc' = "alarm" /\ ctx' = "sleep" /\ tim2' = FALSE
  /\ energized' = FALSE
  /\ UNCHANGED <<suspend, flags, spindle_stop>> /\ SuspendFrame

\* The door pin is not enabled: the door counts as closed at once.  With a restore
\* to do, the spindle and coolant are started and waited for, with passes meanwhile;
\* a program that uses neither waits for nothing.
SuspendDoor ==
  /\ Parked /\ "RETRACT_COMPLETE" \in suspend /\ state = "SAFETY_DOOR"
  /\ suspend' = suspend \ {"SAFETY_DOOR_AJAR"}
  /\ IF "INITIATE_RESTORE" \in suspend
     THEN ctx' = "restore" /\ pc' \in {"alarm", "ret"}
     ELSE pc' = "alarm" /\ UNCHANGED ctx
  /\ energized' = (energized \/ "INITIATE_RESTORE" \in suspend)
  /\ UNCHANGED <<flags, tim2, spindle_stop>> /\ SuspendFrame

SleepAgain ==
  /\ pc = "ret" /\ ctx = "sleep" /\ ~abort
  /\ pc' = "alarm"
  /\ UNCHANGED <<ctx, suspend, flags, tim2, spindle_stop, energized>> /\ SuspendFrame

RestoreAgain ==
  /\ pc = "ret" /\ ctx = "restore" /\ ~abort
  /\ "RESTART_RETRACT" \notin suspend
  /\ pc' = "alarm"
  /\ UNCHANGED <<ctx, suspend, flags, tim2, spindle_stop, energized>> /\ SuspendFrame

\* The delay is over, or the door opened again; line 763 makes the next pass.
RestoreDone ==
  /\ pc = "ret" /\ ctx = "restore" /\ ~abort
  /\ pc' = "alarm" /\ ctx' = "plain"
  /\ IF "RESTART_RETRACT" \in suspend THEN UNCHANGED <<suspend, flags>>
     ELSE /\ suspend' = suspend \cup {"RESTORE_COMPLETE"}
          /\ flags' = flags \cup {"CYCLE_START"}
  /\ UNCHANGED <<tim2, spindle_stop, energized>> /\ SuspendFrame

-----------------------------------------------------------------------------
(* The main program between passes *)

\* protocol_execute_realtime() has returned to the command.
Back(j) == pc = "ret" /\ ctx = "plain" /\ ~abort /\ suspend = {} /\ job = j
ToMain == pc' = "main" /\ job' = "main" /\ UNCHANGED <<ctx, rt_exec, abort>>

JobFrame == UNCHANGED <<suspend, spindleVars, askVars, held>>
Untouched == UNCHANGED <<state, step_control, soft_limit, blocks, flags, alarm, segs, tim2, probe>>

\* No character is waiting: auto-cycle-start what is queued.
MainLoop ==
  /\ pc = "main" /\ Pass("main") /\ AutoCycleStart
  /\ UNCHANGED <<state, step_control, soft_limit, blocks, alarm, segs, tim2, probe>> /\ JobFrame

MainLoopAgain == Back("main") /\ ToMain /\ Untouched /\ JobFrame

\* An end of line: a pass first, then the line is executed.
Receive ==
  /\ pc = "main" /\ pin = {}
  /\ \E c \in Commands : Pass(c)
  /\ UNCHANGED <<state, step_control, soft_limit, blocks, flags, alarm, segs, tim2, probe>> /\ JobFrame

\* The states in which a line is executed.
Accepts(c) ==
  CASE c \in {"line", "sync", "probe"} -> state \notin {"ALARM", "JOG"}
    [] c = "jog"    -> state \in {"IDLE", "JOG"}
    [] c = "sleep"  -> state \in {"IDLE", "ALARM"}
    [] c = "unlock" -> state = "ALARM"

\* The line is answered with an error: for the state, or for what is in it.
Reject == \E c \in Commands : Back(c) /\ ToMain /\ Untouched /\ JobFrame

\* $SLP and $X.
Sleep ==
  /\ Back("sleep") /\ Accepts("sleep") /\ ToMain
  /\ flags' = flags \cup {"SLEEP"}
  /\ UNCHANGED <<state, step_control, soft_limit, blocks, alarm, segs, tim2, probe>> /\ JobFrame

Unlock ==
  /\ Back("unlock") /\ Accepts("unlock") /\ ToMain
  /\ state' = "IDLE"
  /\ UNCHANGED <<step_control, soft_limit, blocks, flags, alarm, segs, tim2, probe>> /\ JobFrame

\* limits_soft_check(): a cycle is brought to a hold first, then the reset.
SoftLimitFrame == UNCHANGED <<stopVars, state, step_control, blocks, segs, probe, suspend, askVars, held>>

SoftLimitHold ==
  /\ Pass("soft_hold")
  /\ state = "CYCLE" /\ soft_limit' = TRUE
  /\ flags' = flags \cup {"FEED_HOLD"} /\ held' = TRUE
  /\ UNCHANGED <<alarm, tim2, spindleVars, state, step_control, blocks, segs, probe,
                 suspend, askVars>>

SoftLimitReset ==
  /\ Pass("soft_reset")
  /\ soft_limit' = TRUE
  /\ flags' = flags \cup {"RESET"}
  /\ energized' = (energized /\ "RESET" \in flags)
  /\ tim2' = (tim2 /\ ("RESET" \in flags \/ ~Kills))
  /\ alarm' = "SOFT_LIMIT"
  /\ SoftLimitFrame

SoftHolding ==
  /\ Back("soft_hold")
  /\ \/ state = "IDLE" /\ SoftLimitReset
     \/ state # "IDLE" /\ Pass("soft_hold") /\ Untouched /\ JobFrame

\* mc_line() for a command: the target is checked, then the planner must have room.
EnterMcLine(j) ==
  \/ Pass(j) /\ Untouched /\ JobFrame
  \/ SoftLimitHold
  \/ state # "CYCLE" /\ SoftLimitReset

Line == Back("line") /\ Accepts("line") /\ EnterMcLine("mc_line")

\* A jog has its own limit check, before mc_line() and without an alarm.
Jog == Back("jog") /\ Accepts("jog") /\ Pass("mc_jog") /\ Untouched /\ JobFrame

McLineFull ==
  /\ \E j \in {"mc_line", "mc_jog", "mc_probe"} : Back(j) /\ Pass(j)
  /\ blocks = PlannerSize
  /\ AutoCycleStart
  /\ UNCHANGED <<state, step_control, soft_limit, blocks, alarm, segs, tim2, probe>> /\ JobFrame

\* Mutant of Plan: plan_check_full_buffer() is off by one.
PlanLate == blocks <= PlannerSize /\ blocks' \in blocks .. blocks + 1

\* plan_buffer_line(): a line without a single step leaves the planner as it is.
Plan == blocks < PlannerSize /\ blocks' \in blocks .. blocks + 1

McLine ==
  /\ Back("mc_line") /\ Plan /\ ToMain
  /\ UNCHANGED <<state, step_control, soft_limit, flags, alarm, segs, tim2, probe>> /\ JobFrame

\* jog_execute() after mc_line(): in IDLE it starts what is in the planner itself.
McJog ==
  /\ Back("mc_jog") /\ Plan
  /\ IF state = "IDLE" /\ blocks' > 0 THEN pc' = "jog" /\ UNCHANGED <<job, ctx, rt_exec, abort>> ELSE ToMain
  /\ UNCHANGED <<state, step_control, soft_limit, flags, alarm, segs, tim2, probe>> /\ JobFrame

JogPrep ==
  /\ pc = "jog"
  /\ pc' = "jog_wake" /\ state' = "JOG"
  /\ Prep(step_control)
  /\ UNCHANGED <<job, ctx, rt_exec, abort, suspend, soft_limit, flags, alarm, tim2, probe, spindleVars,
                 askVars, held>>

JogWake ==
  /\ pc = "jog_wake" /\ ToMain
  /\ tim2' = TRUE
  /\ UNCHANGED <<sysVars, blocks, flags, alarm, segs, probe, spindleVars, askVars, held>>

\* protocol_buffer_synchronize(), alone or before a probe.
Sync ==
  /\ \/ Back("sync") /\ Accepts("sync") /\ Pass("synced")
     \/ Back("probe") /\ Accepts("probe") /\ Pass("probe_sync")
  /\ AutoCycleStart
  /\ UNCHANGED <<state, step_control, soft_limit, blocks, alarm, segs, tim2, probe>> /\ JobFrame

\* Mutant of Busy: an empty planner is enough.
BusyPlanning == blocks > 0

Busy == blocks > 0 \/ state = "CYCLE"

SyncAgain ==
  /\ \E j \in {"synced", "probe_sync"} : Back(j) /\ Pass(j)
  /\ Busy
  /\ Untouched /\ JobFrame

SyncDone == Back("synced") /\ ~Busy /\ ToMain /\ Untouched /\ JobFrame

\* mc_probe_cycle()
ProbeFailInitial ==
  /\ Back("probe_sync") /\ ~Busy /\ Pass("probe_fail")
  /\ alarm' = "PROBE_FAIL"
  /\ UNCHANGED <<state, step_control, soft_limit, blocks, flags, segs, tim2, probe>> /\ JobFrame

ProbeFailed == Back("probe_fail") /\ ToMain /\ Untouched /\ JobFrame

Probe == Back("probe_sync") /\ ~Busy /\ EnterMcLine("mc_probe")

McProbe ==
  /\ Back("mc_probe") /\ Plan /\ Pass("probe_wait")
  /\ probe' = TRUE
  /\ flags' = flags \cup {"CYCLE_START"}
  /\ UNCHANGED <<state, step_control, soft_limit, alarm, segs, tim2>> /\ JobFrame

ProbeWait ==
  /\ Back("probe_wait") /\ state # "IDLE" /\ Pass("probe_wait")
  /\ Untouched /\ JobFrame

\* No contact is an alarm unless the command was G38.3 or G38.5.
ProbeEnd ==
  /\ Back("probe_wait") /\ state = "IDLE" /\ Pass("probe_end")
  /\ probe' = FALSE
  /\ alarm' \in (IF probe THEN {alarm, "PROBE_FAIL"} ELSE {alarm})
  /\ UNCHANGED <<state, step_control, soft_limit, blocks, flags, segs, tim2>> /\ JobFrame

\* st_reset(), plan_reset(): what is left of the motion goes.
ProbeFlush ==
  /\ Back("probe_end") /\ ToMain
  /\ blocks' = 0 /\ segs' = 0 /\ tim2' = FALSE
  /\ UNCHANGED <<state, step_control, soft_limit, flags, alarm, probe>> /\ JobFrame

\* sys.abort: every command returns to the loop in main.c, which clears sys except
\* its state and then the flags, one after the other, and starts over.
Abort ==
  /\ pc = "ret" /\ abort
  /\ pc' = "reset" /\ job' = "main" /\ ctx' = "plain"
  /\ abort' = FALSE /\ suspend' = {} /\ step_control' = {} /\ soft_limit' = FALSE
  /\ probe' = FALSE /\ flags' = {} /\ held' = FALSE /\ spindle_stop' = {}
  /\ UNCHANGED <<rt_exec, state, blocks, alarm, segs, tim2, accessory, energized, askVars>>

Restart ==
  /\ pc = "reset" /\ pc' = "main"
  /\ alarm' = "none" /\ blocks' = 0 /\ segs' = 0 /\ tim2' = FALSE
  /\ accessory' = FALSE /\ energized' = TRUE
  /\ \/ state' = (IF state \in {"ALARM", "SLEEP"} THEN "ALARM" ELSE "IDLE")
     \/ "LIMIT" \in Requests /\ state' = "ALARM"      \* a limit switch is closed
  /\ UNCHANGED <<job, ctx, rt_exec, abort, suspend, step_control, soft_limit, flags, probe,
                 spindle_stop, askVars, held>>

-----------------------------------------------------------------------------
(* Interrupts *)

InterruptFrame == UNCHANGED <<mainVars, sysVars, blocks, pin>>

\* TIM2: one more segment is executed.  The probe may make contact in it.
Tim2Segment ==
  /\ tim2 /\ segs > 0
  /\ segs' = segs - 1
  /\ \/ UNCHANGED <<probe, flags>>
     \/ probe /\ probe' = FALSE /\ flags' = flags \cup {"MOTION_CANCEL"}
  /\ UNCHANGED <<alarm, tim2, spindleVars, requests, held>> /\ InterruptFrame

\* Mutants of Tim2Empty: the end of the cycle is not reported; the timer is left on.
Tim2EmptySilent ==
  /\ tim2 /\ segs = 0
  /\ tim2' = FALSE
  /\ UNCHANGED <<flags, alarm, segs, probe, spindleVars, requests, held>> /\ InterruptFrame

Tim2EmptyRunning ==
  /\ tim2 /\ segs = 0
  /\ flags' = flags \cup {"CYCLE_STOP"}
  /\ UNCHANGED <<alarm, stepVars, probe, spindleVars, requests, held>> /\ InterruptFrame

Tim2Empty ==
  /\ tim2 /\ segs = 0
  /\ tim2' = FALSE /\ flags' = flags \cup {"CYCLE_STOP"}
  /\ UNCHANGED <<alarm, segs, probe, spindleVars, requests, held>> /\ InterruptFrame

Request(r) == r \in Requests /\ pin = {} /\ requests < MaxRequests /\ requests' = requests + 1

\* The pass is about to clear the hold flags, whether it has seen them or not.
ClearsHolds == pc = "hold" /\ rt_exec \cap HoldFlags # {}

OperatorHold ==
  /\ \E r \in {"FEED_HOLD", "SAFETY_DOOR"} : Request(r) /\ flags' = flags \cup {r}
  /\ held' = (held \/ ~ClearsHolds)
  /\ UNCHANGED <<alarm, stepVars, probe, spindleVars>> /\ InterruptFrame

OperatorStart ==
  /\ Request("CYCLE_START") /\ flags' = flags \cup {"CYCLE_START"}
  /\ held' = FALSE
  /\ UNCHANGED <<alarm, stepVars, probe, spindleVars>> /\ InterruptFrame

OperatorJogCancel ==
  /\ Request("JOG_CANCEL") /\ state = "JOG"
  /\ flags' = flags \cup {"MOTION_CANCEL"}
  /\ UNCHANGED <<alarm, stepVars, probe, spindleVars, held>> /\ InterruptFrame

OperatorSpindleStop ==
  /\ Request("SPINDLE_STOP") /\ accessory' = TRUE
  /\ UNCHANGED <<flags, alarm, stepVars, probe, spindle_stop, energized, held>> /\ InterruptFrame

OperatorReset ==
  /\ Request("RESET") /\ McReset
  /\ UNCHANGED <<stopVars, segs, probe, held>> /\ InterruptFrame

LimitSwitch ==
  /\ Request("LIMIT") /\ state # "ALARM" /\ alarm = "none"
  /\ flags' = flags \cup {"RESET"}
  /\ energized' = (energized /\ "RESET" \in flags)
  /\ tim2' = (tim2 /\ ("RESET" \in flags \/ ~Kills))
  /\ alarm' = "HARD_LIMIT"
  /\ UNCHANGED <<stopVars, segs, probe, held>> /\ InterruptFrame

\* The control pins are read in an interrupt of lower priority than TIM2's: bit_true() reads the
\* flags and stores them again, and TIM2 may come in between.
PinRead ==
  /\ \/ /\ Request("PIN_FEED_HOLD") /\ pin' = flags \cup {"FEED_HOLD"}
        /\ held' = (held \/ ~ClearsHolds)
     \/ Request("PIN_CYCLE_START") /\ pin' = flags \cup {"CYCLE_START"} /\ held' = FALSE
  /\ UNCHANGED <<mainVars, sysVars, blocks, flags, alarm, stepVars, probe, spindleVars>>

PinStore ==
  /\ pin # {} /\ pin' = {} /\ flags' = pin
  /\ UNCHANGED <<mainVars, sysVars, blocks, alarm, stepVars, probe, spindleVars, requests, held>>

-----------------------------------------------------------------------------
ExecRt == RtAlarm \/ RtHalted \/ RtSnapshot \/ RtHold \/ RtNoStart \/ RtStart \/ RtWake \/ RtStop \/ RtPrep
Suspend ==
  \/ SuspendWait \/ SpindleStop \/ SpindleRestore \/ SpindleStopped \/ SuspendRetract \/ SuspendSleep \/ SuspendDoor
  \/ SleepAgain \/ RestoreAgain \/ RestoreDone
Execute ==
  \/ MainLoop \/ MainLoopAgain \/ Reject \/ Sleep \/ Unlock \/ SoftHolding
  \/ Line \/ Jog \/ McLineFull \/ McLine \/ McJog \/ JogPrep \/ JogWake
  \/ Sync \/ SyncAgain \/ SyncDone \/ ProbeFailInitial \/ ProbeFailed \/ Probe \/ McProbe
  \/ ProbeWait \/ ProbeEnd \/ ProbeFlush \/ Abort \/ Restart
Main == pin = {} /\ (ExecRt \/ Suspend \/ Execute)
Interrupt ==
  \/ Tim2Segment \/ Tim2Empty
  \/ OperatorHold \/ OperatorStart \/ OperatorJogCancel \/ OperatorSpindleStop
  \/ OperatorReset \/ LimitSwitch \/ PinRead \/ PinStore
Next == Main \/ Receive \/ Interrupt

Spec == Init /\ [][Next]_vars

\* A block has finitely many steps, and a hold decelerates to zero within a bounded
\* distance: among the passes that cut segments, one reaches the end.
PrepEndsBlock == RtPrep /\ blocks' < blocks
PrepEndsHold == RtPrep /\ "END_MOTION" \in step_control' \ step_control

\* Between interrupts the main program runs, TIM2 fires while it is on, delay_sec()
\* counts down to zero, blocks and holds come to an end.
Fairness ==
  /\ WF_vars(Main) /\ WF_vars(Tim2Segment) /\ WF_vars(Tim2Empty) /\ WF_vars(PinStore)
  /\ SF_vars(RestoreDone) /\ SF_vars(PrepEndsBlock) /\ SF_vars(PrepEndsHold)
FairSpec == Spec /\ Fairness

-----------------------------------------------------------------------------
(* Properties *)

\* Every variable keeps to the values the code gives it.
TypeOK ==
  /\ pc \in {"main", "alarm", "halt", "snap", "hold", "start", "wake", "stop", "prep", "ret",
             "jog", "jog_wake", "reset"}
  /\ job \in Jobs
  /\ ctx \in {"plain", "sleep", "restore"}
  /\ rt_exec \subseteq Flags /\ flags \subseteq Flags
  /\ state \in States /\ suspend \subseteq SuspendBits
  /\ step_control \subseteq {"EXECUTE_HOLD", "END_MOTION"}
  /\ abort \in BOOLEAN /\ soft_limit \in BOOLEAN
  /\ blocks \in 0..PlannerSize /\ segs \in 0..SegmentCount
  /\ alarm \in Alarms /\ tim2 \in BOOLEAN /\ probe \in BOOLEAN /\ energized \in BOOLEAN
  /\ accessory \in BOOLEAN /\ spindle_stop \subseteq {"INITIATE", "ENABLED", "RESTORE", "RESTORE_CYCLE"}
  /\ pin \subseteq Flags /\ requests \in 0..MaxRequests /\ held \in BOOLEAN

\* A completed hold means that no step pulse is due: whatever the order of holds,
\* doors, resumes, resets and timer interrupts, the stepper timer is off while
\* SUSPEND_HOLD_COMPLETE is set, and while the state is IDLE.
StoppedWhenSaid == "HOLD_COMPLETE" \in suspend \/ state = "IDLE" => ~tim2

\* The motion of a cycle is not started against a hold that was requested after the
\* operator's last cycle start, nor is such a hold given up for IDLE, unless that request
\* came too late for this pass and is still pending: an auto-cycle-start, which the main
\* loop, mc_line and every synchronization raise with the operator's own flag, never
\* resumes a hold.  Nor does the end of a door restore, unless the cycle was started from
\* within the restore (Overtaken), which HoldsForUser is about.
Unasked == held /\ HoldFlags \cap (flags \cup pin) = {}
Overtaken == "RESTORE_COMPLETE" \in suspend /\ state # "SAFETY_DOOR"
Resumes == pc = "start" /\ (pc' = "wake" \/ (state # "IDLE" /\ state' = "IDLE"))
NoAutoResume == [][Resumes => ~Unasked \/ Overtaken]_vars

\* protocol_buffer_synchronize() returns to its caller with the machine at rest, or
\* with a feed hold in the way: no other order of requests and timer interrupts ends it
\* while the timer still gives steps.
SyncStops == [][SyncDone => ~tim2 \/ state = "HOLD"]_vars

\* A jog cancel ends with nothing queued: when its hold is over, planner and segments
\* are empty and the timer is off.
JogCancelFlushes ==
  [][("JOG_CANCEL" \in suspend /\ "JOG_CANCEL" \notin suspend' /\ pc' # "reset")
       => blocks' = 0 /\ segs' = 0 /\ ~tim2']_vars

\* A feed hold, and a jog cancel, stops the machine.
HoldCompletes == state = "HOLD" ~> state # "HOLD" \/ "HOLD_COMPLETE" \in suspend \/ pc = "halt"
JogCancelCompletes == "JOG_CANCEL" \in suspend ~> "JOG_CANCEL" \notin suspend \/ pc = "halt"

\* A spindle stop override in force ends with the spindle on again, and no motion starts
\* before: protocol.c:352 has the suspend loop restore it first.  Only a reset, or the
\* retract of a door or of a sleep, which has stopped the spindle itself, ends it otherwise.
SpindleStopEnds ==
  [][("ENABLED" \in spindle_stop /\ pc' # "reset" /\ (pc' = "wake" \/ "ENABLED" \notin spindle_stop'))
       => \/ energized' \/ "RESET" \in flags
          \/ state \in {"SAFETY_DOOR", "SLEEP"} /\ pc' # "wake"]_vars

\* mc_probe_cycle() comes back from its wait for the probe: with contact, at the end of
\* the line or when the ring runs dry, unless a hold or a critical alarm is in the way.
ProbeReturns == job = "probe_wait" ~> job # "probe_wait" \/ suspend # {} \/ pc = "halt"

\* A reset is seen from every loop the main program can wait in.
ResetHonoured == "RESET" \in flags ~> "RESET" \notin flags

-----------------------------------------------------------------------------
(* What a comment of the code says and a run refutes *)

\* protocol.c:334: the start is blocked so as to "ensure auto-cycle-start doesn't resume a
\* hold without an explicit user-input".
HoldsForUser == [][pc = "start" /\ pc' = "wake" => ~Unasked]_vars
=============================================================================
