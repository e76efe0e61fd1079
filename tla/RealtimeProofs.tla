--------------------------- MODULE RealtimeProofs ---------------------------
(***************************************************************************)
(* Theorems about the real-time executor, for every size of planner and    *)
(* ring, every mix of requests and every number of them.                   *)
(*                                                                         *)
(* The hard one says that a hold which is said to be complete has stopped  *)
(* the machine.  The executor believes EXEC_CYCLE_STOP, a flag that may be *)
(* older than the motion: the argument is that a cycle stop which is still *)
(* pending when the machine stands (or is about to be reset) finds no      *)
(* block to start a motion from before the pass that consumes it, and that *)
(* this pass cannot miss it.                                               *)
(*                                                                         *)
(* That no hold is resumed unasked is about quiet holds: those that were   *)
(* requested and taken, with no cycle start since.  While a hold is quiet  *)
(* it is in effect, and every automatic start that is pending or yet to    *)
(* come finds it not complete, or the door ajar, when the executor looks.  *)
(*                                                                         *)
(* A spindle stop in force is tied to the place it was made in: a complete *)
(* feed hold, or the door that opened in it and has not yet retracted.     *)
(***************************************************************************)
EXTENDS Realtime, TLAPS

ProbeJobs == {"probe", "probe_sync", "mc_probe", "probe_wait", "probe_end", "probe_fail"}

\* A cycle stop that no pass has consumed, be it only in the copy of the pin interrupt.
StopPending == "CYCLE_STOP" \in flags \cup pin

\* The machine is not to move in these states, once the reset in sight has been taken.
Standing == state \in {"IDLE", "ALARM"} \/ "HOLD_COMPLETE" \in suspend

\* A reset is certain to be taken before the command goes on.
Doomed ==
  \/ pc \in {"halt", "reset"}
  \/ pc = "snap" /\ "RESET" \in flags
  \/ pc = "ret" /\ abort

NoProbe == job \notin ProbeJobs /\ ~probe
AbortsReset == abort => pc = "ret" /\ "RESET" \in flags

\* What the pin interrupt stores is what it read, with its own flag.
PinStale ==
  pin # {} => /\ flags \ {"CYCLE_STOP", "MOTION_CANCEL"} \subseteq pin
              /\ pin \subseteq flags \cup {"FEED_HOLD", "CYCLE_START"}

AlarmResets == alarm # "none" => "RESET" \in flags \/ pc \in {"halt", "reset"}
AlarmStops == state = "ALARM" /\ tim2 => Doomed
StopMeansOff == StopPending => ~tim2

\* The pass under way has the pending stop in its copy of the flags.
StopSeen ==
  Standing /\ StopPending =>
    \/ pc \in {"main", "alarm", "snap"} \/ Doomed
    \/ pc \in {"hold", "start", "stop"} /\ "CYCLE_STOP" \in rt_exec
StopEmpty == Standing /\ StopPending /\ ~Doomed => blocks = 0
StopCopied ==
  pc \in {"hold", "start", "wake", "stop"} /\ "CYCLE_STOP" \in rt_exec =>
    "CYCLE_STOP" \in flags /\ (pin # {} => "CYCLE_STOP" \in pin)

AtWake == pc = "wake" => state = "CYCLE" /\ suspend = {} /\ ~tim2 /\ ~StopPending
AtJog ==
  pc \in {"jog", "jog_wake"} =>
    /\ state = (IF pc = "jog" THEN "IDLE" ELSE "JOG")
    /\ suspend = {} /\ ~tim2 /\ ~StopPending
DoorHeld ==
  state = "SAFETY_DOOR" /\ pc # "reset" => suspend \cap {"SAFETY_DOOR_AJAR", "HOLD_COMPLETE"} # {}

Parts ==
  /\ StoppedWhenSaid
  /\ NoProbe /\ AbortsReset /\ PinStale /\ AlarmResets /\ AlarmStops /\ StopMeansOff
  /\ StopSeen /\ StopEmpty /\ StopCopied /\ AtWake /\ AtJog /\ DoorHeld

IInv == TypeOK /\ Parts

-----------------------------------------------------------------------------
(* Types *)

\* TypeOK in three parts, for the provers.
Counts == blocks \in 0..PlannerSize /\ segs \in 0..SegmentCount /\ requests \in 0..MaxRequests
Control ==
  /\ pc \in {"main", "alarm", "halt", "snap", "hold", "start", "wake", "stop", "prep", "ret",
             "jog", "jog_wake", "reset"}
  /\ job \in Jobs /\ ctx \in {"plain", "sleep", "restore"} /\ abort \in BOOLEAN
Shared ==
  /\ rt_exec \subseteq Flags /\ flags \subseteq Flags /\ pin \subseteq Flags
  /\ state \in States /\ suspend \subseteq SuspendBits
  /\ step_control \subseteq {"EXECUTE_HOLD", "END_MOTION"} /\ soft_limit \in BOOLEAN
  /\ alarm \in Alarms /\ tim2 \in BOOLEAN /\ probe \in BOOLEAN /\ energized \in BOOLEAN
  /\ accessory \in BOOLEAN /\ spindle_stop \subseteq {"INITIATE", "ENABLED", "RESTORE", "RESTORE_CYCLE"}
  /\ held \in BOOLEAN

LEMMA TypeParts == TypeOK <=> Counts /\ Control /\ Shared
  BY DEF TypeOK, Counts, Control, Shared

LEMMA PrepCounts ==
  ASSUME NEW sc \in SUBSET {"EXECUTE_HOLD", "END_MOTION"}, Counts, Prep(sc)
  PROVE  /\ blocks' \in 0..PlannerSize /\ segs' \in 0..SegmentCount
         /\ step_control' \in SUBSET {"EXECUTE_HOLD", "END_MOTION"}
         /\ blocks = 0 => blocks' = 0
<1>1. CASE "END_MOTION" \in sc
  BY <1>1 DEF Counts, Prep
<1>2. CASE "END_MOTION" \notin sc
  <2>1. PICK b \in 0..blocks, s \in segs..SegmentCount : blocks' = b /\ segs' = s
    BY <1>2 DEF Prep
  <2>2. blocks' \in 0..PlannerSize /\ segs' \in 0..SegmentCount /\ (blocks = 0 => blocks' = 0)
    BY <2>1, RealtimeAssumption DEF RealtimeAssumption, Counts
  <2>3. step_control' = sc \/ step_control' = sc \cup {"END_MOTION"}
    BY <1>2 DEF Prep
  <2> QED
    BY <2>2, <2>3
<1> QED
  BY <1>1, <1>2

LEMMA InitType == Init => TypeOK
<1> SUFFICES ASSUME Init PROVE TypeOK
  OBVIOUS
<1>1. Counts
  BY RealtimeAssumption DEF RealtimeAssumption, Init, Counts
<1>2. Control /\ Shared
  BY DEF Init, Control, Shared, Jobs, States, Alarms
<1> QED
  BY <1>1, <1>2, TypeParts

\* The pass.
LEMMA ExecRtType == TypeOK /\ ExecRt => TypeOK'
<1> SUFFICES ASSUME Counts, Control, Shared, ExecRt PROVE Counts' /\ Control' /\ Shared'
  BY DEF TypeOK, Counts, Control, Shared
<1> USE DEF sysVars, stopVars, spindleVars, askVars
<1>1. CASE RtAlarm
  BY <1>1 DEF RtAlarm, Counts, Control, Shared, Flags, States, Alarms
<1>2. CASE RtHalted
  BY <1>2 DEF RtHalted, Counts, Control, Shared, Flags, States, Alarms
<1>3. CASE RtSnapshot
  BY <1>3 DEF RtSnapshot, Counts, Control, Shared
<1>4. CASE RtHold
  <2>1. DoorSuspend \subseteq SuspendBits /\ DoorState \in States
    BY DEF Shared, DoorSuspend, DoorState, HeldSuspend, HeldState, SuspendBits, States
  <2>2. suspend' \subseteq SuspendBits /\ state' \in States
    BY <1>4, <2>1 DEF RtHold, Shared, SuspendBits, States
  <2> QED
    BY <1>4, <2>2 DEF RtHold, Counts, Control, Shared
<1>5. CASE RtNoStart
  BY <1>5 DEF RtNoStart, StartFrame, Counts, Control, Shared
<1>6. CASE RtStart
  <2>1. ResumeSuspend \subseteq SuspendBits /\ ResumeState \in States
    BY DEF Shared, ResumeSuspend, ResumeState, SuspendBits, States
  <2>2. CASE Prep({}) /\ pc' = "wake" /\ state' = "CYCLE" /\ suspend' = {} /\ UNCHANGED <<flags, spindle_stop>>
    BY <1>6, <2>2, PrepCounts DEF RtStart, StartFrame, Counts, Control, Shared, States
  <2>3. CASE /\ pc' = "stop" /\ UNCHANGED <<blocks, segs>> /\ flags' = flags \ {"CYCLE_START"}
             /\ spindle_stop' = spindle_stop \cup (IF MayStart /\ Respins THEN {"RESTORE_CYCLE"} ELSE {})
             /\ \/ state' = "IDLE" /\ suspend' = {} /\ step_control' = {}
                \/ state' = ResumeState /\ suspend' = ResumeSuspend /\ UNCHANGED step_control
    <3>1. Counts' /\ Control'
      BY <1>6, <2>3 DEF RtStart, StartFrame, askVars, Counts, Control
    <3>2. /\ flags' \subseteq Flags /\ state' \in States /\ suspend' \subseteq SuspendBits
          /\ step_control' \subseteq {"EXECUTE_HOLD", "END_MOTION"}
          /\ spindle_stop' \subseteq {"INITIATE", "ENABLED", "RESTORE", "RESTORE_CYCLE"}
      BY <2>1, <2>3 DEF Shared, States
    <3> QED
      BY <1>6, <3>1, <3>2 DEF RtStart, StartFrame, askVars, Shared
  <2> QED
    BY <1>6, <2>2, <2>3 DEF RtStart
<1>7. CASE RtWake
  BY <1>7 DEF RtWake, Counts, Control, Shared
<1>8. CASE RtStop
  <2>1. Counts'
    BY <1>8, RealtimeAssumption DEF RealtimeAssumption, RtStop, HoldEnds, MotionEnds, Counts
  <2>2. state' \in States /\ suspend' \subseteq SuspendBits
    BY <1>8 DEF RtStop, HoldEnds, MotionEnds, Shared, States, SuspendBits
  <2> QED
    BY <1>8, <2>1, <2>2 DEF RtStop, HoldEnds, MotionEnds, Control, Shared
<1>9. CASE RtPrep
  <2>1. blocks' \in 0..PlannerSize /\ segs' \in 0..SegmentCount
        /\ step_control' \subseteq {"EXECUTE_HOLD", "END_MOTION"}
    BY <1>9, PrepCounts DEF RtPrep, Counts, Shared
  <2>2. spindle_stop' \subseteq {"INITIATE", "ENABLED", "RESTORE", "RESTORE_CYCLE"}
    BY <1>9 DEF RtPrep, TakenUp, Shared
  <2> QED
    BY <1>9, <2>1, <2>2 DEF RtPrep, Counts, Control, Shared
<1> QED
  BY <1>1, <1>2, <1>3, <1>4, <1>5, <1>6, <1>7, <1>8, <1>9 DEF ExecRt

\* The loops around the pass.
LEMMA SuspendType == TypeOK /\ Suspend => TypeOK'
<1> SUFFICES ASSUME Counts, Control, Shared, Suspend PROVE Counts' /\ Control' /\ Shared'
  BY DEF TypeOK, Counts, Control, Shared
<1> USE DEF askVars, SuspendFrame, Counts, Control, Shared
<1>1. CASE SuspendWait
  BY <1>1 DEF SuspendWait
<1>2. CASE SpindleStop
  BY <1>2 DEF SpindleStop
<1>3. CASE SpindleRestore
  BY <1>3 DEF SpindleRestore, Flags
<1>4. CASE SpindleStopped
  BY <1>4 DEF SpindleStopped
<1>5. CASE SuspendRetract
  BY <1>5 DEF SuspendRetract, SuspendBits
<1>6. CASE SuspendSleep
  BY <1>6 DEF SuspendSleep
<1>7. CASE SuspendDoor
  BY <1>7 DEF SuspendDoor
<1>8. CASE SleepAgain
  BY <1>8 DEF SleepAgain
<1>9. CASE RestoreAgain
  BY <1>9 DEF RestoreAgain
<1>10. CASE RestoreDone
  BY <1>10 DEF RestoreDone, SuspendBits, Flags
<1> QED
  BY <1>1, <1>2, <1>3, <1>4, <1>5, <1>6, <1>7, <1>8, <1>9, <1>10 DEF Suspend

\* The target of a line is checked: what the soft limits do.
LEMMA SoftResetType == TypeOK /\ SoftLimitReset => TypeOK'
<1> SUFFICES ASSUME Counts, Control, Shared, SoftLimitReset PROVE Counts' /\ Control' /\ Shared'
  BY DEF TypeOK, Counts, Control, Shared
<1>1. Counts' /\ Control'
  BY DEF SoftLimitReset, SoftLimitFrame, askVars, Pass, Counts, Control, Jobs
<1> QED
  BY <1>1 DEF SoftLimitReset, SoftLimitFrame, stopVars, askVars, Pass, Shared, Flags, Alarms

LEMMA EnterType ==
  ASSUME TypeOK, NEW j \in Jobs, EnterMcLine(j)
  PROVE  TypeOK'
<1>1. Counts /\ Control /\ Shared
  BY TypeParts
<1>2. CASE Pass(j) /\ Untouched /\ JobFrame
  BY <1>1, <1>2 DEF TypeOK, Counts, Control, Shared, Pass, Untouched, JobFrame, askVars, spindleVars, stopVars
<1>3. CASE SoftLimitHold
  <2>1. Counts' /\ Control'
    BY <1>1, <1>3 DEF SoftLimitHold, askVars, Pass, Counts, Control, Jobs
  <2>2. Shared'
    BY <1>1, <1>3 DEF SoftLimitHold, stopVars, spindleVars, askVars, Pass, Shared, Flags, HoldFlags
  <2> QED
    BY <2>1, <2>2 DEF TypeOK, Counts, Control, Shared
<1>4. CASE SoftLimitReset
  BY <1>4, SoftResetType
<1> QED
  BY <1>2, <1>3, <1>4 DEF EnterMcLine

LEMMA ExecuteType == TypeOK /\ Execute => TypeOK'
<1> SUFFICES ASSUME TypeOK, Counts, Control, Shared, Execute PROVE TypeOK'
  BY TypeParts
<1>0. (Counts' /\ Control' /\ Shared') => TypeOK'
  BY DEF TypeOK, Counts, Control, Shared
<1> USE DEF sysVars, spindleVars, stopVars, askVars, Pass, ToMain, Back, Untouched, JobFrame
<1>1. CASE MainLoop \/ MainLoopAgain \/ Reject \/ Sleep \/ Unlock
  <2>1. Counts'
    BY <1>1 DEF MainLoop, MainLoopAgain, Reject, Sleep, Unlock, AutoCycleStart, Counts
  <2>2. Control'
    BY <1>1 DEF MainLoop, MainLoopAgain, Reject, Sleep, Unlock, AutoCycleStart, Control, Jobs
  <2>3. flags' \subseteq Flags /\ state' \in States
    BY <1>1 DEF MainLoop, MainLoopAgain, Reject, Sleep, Unlock, AutoCycleStart, Shared, Flags, HoldFlags, States
  <2>4. Shared'
    BY <1>1, <2>3 DEF MainLoop, MainLoopAgain, Reject, Sleep, Unlock, Shared
  <2> QED
    BY <1>0, <2>1, <2>2, <2>4
<1>2. CASE SoftHolding
  <2>1. CASE SoftLimitReset
    BY <2>1, SoftResetType
  <2>2. CASE Pass("soft_hold") /\ Untouched /\ JobFrame
    BY <2>2 DEF TypeOK, Jobs
  <2> QED
    BY <1>2, <2>1, <2>2 DEF SoftHolding
<1>3. CASE Line \/ Probe
  BY <1>3, EnterType DEF Line, Probe, Jobs
<1>4. CASE Jog \/ SyncAgain \/ SyncDone \/ ProbeFailed \/ ProbeWait
  BY ZenonT(30), <1>4 DEF Jog, SyncAgain, SyncDone, ProbeFailed, ProbeWait, TypeOK, Jobs
<1>5. CASE McLineFull \/ Sync \/ ProbeFailInitial
  <2>1. Counts' /\ Control'
    BY ZenonT(30), <1>5 DEF McLineFull, Sync, ProbeFailInitial, AutoCycleStart, Counts, Control, Jobs
  <2>2. Shared'
    BY ZenonT(30), <1>5 DEF McLineFull, Sync, ProbeFailInitial, AutoCycleStart, Shared, Flags, Alarms
  <2> QED
    BY <1>0, <2>1, <2>2
<1>6. CASE McLine \/ McJog \/ McProbe
  <2>1. Counts'
    BY <1>6, RealtimeAssumption DEF RealtimeAssumption, McLine, McJog, McProbe, Plan, Counts
  <2>2. Control' /\ Shared'
    BY <1>6 DEF McLine, McJog, McProbe, Control, Shared, Jobs, Flags
  <2> QED
    BY <1>0, <2>1, <2>2
<1>7. CASE JogPrep
  <2>1. blocks' \in 0..PlannerSize /\ segs' \in 0..SegmentCount
        /\ step_control' \subseteq {"EXECUTE_HOLD", "END_MOTION"}
    BY <1>7, PrepCounts DEF JogPrep, Counts, Shared
  <2> QED
    BY <1>0, <1>7, <2>1 DEF JogPrep, Counts, Control, Shared, States
<1>8. CASE JogWake
  BY <1>0, <1>8 DEF JogWake, Counts, Control, Shared, Jobs
<1>9. CASE ProbeEnd \/ ProbeFlush
  <2>1. Counts'
    BY <1>9, RealtimeAssumption DEF RealtimeAssumption, ProbeEnd, ProbeFlush, Counts
  <2>2. Control' /\ Shared'
    BY ZenonT(30), <1>9 DEF ProbeEnd, ProbeFlush, Control, Shared, Jobs, Alarms
  <2> QED
    BY <1>0, <2>1, <2>2
<1>10. CASE Abort \/ Restart
  <2>1. Counts'
    BY <1>10, RealtimeAssumption DEF RealtimeAssumption, Abort, Restart, Counts
  <2>2. Control'
    BY <1>10 DEF Abort, Restart, Control, Jobs
  <2>3. state' \in States /\ alarm' \in Alarms
    BY <1>10 DEF Abort, Restart, Shared, States, Alarms
  <2>4. Shared'
    BY <1>10, <2>3 DEF Abort, Restart, Shared
  <2> QED
    BY <1>0, <2>1, <2>2, <2>4
<1> QED
  BY <1>1, <1>2, <1>3, <1>4, <1>5, <1>6, <1>7, <1>8, <1>9, <1>10 DEF Execute

LEMMA ReceiveType == TypeOK /\ Receive => TypeOK'
  BY RealtimeAssumption DEF RealtimeAssumption, TypeOK, Receive, Pass, JobFrame, spindleVars, stopVars, askVars,
     AllCommands, Jobs

LEMMA InterruptType == TypeOK /\ Interrupt => TypeOK'
<1> SUFFICES ASSUME Counts, Control, Shared, Interrupt PROVE Counts' /\ Control' /\ Shared'
  BY DEF TypeOK, Counts, Control, Shared
<1> USE DEF mainVars, sysVars, stepVars, stopVars, spindleVars, InterruptFrame, Request, McReset
<1>1. Counts'
  BY RealtimeAssumption DEF RealtimeAssumption, Counts, Interrupt, Tim2Segment, Tim2Empty, OperatorHold, OperatorStart,
     OperatorJogCancel, OperatorSpindleStop, OperatorReset, LimitSwitch, PinRead, PinStore
<1>2. Control'
  BY DEF Control, Interrupt, Tim2Segment, Tim2Empty, OperatorHold, OperatorStart,
     OperatorJogCancel, OperatorSpindleStop, OperatorReset, LimitSwitch, PinRead, PinStore
<1>3. Shared'
  <2> USE DEF Shared, askVars
  <2>1. CASE Tim2Segment
    BY <2>1 DEF Tim2Segment, Flags, HoldFlags
  <2>2. CASE Tim2Empty
    BY <2>2 DEF Tim2Empty, Flags
  <2>3. CASE OperatorHold \/ OperatorStart \/ OperatorJogCancel
    <3>1. flags' \subseteq Flags /\ held' \in BOOLEAN
      BY <2>3 DEF OperatorHold, OperatorStart, OperatorJogCancel, Flags, HoldFlags
    <3> QED
      BY <2>3, <3>1 DEF OperatorHold, OperatorStart, OperatorJogCancel
  <2>4. CASE OperatorSpindleStop
    BY <2>4 DEF OperatorSpindleStop
  <2>5. CASE OperatorReset \/ LimitSwitch
    <3>1. flags' \subseteq Flags /\ alarm' \in Alarms /\ tim2' \in BOOLEAN /\ energized' \in BOOLEAN
      BY <2>5 DEF OperatorReset, LimitSwitch, Flags, Alarms
    <3> QED
      BY <2>5, <3>1 DEF OperatorReset, LimitSwitch
  <2>6. CASE PinRead
    <3>1. pin' \subseteq Flags /\ held' \in BOOLEAN
      BY <2>6 DEF PinRead, Flags, HoldFlags
    <3> QED
      BY <2>6, <3>1 DEF PinRead
  <2>7. CASE PinStore
    BY <2>7 DEF PinStore
  <2> QED
    BY <2>1, <2>2, <2>3, <2>4, <2>5, <2>6, <2>7 DEF Interrupt
<1> QED
  BY <1>1, <1>2, <1>3

LEMMA NextType == TypeOK /\ [Next]_vars => TypeOK'
<1>1. TypeOK /\ UNCHANGED vars => TypeOK'
  BY DEF TypeOK, vars, spindleVars, stopVars
<1> QED
  BY <1>1, ExecRtType, SuspendType, ExecuteType, ReceiveType, InterruptType DEF Next, Main

\* Every variable keeps to the values that protocol.c and the interrupts give it, for every size of
\* the planner and of the ring: no order of requests fills either beyond its end.
THEOREM TypeCorrect == Spec => []TypeOK
  BY InitType, NextType, PTL DEF Spec

-----------------------------------------------------------------------------
(* A completed hold has stopped the machine *)

LEMMA InitParts == Init => Parts
  BY DEF Init, Parts, StoppedWhenSaid, NoProbe, ProbeJobs, AbortsReset, PinStale, AlarmResets, AlarmStops,
     StopMeansOff, StopPending, Standing, Doomed, StopSeen, StopEmpty, StopCopied, AtWake, AtJog, DoorHeld

\* The pass.
LEMMA ExecRtParts ==
  ASSUME TypeOK, Parts, pin = {}, ExecRt
  PROVE  Parts'
<1> USE DEF sysVars, stopVars, spindleVars, askVars
<1> USE DEF Parts, StoppedWhenSaid, NoProbe, ProbeJobs, AbortsReset, PinStale, AlarmResets, AlarmStops,
     StopMeansOff, StopPending, Standing, Doomed, StopSeen, StopEmpty, StopCopied, AtWake, AtJog, DoorHeld
<1>1. CASE RtAlarm
  BY <1>1 DEF RtAlarm
<1>2. CASE RtHalted
  BY <1>2 DEF RtHalted
<1>3. CASE RtSnapshot
  BY <1>3 DEF RtSnapshot
<1>4. CASE RtHold
  BY <1>4 DEF RtHold, HoldFlags, DoorSuspend, DoorState, HeldSuspend, HeldState
<1>5. CASE RtNoStart
  BY <1>5 DEF RtNoStart, StartFrame
<1>6. CASE RtStart
  BY <1>6, PrepCounts DEF RtStart, StartFrame, TypeOK, Counts, MayStart, ResumeState, ResumeSuspend, DoorClosed
<1>7. CASE RtWake
  BY <1>7 DEF RtWake
<1>8. CASE RtStop
  BY <1>8 DEF RtStop, HoldEnds, MotionEnds, StopHolds
<1>9. CASE RtPrep
  <2>1. blocks = 0 => blocks' = 0
    BY <1>9, PrepCounts DEF RtPrep, TypeOK, Counts
  <2> QED
    BY <1>9, <2>1 DEF RtPrep
<1> QED
  BY <1>1, <1>2, <1>3, <1>4, <1>5, <1>6, <1>7, <1>8, <1>9 DEF ExecRt

\* The loops around the pass.
LEMMA SuspendParts ==
  ASSUME TypeOK, Parts, pin = {}, Suspend
  PROVE  Parts'
<1> USE DEF askVars, SuspendFrame, Suspended, Holding, Parked
<1> USE DEF Parts, StoppedWhenSaid, NoProbe, ProbeJobs, AbortsReset, PinStale, AlarmResets, AlarmStops,
     StopMeansOff, StopPending, Standing, Doomed, StopSeen, StopEmpty, StopCopied, AtWake, AtJog, DoorHeld
<1>1. CASE SuspendWait
  BY <1>1 DEF SuspendWait
<1>2. CASE SpindleStop
  BY <1>2 DEF SpindleStop
<1>3. CASE SpindleRestore
  BY <1>3 DEF SpindleRestore
<1>4. CASE SpindleStopped
  BY <1>4 DEF SpindleStopped
<1>5. CASE SuspendRetract
  BY <1>5 DEF SuspendRetract
<1>6. CASE SuspendSleep
  BY <1>6 DEF SuspendSleep
<1>7. CASE SuspendDoor
  BY <1>7 DEF SuspendDoor
<1>8. CASE SleepAgain
  BY <1>8 DEF SleepAgain
<1>9. CASE RestoreAgain
  BY <1>9 DEF RestoreAgain
<1>10. CASE RestoreDone
  BY <1>10 DEF RestoreDone
<1> QED
  BY <1>1, <1>2, <1>3, <1>4, <1>5, <1>6, <1>7, <1>8, <1>9, <1>10 DEF Suspend

\* The commands.
LEMMA ExecuteParts ==
  ASSUME TypeOK, Parts, pin = {}, Execute
  PROVE  Parts'
<1> USE DEF sysVars, spindleVars, stopVars, askVars, Pass, ToMain, Back, Untouched, JobFrame
<1> USE DEF Parts, StoppedWhenSaid, NoProbe, ProbeJobs, AbortsReset, PinStale, AlarmResets, AlarmStops,
     StopMeansOff, StopPending, Standing, Doomed, StopSeen, StopEmpty, StopCopied, AtWake, AtJog, DoorHeld
<1>1. CASE MainLoop
  BY <1>1 DEF MainLoop, AutoCycleStart
<1>2. CASE MainLoopAgain \/ Reject \/ SyncDone
  BY <1>2 DEF MainLoopAgain, Reject, SyncDone
<1>3. CASE Sleep
  BY <1>3 DEF Sleep
<1>4. CASE Unlock
  BY <1>4 DEF Unlock, Accepts
<1>5. CASE SoftLimitReset /\ pc = "ret" /\ ~abort
  BY <1>5 DEF SoftLimitReset, SoftLimitFrame, Kills
<1>6. CASE SoftLimitHold /\ pc = "ret" /\ ~abort
  BY <1>6 DEF SoftLimitHold
<1>7. CASE SoftHolding
  BY <1>5, <1>7 DEF SoftHolding
<1>8. CASE Line
  <2>1. CASE Pass("mc_line") /\ Untouched /\ JobFrame
    BY <1>8, <2>1 DEF Line
  <2> QED
    BY <1>5, <1>6, <1>8, <2>1 DEF Line, EnterMcLine
<1>9. CASE Jog
  BY <1>9 DEF Jog
<1>10. CASE McLineFull
  BY <1>10 DEF McLineFull, AutoCycleStart
<1>11. CASE McLine
  BY <1>11 DEF McLine
<1>12. CASE McJog
  BY <1>12 DEF McJog
<1>13. CASE JogPrep
  BY <1>13 DEF JogPrep
<1>14. CASE JogWake
  BY <1>14 DEF JogWake
<1>15. CASE Sync
  BY <1>15 DEF Sync, AutoCycleStart
<1>16. CASE SyncAgain
  BY <1>16 DEF SyncAgain
<1>17. CASE ProbeFailInitial \/ ProbeFailed \/ Probe \/ McProbe \/ ProbeWait \/ ProbeEnd \/ ProbeFlush
  BY <1>17 DEF ProbeFailInitial, ProbeFailed, Probe, McProbe, ProbeWait, ProbeEnd, ProbeFlush
<1>18. CASE Abort
  BY <1>18 DEF Abort
<1>19. CASE Restart
  BY <1>19 DEF Restart
<1> QED
  BY <1>1, <1>2, <1>3, <1>4, <1>7, <1>8, <1>9, <1>10, <1>11, <1>12, <1>13, <1>14, <1>15, <1>16, <1>17,
     <1>18, <1>19 DEF Execute

LEMMA ReceiveParts ==
  ASSUME Parts, Receive, "probe" \notin Commands
  PROVE  Parts'
  BY RealtimeAssumption DEF RealtimeAssumption, Receive, Pass, JobFrame, spindleVars, stopVars, askVars, AllCommands,
     Parts, StoppedWhenSaid, NoProbe, ProbeJobs, AbortsReset, PinStale, AlarmResets, AlarmStops,
     StopMeansOff, StopPending, Standing, Doomed, StopSeen, StopEmpty, StopCopied, AtWake, AtJog, DoorHeld

LEMMA InterruptParts ==
  ASSUME TypeOK, Parts, Interrupt
  PROVE  Parts'
<1> USE DEF mainVars, sysVars, stepVars, stopVars, spindleVars, InterruptFrame, Request, McReset
<1> USE DEF Parts, StoppedWhenSaid, NoProbe, ProbeJobs, AbortsReset, PinStale, AlarmResets, AlarmStops,
     StopMeansOff, StopPending, Standing, Doomed, StopSeen, StopEmpty, StopCopied, AtWake, AtJog, DoorHeld
<1>1. CASE Tim2Segment
  BY <1>1 DEF Tim2Segment
<1>2. CASE Tim2Empty
  BY <1>2 DEF Tim2Empty
<1>3. CASE OperatorHold
  BY <1>3 DEF OperatorHold
<1>4. CASE OperatorStart
  BY <1>4 DEF OperatorStart
<1>5. CASE OperatorJogCancel
  BY <1>5 DEF OperatorJogCancel
<1>6. CASE OperatorSpindleStop
  BY <1>6 DEF OperatorSpindleStop
<1>7. CASE OperatorReset
  BY <1>7 DEF OperatorReset
<1>8. CASE LimitSwitch
  BY <1>8 DEF LimitSwitch
<1>9. CASE PinRead
  BY <1>9 DEF PinRead, askVars
<1>10. CASE PinStore
  BY <1>10 DEF PinStore
<1> QED
  BY <1>1, <1>2, <1>3, <1>4, <1>5, <1>6, <1>7, <1>8, <1>9, <1>10 DEF Interrupt

LEMMA StutterParts == Parts /\ UNCHANGED vars => Parts'
  BY DEF vars, spindleVars, stopVars,
     Parts, StoppedWhenSaid, NoProbe, ProbeJobs, AbortsReset, PinStale, AlarmResets, AlarmStops,
     StopMeansOff, StopPending, Standing, Doomed, StopSeen, StopEmpty, StopCopied, AtWake, AtJog, DoorHeld

LEMMA Invariance == "probe" \notin Commands => (Spec => []IInv)
<1> SUFFICES ASSUME "probe" \notin Commands PROVE Spec => []IInv
  OBVIOUS
<1>1. Init => IInv
  BY InitType, InitParts DEF IInv
<1>2. IInv /\ [Next]_vars => IInv'
  <2> SUFFICES ASSUME TypeOK, Parts, [Next]_vars PROVE Parts'
    BY NextType DEF IInv
  <2>1. CASE Main
    BY <2>1, ExecRtParts, SuspendParts, ExecuteParts DEF Main
  <2>2. CASE Receive
    BY <2>2, ReceiveParts
  <2>3. CASE Interrupt
    BY <2>3, InterruptParts
  <2> QED
    BY <2>1, <2>2, <2>3, StutterParts DEF Next
<1> QED
  BY <1>1, <1>2, PTL DEF Spec

\* A machine that says its hold is complete, or that it is idle, gives no step pulse: whatever the
\* order of holds, doors, pins, jogs, limits, resets and timer interrupts, as long as no probing
\* cycle is run.  With one the claim is false: a feed hold during the probe's synchronization lets
\* the alarm of a probe that is triggered too early come with the motion under way, and $X then
\* says IDLE.
THEOREM Stopped == "probe" \notin Commands => (Spec => []StoppedWhenSaid)
<1> SUFFICES ASSUME "probe" \notin Commands PROVE Spec => []StoppedWhenSaid
  OBVIOUS
<1>1. Spec => []IInv
  BY Invariance
<1>2. IInv => StoppedWhenSaid
  BY DEF IInv, Parts
<1> QED
  BY <1>1, <1>2, PTL

-----------------------------------------------------------------------------
(* No hold is resumed without the operator *)

\* A hold was requested that a pass is yet to take: one that comes between the copy and
\* the clearing of other hold flags is lost, and does not count.
Asked ==
  {"FEED_HOLD", "SAFETY_DOOR"}
    \cap (IF pc = "hold" /\ rt_exec \cap HoldFlags # {} THEN rt_exec ELSE flags \cup pin) # {}

\* A hold was requested and taken, and no cycle start has come since.
Quiet == held /\ ~Asked

StartPending == "CYCLE_START" \in flags \cup pin

\* A cycle start finds the hold not complete, or the door ajar, and has no effect.
Waiting == "HOLD_COMPLETE" \notin suspend \/ "SAFETY_DOOR_AJAR" \in suspend

HoldsCopied ==
  pc = "hold" => rt_exec \cap HoldFlags \subseteq flags /\ (pin # {} => rt_exec \cap HoldFlags \subseteq pin)
CancelOfJog ==
  "MOTION_CANCEL" \in flags \cup pin /\ (pc \in {"start", "wake", "stop"} \/ (pc = "hold" /\ rt_exec \cap HoldFlags = {}))
    => state = "JOG"
StartCopied == pc = "hold" /\ rt_exec \cap HoldFlags # {} /\ held /\ StartPending => "CYCLE_START" \in rt_exec

\* $SLP is only taken at rest, and the next pass has it.
SleepAtRest ==
  /\ "SLEEP" \in flags \cup pin =>
       /\ state \in {"IDLE", "ALARM"}
       /\ pc \in {"main", "alarm", "snap"} \/ Doomed \/ (pc = "hold" /\ "SLEEP" \in rt_exec)
  /\ state = "SLEEP" /\ pc # "reset" => "HOLD_COMPLETE" \in suspend
  /\ pc \in {"start", "wake", "stop"} /\ "SLEEP" \in rt_exec => state = "SLEEP"

\* Which states a suspend bit belongs to.
SuspendStates ==
  /\ "HOLD_COMPLETE" \in suspend => state \notin {"CYCLE", "JOG"}
  /\ "JOG_CANCEL" \in suspend => state \in {"JOG", "ALARM"}
  /\ "SAFETY_DOOR_AJAR" \in suspend => state \in {"SAFETY_DOOR", "JOG", "SLEEP", "ALARM"}
  /\ "RETRACT_COMPLETE" \in suspend => state \in {"SAFETY_DOOR", "SLEEP", "ALARM"}
  /\ suspend \cap {"INITIATE_RESTORE", "RESTART_RETRACT"} # {} => state \in {"SAFETY_DOOR", "ALARM"}
  /\ state = "JOG" => "MOTION_CANCEL" \notin suspend
  /\ state = "ALARM" /\ (suspend # {} \/ ctx # "plain") => Doomed
  /\ ctx = "sleep" => state \in {"SLEEP", "ALARM"}
  /\ pc = "main" => suspend = {}
  /\ pc = "reset" => ctx = "plain" /\ suspend = {} /\ ~Quiet /\ "RESTORE_CYCLE" \notin spindle_stop

\* Where the hold has its effect.
InEffect ==
  Quiet =>
    \/ Overtaken
    \/ state \in {"CYCLE", "HOLD", "SAFETY_DOOR", "SLEEP"}
    \/ state = "JOG" /\ "JOG_CANCEL" \in suspend
    \/ state \in {"IDLE", "JOG"} /\ "MOTION_CANCEL" \in flags
         /\ (pin # {} => "MOTION_CANCEL" \in pin) /\ pc \notin {"start", "wake", "stop"} /\ (pc = "hold" => "MOTION_CANCEL" \in rt_exec)
    \/ state = "IDLE" /\ "HOLD_COMPLETE" \in suspend
    \/ state = "ALARM" /\ Doomed

StartInPass ==
  Quiet /\ StartPending => pc \in {"alarm", "snap"} \/ Doomed \/ (pc \in {"hold", "start"} /\ "CYCLE_START" \in rt_exec)
StartWaits ==
  Quiet /\ ~Overtaken =>
    /\ pc \in {"alarm", "snap"} /\ StartPending /\ ~Doomed => Waiting
    /\ pc \in {"hold", "start"} /\ "CYCLE_START" \in rt_exec => Waiting \/ rt_exec \cap HoldFlags # {}

\* A door that was opened again is not restored behind the operator's back.
DoorRests ==
  Quiet /\ state = "SAFETY_DOOR" =>
    "INITIATE_RESTORE" \notin suspend /\ (ctx = "restore" => "SAFETY_DOOR_AJAR" \in suspend)

\* The suspend loop owes a cycle start for a spindle it restores.
OwedStart ==
  "RESTORE_CYCLE" \in spindle_stop /\ ~Doomed =>
    /\ "HOLD_COMPLETE" \in suspend
    /\ \/ state = "HOLD" /\ (Overtaken \/ ctx = "restore" \/ (pc \in {"stop", "prep", "ret"} /\ ~Quiet))
       \/ state = "SAFETY_DOOR" /\ "SAFETY_DOOR_AJAR" \in suspend /\ "RETRACT_COMPLETE" \notin suspend
StopAlone ==
  "HOLD_COMPLETE" \in suspend /\ StopPending /\ ~Doomed =>
    /\ pc \in {"start", "stop"} /\ rt_exec \cap HoldFlags # {}
    /\ "RESTORE_CYCLE" \notin spindle_stop /\ ctx # "sleep"

SyncedNotJog == (job = "synced" => state # "JOG") /\ (pc \in {"jog", "jog_wake"} => job = "mc_jog")

Holds ==
  /\ HoldsCopied /\ CancelOfJog /\ StartCopied /\ SleepAtRest /\ SuspendStates /\ InEffect /\ StartInPass /\ StartWaits
  /\ DoorRests /\ OwedStart /\ StopAlone /\ SyncedNotJog

LEMMA InitHolds == Init => Holds
  BY DEF Init, Holds, HoldsCopied, CancelOfJog, StartCopied, SleepAtRest, SuspendStates, InEffect, StartInPass, StartWaits,
     DoorRests, OwedStart, StopAlone, SyncedNotJog, Asked, Quiet, StartPending, Waiting, Overtaken, StopPending,
     Doomed, Flags, HoldFlags

\* The steps of the pass that end, start or complete a motion need some care.
LEMMA StopInEffect ==
  ASSUME Holds, pin = {}, RtStop
  PROVE  InEffect'
<1> USE DEF spindleVars, stopVars, askVars, RtStop
<1>1. CASE "CYCLE_STOP" \notin rt_exec
  BY <1>1 DEF Holds, InEffect, Quiet, Asked, Overtaken, Doomed
<1>2. CASE "CYCLE_STOP" \in rt_exec /\ StopHolds
  BY <1>2 DEF HoldEnds, StopHolds, InEffect
<1>3. CASE "CYCLE_STOP" \in rt_exec /\ ~StopHolds
  <2> SUFFICES ASSUME Quiet', state' # "SAFETY_DOOR" PROVE InEffect'
    BY DEF InEffect
  <2>1. state' = "IDLE" /\ pc' = "prep" /\ HoldFlags \cap flags # {} /\ flags' = flags \ {"CYCLE_STOP"} /\ pin' = {}
    BY <1>3 DEF MotionEnds, Quiet
  <2>2. "SLEEP" \notin flags
    BY DEF Holds, SleepAtRest, Doomed
  <2>3. "FEED_HOLD" \notin flags' /\ "SAFETY_DOOR" \notin flags'
    BY <2>1 DEF Quiet, Asked
  <2>4. "MOTION_CANCEL" \in flags'
    BY <2>1, <2>2, <2>3 DEF HoldFlags
  <2> QED
    BY <2>1, <2>4 DEF InEffect
<1> QED
  BY <1>1, <1>2, <1>3

LEMMA StopDoorRests ==
  ASSUME Parts, Holds, pin = {}, RtStop
  PROVE  DoorRests'
<1> USE DEF spindleVars, stopVars, askVars, RtStop
<1>1. Quiet' => Quiet
  BY DEF HoldEnds, MotionEnds, Quiet, Asked
<1>2. CASE state = "SAFETY_DOOR"
  BY <1>1, <1>2 DEF Holds, DoorRests, HoldEnds, MotionEnds
<1>3. CASE state # "SAFETY_DOOR" /\ state' = "SAFETY_DOOR"
  <2>1. "SAFETY_DOOR_AJAR" \in suspend /\ suspend' = (suspend \ {"JOG_CANCEL"}) \cup {"HOLD_COMPLETE"}
    BY <1>3 DEF HoldEnds, MotionEnds
  <2>2. "INITIATE_RESTORE" \notin suspend
    BY <1>3, <2>1 DEF Holds, SuspendStates, Doomed
  <2> QED
    BY <2>1, <2>2 DEF DoorRests
<1> QED
  BY <1>2, <1>3 DEF DoorRests

\* A start that a quiet hold lets pass.
LEMMA StartOvertakes ==
  ASSUME Holds, Quiet, RtStart
  PROVE  Overtaken \/ Waiting \/ state = "SLEEP"
<1>1. rt_exec \cap HoldFlags # {} => state = "SLEEP"
  BY DEF RtStart, HoldRequested, HoldFlags, Holds, SleepAtRest
<1>2. pc = "start" /\ "CYCLE_START" \in rt_exec
  BY DEF RtStart
<1>3. Overtaken \/ Waiting \/ rt_exec \cap HoldFlags # {}
  BY <1>2 DEF Holds, StartWaits
<1> QED
  BY <1>1, <1>3

LEMMA StartDoorRests ==
  ASSUME Parts, Holds, pin = {}, RtStart
  PROVE  DoorRests'
<1> USE DEF askVars, StartFrame, RtStart
<1> SUFFICES ASSUME Quiet', state' = "SAFETY_DOOR" PROVE DoorRests'
  BY DEF DoorRests
<1>1. ~(MayStart /\ ~Respins)
  OBVIOUS
<1>2. state' = ResumeState /\ suspend' = ResumeSuspend /\ ctx' = ctx /\ state = "SAFETY_DOOR"
  BY <1>1 DEF ResumeState
<1>3. Quiet
  BY <1>1 DEF Quiet, Asked
<1>4. ~DoorClosed
  BY <1>2, <1>3, StartOvertakes DEF Overtaken, Waiting, DoorClosed, Parts, DoorHeld
<1> QED
  BY <1>2, <1>3, <1>4 DEF Holds, DoorRests, ResumeSuspend

LEMMA StartOwed ==
  ASSUME Holds, pin = {}, RtStart
  PROVE  OwedStart'
<1> USE DEF askVars, StartFrame, RtStart
<1>1. CASE MayStart /\ ~Respins
  <2>1. "RESTORE_CYCLE" \notin spindle_stop
    BY <1>1 DEF Holds, OwedStart, Doomed, MayStart, Respins, ResumeState, DoorClosed
  <2> QED
    BY <1>1, <2>1 DEF OwedStart
<1>2. CASE MayStart /\ Respins
  <2>1. state = "HOLD" /\ "HOLD_COMPLETE" \in suspend /\ state' = "HOLD" /\ suspend' = suspend /\ pc' = "stop"
    BY <1>2 DEF MayStart, Respins, ResumeState, ResumeSuspend, DoorClosed
  <2>2. Quiet => Overtaken
    BY <2>1, StartOvertakes DEF Waiting, Holds, SuspendStates
  <2>3. Quiet' => Quiet
    BY <1>2 DEF Quiet, Asked
  <2> QED
    BY <2>1, <2>2, <2>3 DEF OwedStart, Overtaken
<1>3. CASE ~MayStart
  <2>1. state' = ResumeState /\ suspend' = ResumeSuspend /\ spindle_stop' = spindle_stop /\ ctx' = ctx
        /\ pc' = "stop"
    BY <1>3
  <2>2. Quiet' => Quiet
    BY <1>3 DEF Quiet, Asked
  <2> QED
    BY <1>3, <2>1, <2>2 DEF Holds, OwedStart, Doomed, Overtaken, MayStart, ResumeState, ResumeSuspend, DoorClosed
<1> QED
  BY <1>1, <1>2, <1>3

LEMMA HoldInEffect ==
  ASSUME Holds, pin = {}, RtHold
  PROVE  InEffect'
<1> USE DEF spindleVars, stopVars, askVars
<1> SUFFICES ASSUME Quiet' PROVE InEffect'
  BY DEF InEffect
<1>1. CASE rt_exec \cap HoldFlags = {}
  BY <1>1 DEF RtHold, Holds, InEffect, Quiet, Asked, Overtaken, Doomed, HoldFlags
<1>2. CASE rt_exec \cap HoldFlags # {} /\ (state = "ALARM" \/ "SLEEP" \in rt_exec)
  BY <1>2 DEF RtHold, InEffect, Quiet
<1>3. CASE rt_exec \cap HoldFlags # {} /\ state # "ALARM" /\ "SLEEP" \notin rt_exec
  <2>1. /\ pc = "hold" /\ pc' = "start" /\ suspend' = DoorSuspend /\ state' = DoorState
        /\ held /\ (state = "SAFETY_DOOR" => "SAFETY_DOOR" \in rt_exec)
    BY <1>3 DEF RtHold, Quiet
  <2>2. CASE rt_exec \cap {"FEED_HOLD", "SAFETY_DOOR"} # {} /\ state = "JOG"
    <3>1. "JOG_CANCEL" \in HeldSuspend
      BY <1>3, <2>2 DEF HeldSuspend, StartsHold, Holds, SuspendStates
    <3> QED
      BY <2>1, <2>2, <3>1 DEF InEffect, DoorSuspend, DoorState, HeldState
  <2>3. CASE rt_exec \cap {"FEED_HOLD", "SAFETY_DOOR"} # {} /\ state # "JOG"
    <3>1. "JOG_CANCEL" \notin HeldSuspend
      BY <1>3, <2>3 DEF HeldSuspend, StartsHold, Holds, SuspendStates
    <3>2. DoorState \in {"HOLD", "SAFETY_DOOR", "SLEEP"}
      BY <2>3, <3>1 DEF DoorState, HeldState
    <3> QED
      BY <2>1, <3>2 DEF InEffect
  <2>4. CASE rt_exec \cap {"FEED_HOLD", "SAFETY_DOOR"} = {}
    <3>1. state' = state /\ (state = "IDLE" => "HOLD_COMPLETE" \in suspend') /\ (state # "IDLE" => suspend \subseteq suspend')
      BY <2>1, <2>4 DEF DoorSuspend, DoorState, HeldSuspend, HeldState
    <3>2. Quiet
      BY <1>3, <2>1, <2>4 DEF Quiet, Asked
    <3>3. state = "JOG" => "JOG_CANCEL" \in suspend'
      BY <1>3, <2>1, <2>4 DEF DoorSuspend, HeldSuspend, StartsHold, Holds, SuspendStates
    <3>4. \/ Overtaken \/ state \in {"CYCLE", "HOLD", "SAFETY_DOOR", "SLEEP", "JOG", "IDLE"}
      BY <1>3, <2>1, <3>2 DEF Holds, InEffect
    <3>5. CASE state = "IDLE"
      BY <3>1, <3>5 DEF InEffect
    <3>6. CASE state # "IDLE" /\ Overtaken
      BY <3>1, <3>6 DEF InEffect, Overtaken
    <3> QED
      BY <3>1, <3>3, <3>4, <3>5, <3>6 DEF InEffect
  <2> QED
    BY <2>2, <2>3, <2>4
<1> QED
  BY <1>1, <1>2, <1>3

\* The pass.
LEMMA ExecRtHolds ==
  ASSUME TypeOK, Parts, Holds, pin = {}, ExecRt
  PROVE  Holds'
<1> USE DEF sysVars, stopVars, spindleVars, askVars
<1> USE DEF Holds, HoldsCopied, CancelOfJog, StartCopied, SleepAtRest, SuspendStates, InEffect, StartInPass, StartWaits,
     DoorRests, OwedStart, StopAlone, SyncedNotJog, Asked, Quiet, StartPending, Waiting, Overtaken, StopPending,
     Doomed, Flags, HoldFlags
<1> USE DEF Parts, StoppedWhenSaid, NoProbe, ProbeJobs, AbortsReset, PinStale, AlarmResets, AlarmStops,
     StopMeansOff, Standing, StopSeen, StopEmpty, StopCopied, AtWake, AtJog, DoorHeld
<1>1. CASE RtAlarm
  BY <1>1 DEF RtAlarm
<1>2. CASE RtHalted
  <2>1. HoldsCopied'
    BY <1>2 DEF RtHalted
  <2>2. CancelOfJog'
    BY <1>2 DEF RtHalted
  <2>3. StartCopied'
    BY <1>2 DEF RtHalted
  <2>4. SleepAtRest'
    BY <1>2 DEF RtHalted
  <2>5. SuspendStates'
    BY <1>2 DEF RtHalted
  <2>6. InEffect'
    BY <1>2 DEF RtHalted
  <2>7. StartInPass'
    BY <1>2 DEF RtHalted
  <2>8. StartWaits'
    BY <1>2 DEF RtHalted
  <2>9. DoorRests'
    BY <1>2 DEF RtHalted
  <2>10. OwedStart'
    BY <1>2 DEF RtHalted
  <2>11. StopAlone'
    BY <1>2 DEF RtHalted
  <2>12. SyncedNotJog'
    BY <1>2 DEF RtHalted
  <2> QED
    BY <2>1, <2>2, <2>3, <2>4, <2>5, <2>6, <2>7, <2>8, <2>9, <2>10, <2>11, <2>12 DEF Holds
<1>3. CASE RtSnapshot
  BY <1>3 DEF RtSnapshot
<1>4. CASE RtHold
  <2>1. HoldsCopied'
    BY <1>4 DEF RtHold, DoorSuspend, DoorState, HeldSuspend, HeldState, StartsHold
  <2>2. CancelOfJog'
    BY <1>4 DEF RtHold, DoorSuspend, DoorState, HeldSuspend, HeldState, StartsHold
  <2>3. StartCopied'
    BY <1>4 DEF RtHold, DoorSuspend, DoorState, HeldSuspend, HeldState, StartsHold
  <2>4. SleepAtRest'
    BY <1>4 DEF RtHold, DoorSuspend, DoorState, HeldSuspend, HeldState, StartsHold
  <2>5. SuspendStates'
    BY <1>4 DEF RtHold, DoorSuspend, DoorState, HeldSuspend, HeldState, StartsHold
  <2>6. InEffect'
    BY ZenonT(30), <1>4, HoldInEffect
  <2>7. StartInPass'
    BY ZenonT(30), <1>4 DEF RtHold, DoorSuspend, DoorState, HeldSuspend, HeldState, StartsHold
  <2>8. StartWaits'
    BY ZenonT(30), <1>4 DEF RtHold, DoorSuspend, DoorState, HeldSuspend, HeldState, StartsHold
  <2>9. DoorRests'
    BY ZenonT(30), <1>4 DEF RtHold, DoorSuspend, DoorState, HeldSuspend, HeldState, StartsHold
  <2>10. OwedStart'
    BY <1>4 DEF RtHold, DoorSuspend, DoorState, HeldSuspend, HeldState, StartsHold
  <2>11. StopAlone'
    BY <1>4 DEF RtHold, DoorSuspend, DoorState, HeldSuspend, HeldState, StartsHold
  <2>12. SyncedNotJog'
    BY <1>4 DEF RtHold, DoorSuspend, DoorState, HeldSuspend, HeldState, StartsHold
  <2> QED
    BY <2>1, <2>2, <2>3, <2>4, <2>5, <2>6, <2>7, <2>8, <2>9, <2>10, <2>11, <2>12 DEF Holds
<1>5. CASE RtNoStart
  BY <1>5 DEF RtNoStart, StartFrame, HoldRequested
<1>6. CASE RtStart
  <2>1. HoldsCopied'
    BY <1>6 DEF RtStart, StartFrame, HoldRequested, MayStart, ResumeState, ResumeSuspend, DoorClosed, Respins
  <2>2. CancelOfJog'
    BY <1>6 DEF RtStart, StartFrame, HoldRequested, MayStart, ResumeState, ResumeSuspend, DoorClosed, Respins
  <2>3. StartCopied'
    BY <1>6 DEF RtStart, StartFrame, HoldRequested, MayStart, ResumeState, ResumeSuspend, DoorClosed, Respins
  <2>4. SleepAtRest'
    BY <1>6 DEF RtStart, StartFrame, HoldRequested, MayStart, ResumeState, ResumeSuspend, DoorClosed, Respins
  <2>5. SuspendStates'
    BY <1>6 DEF RtStart, StartFrame, HoldRequested, MayStart, ResumeState, ResumeSuspend, DoorClosed, Respins
  <2>6. InEffect'
    BY ZenonT(30), <1>6 DEF RtStart, StartFrame, HoldRequested, MayStart, ResumeState, ResumeSuspend, DoorClosed, Respins
  <2>7. StartInPass'
    BY ZenonT(30), <1>6 DEF RtStart, StartFrame, HoldRequested, MayStart, ResumeState, ResumeSuspend, DoorClosed, Respins
  <2>8. StartWaits'
    BY ZenonT(30), <1>6 DEF RtStart, StartFrame, HoldRequested, MayStart, ResumeState, ResumeSuspend, DoorClosed, Respins
  <2>9. DoorRests'
    BY <1>6, StartDoorRests
  <2>10. OwedStart'
    BY <1>6, StartOwed
  <2>11. StopAlone'
    BY <1>6 DEF RtStart, StartFrame, HoldRequested, MayStart, ResumeState, ResumeSuspend, DoorClosed, Respins
  <2>12. SyncedNotJog'
    BY <1>6 DEF RtStart, StartFrame, HoldRequested, MayStart, ResumeState, ResumeSuspend, DoorClosed, Respins
  <2> QED
    BY <2>1, <2>2, <2>3, <2>4, <2>5, <2>6, <2>7, <2>8, <2>9, <2>10, <2>11, <2>12 DEF Holds
<1>7. CASE RtWake
  <2>1. HoldsCopied'
    BY <1>7 DEF RtWake
  <2>2. CancelOfJog'
    BY <1>7 DEF RtWake
  <2>3. StartCopied'
    BY <1>7 DEF RtWake
  <2>4. SleepAtRest'
    BY <1>7 DEF RtWake
  <2>5. SuspendStates'
    BY <1>7 DEF RtWake
  <2>6. InEffect'
    BY <1>7 DEF RtWake
  <2>7. StartInPass'
    BY <1>7 DEF RtWake
  <2>8. StartWaits'
    BY <1>7 DEF RtWake
  <2>9. DoorRests'
    BY <1>7 DEF RtWake
  <2>10. OwedStart'
    BY <1>7 DEF RtWake
  <2>11. StopAlone'
    BY <1>7 DEF RtWake
  <2>12. SyncedNotJog'
    BY <1>7 DEF RtWake
  <2> QED
    BY <2>1, <2>2, <2>3, <2>4, <2>5, <2>6, <2>7, <2>8, <2>9, <2>10, <2>11, <2>12 DEF Holds
<1>8. CASE RtStop
  <2>1. HoldsCopied'
    BY <1>8 DEF RtStop, HoldEnds, MotionEnds, StopHolds
  <2>2. CancelOfJog'
    BY <1>8 DEF RtStop, HoldEnds, MotionEnds, StopHolds
  <2>3. StartCopied'
    BY <1>8 DEF RtStop, HoldEnds, MotionEnds, StopHolds
  <2>4. SleepAtRest'
    BY <1>8 DEF RtStop, HoldEnds, MotionEnds, StopHolds
  <2>5. SuspendStates'
    BY <1>8 DEF RtStop, HoldEnds, MotionEnds, StopHolds
  <2>6. InEffect'
    BY <1>8, StopInEffect
  <2>7. StartInPass'
    BY <1>8 DEF RtStop, HoldEnds, MotionEnds, StopHolds
  <2>8. StartWaits'
    BY <1>8 DEF RtStop, HoldEnds, MotionEnds, StopHolds
  <2>9. DoorRests'
    BY <1>8, StopDoorRests
  <2>10. OwedStart'
    BY <1>8 DEF RtStop, HoldEnds, MotionEnds, StopHolds
  <2>11. StopAlone'
    BY <1>8 DEF RtStop, HoldEnds, MotionEnds, StopHolds
  <2>12. SyncedNotJog'
    BY <1>8 DEF RtStop, HoldEnds, MotionEnds, StopHolds
  <2> QED
    BY <2>1, <2>2, <2>3, <2>4, <2>5, <2>6, <2>7, <2>8, <2>9, <2>10, <2>11, <2>12 DEF Holds
<1>9. CASE RtPrep
  BY <1>9 DEF RtPrep, TakenUp
<1> QED
  BY <1>1, <1>2, <1>3, <1>4, <1>5, <1>6, <1>7, <1>8, <1>9 DEF ExecRt

\* The loops around the pass.
LEMMA SuspendHolds ==
  ASSUME TypeOK, Parts, Holds, pin = {}, Suspend
  PROVE  Holds'
<1> USE DEF askVars, SuspendFrame, Suspended, Holding, Parked
<1> USE DEF Holds, HoldsCopied, CancelOfJog, StartCopied, SleepAtRest, SuspendStates, InEffect, StartInPass, StartWaits,
     DoorRests, OwedStart, StopAlone, SyncedNotJog, Asked, Quiet, StartPending, Waiting, Overtaken, StopPending,
     Doomed, Flags, HoldFlags
<1> USE DEF Parts, StoppedWhenSaid, NoProbe, ProbeJobs, AbortsReset, PinStale, AlarmResets, AlarmStops,
     StopMeansOff, Standing, StopSeen, StopEmpty, StopCopied, AtWake, AtJog, DoorHeld
<1>1. CASE SuspendWait
  BY <1>1 DEF SuspendWait
<1>2. CASE SpindleStop
  BY <1>2 DEF SpindleStop
<1>3. CASE SpindleRestore
  BY <1>3 DEF SpindleRestore
<1>4. CASE SpindleStopped
  BY <1>4 DEF SpindleStopped
<1>5. CASE SuspendRetract
  BY <1>5 DEF SuspendRetract
<1>6. CASE SuspendSleep
  BY <1>6 DEF SuspendSleep
<1>7. CASE SuspendDoor
  BY <1>7 DEF SuspendDoor
<1>8. CASE SleepAgain
  <2>1. HoldsCopied'
    BY <1>8 DEF SleepAgain
  <2>2. CancelOfJog'
    BY <1>8 DEF SleepAgain
  <2>3. StartCopied'
    BY <1>8 DEF SleepAgain
  <2>4. SleepAtRest'
    BY <1>8 DEF SleepAgain
  <2>5. SuspendStates'
    BY <1>8 DEF SleepAgain
  <2>6. InEffect'
    BY <1>8 DEF SleepAgain
  <2>7. StartInPass'
    BY <1>8 DEF SleepAgain
  <2>8. StartWaits'
    BY <1>8 DEF SleepAgain
  <2>9. DoorRests'
    BY <1>8 DEF SleepAgain
  <2>10. OwedStart'
    BY <1>8 DEF SleepAgain
  <2>11. StopAlone'
    BY <1>8 DEF SleepAgain
  <2>12. SyncedNotJog'
    BY <1>8 DEF SleepAgain
  <2> QED
    BY <2>1, <2>2, <2>3, <2>4, <2>5, <2>6, <2>7, <2>8, <2>9, <2>10, <2>11, <2>12 DEF Holds
<1>9. CASE RestoreAgain
  BY <1>9 DEF RestoreAgain
<1>10. CASE RestoreDone
  <2>1. HoldsCopied'
    BY <1>10 DEF RestoreDone
  <2>2. CancelOfJog'
    BY <1>10 DEF RestoreDone
  <2>3. StartCopied'
    BY <1>10 DEF RestoreDone
  <2>4. SleepAtRest'
    BY <1>10 DEF RestoreDone
  <2>5. SuspendStates'
    BY <1>10 DEF RestoreDone
  <2>6. InEffect'
    BY <1>10 DEF RestoreDone
  <2>7. StartInPass'
    BY <1>10 DEF RestoreDone
  <2>8. StartWaits'
    BY <1>10 DEF RestoreDone
  <2>9. DoorRests'
    BY <1>10 DEF RestoreDone
  <2>10. OwedStart'
    BY <1>10 DEF RestoreDone
  <2>11. StopAlone'
    BY <1>10 DEF RestoreDone
  <2>12. SyncedNotJog'
    BY <1>10 DEF RestoreDone
  <2> QED
    BY <2>1, <2>2, <2>3, <2>4, <2>5, <2>6, <2>7, <2>8, <2>9, <2>10, <2>11, <2>12 DEF Holds
<1> QED
  BY <1>1, <1>2, <1>3, <1>4, <1>5, <1>6, <1>7, <1>8, <1>9, <1>10 DEF Suspend

\* The commands.
LEMMA ExecuteHolds ==
  ASSUME TypeOK, Parts, Holds, pin = {}, Execute
  PROVE  Holds'
<1> USE DEF sysVars, spindleVars, stopVars, askVars, Pass, ToMain, Back, Untouched, JobFrame
<1> USE DEF Holds, HoldsCopied, CancelOfJog, StartCopied, SleepAtRest, SuspendStates, InEffect, StartInPass, StartWaits,
     DoorRests, OwedStart, StopAlone, SyncedNotJog, Asked, Quiet, StartPending, Waiting, Overtaken, StopPending,
     Doomed, Flags, HoldFlags
<1> USE DEF Parts, StoppedWhenSaid, NoProbe, ProbeJobs, AbortsReset, PinStale, AlarmResets, AlarmStops,
     StopMeansOff, Standing, StopSeen, StopEmpty, StopCopied, AtWake, AtJog, DoorHeld
<1>1. CASE MainLoop
  <2>1. HoldsCopied'
    BY <1>1 DEF MainLoop, AutoCycleStart
  <2>2. CancelOfJog'
    BY <1>1 DEF MainLoop, AutoCycleStart
  <2>3. StartCopied'
    BY <1>1 DEF MainLoop, AutoCycleStart
  <2>4. SleepAtRest'
    BY <1>1 DEF MainLoop, AutoCycleStart
  <2>5. SuspendStates'
    BY <1>1 DEF MainLoop, AutoCycleStart
  <2>6. InEffect'
    BY <1>1 DEF MainLoop, AutoCycleStart
  <2>7. StartInPass'
    BY <1>1 DEF MainLoop, AutoCycleStart
  <2>8. StartWaits'
    BY <1>1 DEF MainLoop, AutoCycleStart
  <2>9. DoorRests'
    BY <1>1 DEF MainLoop, AutoCycleStart
  <2>10. OwedStart'
    BY <1>1 DEF MainLoop, AutoCycleStart
  <2>11. StopAlone'
    BY <1>1 DEF MainLoop, AutoCycleStart
  <2>12. SyncedNotJog'
    BY <1>1 DEF MainLoop, AutoCycleStart
  <2> QED
    BY <2>1, <2>2, <2>3, <2>4, <2>5, <2>6, <2>7, <2>8, <2>9, <2>10, <2>11, <2>12 DEF Holds
<1>2. CASE MainLoopAgain \/ Reject \/ SyncDone
  BY <1>2 DEF MainLoopAgain, Reject, SyncDone
<1>3. CASE Sleep
  BY <1>3 DEF Sleep, Accepts
<1>4. CASE Unlock
  BY <1>4 DEF Unlock, Accepts
<1>5. CASE SoftLimitReset /\ pc = "ret" /\ ~abort /\ suspend = {}
  BY <1>5 DEF SoftLimitReset, SoftLimitFrame, Kills
<1>6. CASE SoftLimitHold /\ pc = "ret" /\ ~abort /\ suspend = {}
  BY <1>6 DEF SoftLimitHold
<1>7. CASE SoftHolding
  BY <1>5, <1>7 DEF SoftHolding
<1>8. CASE Line
  <2>1. CASE Pass("mc_line") /\ Untouched /\ JobFrame
    BY <1>8, <2>1 DEF Line
  <2> QED
    BY <1>5, <1>6, <1>8, <2>1 DEF Line, EnterMcLine
<1>9. CASE Jog
  BY <1>9 DEF Jog
<1>10. CASE McLineFull
  BY <1>10 DEF McLineFull, AutoCycleStart
<1>11. CASE McLine
  BY <1>11 DEF McLine
<1>12. CASE McJog
  BY <1>12 DEF McJog
<1>13. CASE JogPrep
  BY <1>13 DEF JogPrep
<1>14. CASE JogWake
  BY <1>14 DEF JogWake
<1>15. CASE Sync
  BY <1>15 DEF Sync, Accepts, AutoCycleStart
<1>16. CASE SyncAgain
  BY <1>16 DEF SyncAgain
<1>17. CASE ProbeFailInitial \/ ProbeFailed \/ Probe \/ McProbe \/ ProbeWait \/ ProbeEnd \/ ProbeFlush
  BY <1>17 DEF ProbeFailInitial, ProbeFailed, Probe, McProbe, ProbeWait, ProbeEnd, ProbeFlush
<1>18. CASE Abort
  BY <1>18 DEF Abort
<1>19. CASE Restart
  BY <1>19 DEF Restart
<1> QED
  BY <1>1, <1>2, <1>3, <1>4, <1>5, <1>6, <1>7, <1>8, <1>9, <1>10, <1>11, <1>12, <1>13, <1>14, <1>15, <1>16, <1>17, <1>18, <1>19 DEF Execute

LEMMA ReceiveHolds ==
  ASSUME Parts, Holds, Receive
  PROVE  Holds'
<1> USE DEF Holds, HoldsCopied, CancelOfJog, StartCopied, SleepAtRest, SuspendStates, InEffect, StartInPass, StartWaits,
     DoorRests, OwedStart, StopAlone, SyncedNotJog, Asked, Quiet, StartPending, Waiting, Overtaken, StopPending,
     Doomed, Flags, HoldFlags
<1> USE DEF Parts, StoppedWhenSaid, NoProbe, ProbeJobs, AbortsReset, PinStale, AlarmResets, AlarmStops,
     StopMeansOff, Standing, StopSeen, StopEmpty, StopCopied, AtWake, AtJog, DoorHeld
<1>1. HoldsCopied'
  BY RealtimeAssumption DEF RealtimeAssumption, AllCommands, Receive, Pass, JobFrame, spindleVars, stopVars, askVars
<1>2. CancelOfJog'
  BY RealtimeAssumption DEF RealtimeAssumption, AllCommands, Receive, Pass, JobFrame, spindleVars, stopVars, askVars
<1>3. StartCopied'
  BY RealtimeAssumption DEF RealtimeAssumption, AllCommands, Receive, Pass, JobFrame, spindleVars, stopVars, askVars
<1>4. SleepAtRest'
  BY RealtimeAssumption DEF RealtimeAssumption, AllCommands, Receive, Pass, JobFrame, spindleVars, stopVars, askVars
<1>5. SuspendStates'
  BY RealtimeAssumption DEF RealtimeAssumption, AllCommands, Receive, Pass, JobFrame, spindleVars, stopVars, askVars
<1>6. InEffect'
  BY RealtimeAssumption DEF RealtimeAssumption, AllCommands, Receive, Pass, JobFrame, spindleVars, stopVars, askVars
<1>7. StartInPass'
  BY RealtimeAssumption DEF RealtimeAssumption, AllCommands, Receive, Pass, JobFrame, spindleVars, stopVars, askVars
<1>8. StartWaits'
  BY RealtimeAssumption DEF RealtimeAssumption, AllCommands, Receive, Pass, JobFrame, spindleVars, stopVars, askVars
<1>9. DoorRests'
  BY RealtimeAssumption DEF RealtimeAssumption, AllCommands, Receive, Pass, JobFrame, spindleVars, stopVars, askVars
<1>10. OwedStart'
  BY RealtimeAssumption DEF RealtimeAssumption, AllCommands, Receive, Pass, JobFrame, spindleVars, stopVars, askVars
<1>11. StopAlone'
  BY RealtimeAssumption DEF RealtimeAssumption, AllCommands, Receive, Pass, JobFrame, spindleVars, stopVars, askVars
<1>12. SyncedNotJog'
  BY RealtimeAssumption DEF RealtimeAssumption, AllCommands, Receive, Pass, JobFrame, spindleVars, stopVars, askVars
<1> QED
  BY <1>1, <1>2, <1>3, <1>4, <1>5, <1>6, <1>7, <1>8, <1>9, <1>10, <1>11, <1>12 DEF Holds

\* Interrupts.
LEMMA InterruptHolds ==
  ASSUME TypeOK, Parts, Holds, Interrupt
  PROVE  Holds'
<1> USE DEF mainVars, sysVars, stepVars, stopVars, spindleVars, askVars, InterruptFrame, Request, McReset, ClearsHolds
<1> USE DEF Holds, HoldsCopied, CancelOfJog, StartCopied, SleepAtRest, SuspendStates, InEffect, StartInPass, StartWaits,
     DoorRests, OwedStart, StopAlone, SyncedNotJog, Asked, Quiet, StartPending, Waiting, Overtaken, StopPending,
     Doomed, Flags, HoldFlags
<1> USE DEF Parts, StoppedWhenSaid, NoProbe, ProbeJobs, AbortsReset, PinStale, AlarmResets, AlarmStops,
     StopMeansOff, Standing, StopSeen, StopEmpty, StopCopied, AtWake, AtJog, DoorHeld
<1>1. CASE Tim2Segment
  BY <1>1 DEF Tim2Segment
<1>2. CASE Tim2Empty
  BY <1>2 DEF Tim2Empty
<1>3. CASE OperatorHold
  <2>1. HoldsCopied'
    BY <1>3 DEF OperatorHold
  <2>2. CancelOfJog'
    BY <1>3 DEF OperatorHold
  <2>3. StartCopied'
    BY <1>3 DEF OperatorHold
  <2>4. SleepAtRest'
    BY <1>3 DEF OperatorHold
  <2>5. SuspendStates'
    BY <1>3 DEF OperatorHold
  <2>6. InEffect'
    BY <1>3 DEF OperatorHold
  <2>7. StartInPass'
    BY <1>3 DEF OperatorHold
  <2>8. StartWaits'
    BY <1>3 DEF OperatorHold
  <2>9. DoorRests'
    BY <1>3 DEF OperatorHold
  <2>10. OwedStart'
    BY <1>3 DEF OperatorHold
  <2>11. StopAlone'
    BY <1>3 DEF OperatorHold
  <2>12. SyncedNotJog'
    BY <1>3 DEF OperatorHold
  <2> QED
    BY <2>1, <2>2, <2>3, <2>4, <2>5, <2>6, <2>7, <2>8, <2>9, <2>10, <2>11, <2>12 DEF Holds
<1>4. CASE OperatorStart
  BY <1>4 DEF OperatorStart
<1>5. CASE OperatorJogCancel
  BY <1>5 DEF OperatorJogCancel
<1>6. CASE OperatorSpindleStop
  BY <1>6 DEF OperatorSpindleStop
<1>7. CASE OperatorReset
  BY <1>7 DEF OperatorReset
<1>8. CASE LimitSwitch
  BY <1>8 DEF LimitSwitch
<1>9. CASE PinRead
  <2>1. HoldsCopied'
    BY <1>9 DEF PinRead
  <2>2. CancelOfJog'
    BY <1>9 DEF PinRead
  <2>3. StartCopied'
    BY <1>9 DEF PinRead
  <2>4. SleepAtRest'
    BY <1>9 DEF PinRead
  <2>5. SuspendStates'
    BY <1>9 DEF PinRead
  <2>6. InEffect'
    BY <1>9 DEF PinRead
  <2>7. StartInPass'
    BY <1>9 DEF PinRead
  <2>8. StartWaits'
    BY <1>9 DEF PinRead
  <2>9. DoorRests'
    BY <1>9 DEF PinRead
  <2>10. OwedStart'
    BY <1>9 DEF PinRead
  <2>11. StopAlone'
    BY <1>9 DEF PinRead
  <2>12. SyncedNotJog'
    BY <1>9 DEF PinRead
  <2> QED
    BY <2>1, <2>2, <2>3, <2>4, <2>5, <2>6, <2>7, <2>8, <2>9, <2>10, <2>11, <2>12 DEF Holds
<1>10. CASE PinStore
  <2>1. HoldsCopied'
    BY <1>10 DEF PinStore
  <2>2. CancelOfJog'
    BY <1>10 DEF PinStore
  <2>3. StartCopied'
    BY <1>10 DEF PinStore
  <2>4. SleepAtRest'
    BY <1>10 DEF PinStore
  <2>5. SuspendStates'
    BY <1>10 DEF PinStore
  <2>6. InEffect'
    BY <1>10 DEF PinStore
  <2>7. StartInPass'
    BY <1>10 DEF PinStore
  <2>8. StartWaits'
    BY <1>10 DEF PinStore
  <2>9. DoorRests'
    BY <1>10 DEF PinStore
  <2>10. OwedStart'
    BY <1>10 DEF PinStore
  <2>11. StopAlone'
    BY <1>10 DEF PinStore
  <2>12. SyncedNotJog'
    BY <1>10 DEF PinStore
  <2> QED
    BY <2>1, <2>2, <2>3, <2>4, <2>5, <2>6, <2>7, <2>8, <2>9, <2>10, <2>11, <2>12 DEF Holds
<1> QED
  BY <1>1, <1>2, <1>3, <1>4, <1>5, <1>6, <1>7, <1>8, <1>9, <1>10 DEF Interrupt

LEMMA StutterHolds == Holds /\ UNCHANGED vars => Holds'
<1> SUFFICES ASSUME Holds, UNCHANGED vars PROVE Holds'
  OBVIOUS
<1> QED
  BY DEF vars, spindleVars, stopVars,
     Holds, HoldsCopied, CancelOfJog, StartCopied, SleepAtRest, SuspendStates, InEffect, StartInPass, StartWaits,
     DoorRests, OwedStart, StopAlone, SyncedNotJog, Asked, Quiet, StartPending, Waiting, Overtaken, StopPending,
     Doomed

LEMMA HoldsInvariance == "probe" \notin Commands => (Spec => [](IInv /\ Holds))
<1> SUFFICES ASSUME "probe" \notin Commands PROVE Spec => [](IInv /\ Holds)
  OBVIOUS
<1>1. Init => Holds
  BY InitHolds
<1>2. IInv /\ Holds /\ [Next]_vars => Holds'
  <2> SUFFICES ASSUME TypeOK, Parts, Holds, [Next]_vars PROVE Holds'
    BY DEF IInv
  <2>1. CASE Main
    BY <2>1, ExecRtHolds, SuspendHolds, ExecuteHolds DEF Main
  <2>2. CASE Receive
    BY <2>2, ReceiveHolds
  <2>3. CASE Interrupt
    BY <2>3, InterruptHolds
  <2> QED
    BY <2>1, <2>2, <2>3, StutterHolds DEF Next
<1>3. Spec => []IInv
  BY Invariance
<1> QED
  BY <1>1, <1>2, <1>3, PTL DEF Spec

\* Only RtStart starts or gives up a motion at pc = "start".
LEMMA ResumesStarts == Next /\ Resumes => pin = {} /\ RtStart /\ MayStart
<1> SUFFICES ASSUME Next, Resumes PROVE pin = {} /\ RtStart /\ MayStart
  OBVIOUS
<1>1. pc = "start"
  BY DEF Resumes
<1>2. ~Suspend
  BY <1>1 DEF Suspend, SuspendWait, SpindleStop, SpindleRestore, SpindleStopped, SuspendRetract, SuspendSleep,
        SuspendDoor, SleepAgain, RestoreAgain, RestoreDone, Holding, Parked, Suspended
<1>3. ~Execute
  <2>1. \A j : ~Back(j)
    BY <1>1 DEF Back
  <2> QED
    BY <1>1, <2>1 DEF Execute, MainLoop, MainLoopAgain, Reject, Sleep, Unlock, SoftHolding, Line, Jog, McLineFull,
        McLine, McJog, JogPrep, JogWake, Sync, SyncAgain, SyncDone, ProbeFailInitial, ProbeFailed, Probe, McProbe,
        ProbeWait, ProbeEnd, ProbeFlush, Abort, Restart
<1>4. ~Receive
  BY <1>1 DEF Receive
<1>5. ~Interrupt
  <2>1. Interrupt => pc' = pc /\ state' = state
    BY DEF Interrupt, InterruptFrame, mainVars, sysVars, Tim2Segment, Tim2Empty, OperatorHold, OperatorStart,
        OperatorJogCancel, OperatorSpindleStop, OperatorReset, LimitSwitch, PinRead, PinStore
  <2> QED
    BY <1>1, <2>1 DEF Resumes
<1>6. pin = {} /\ ExecRt
  BY <1>2, <1>3, <1>4, <1>5 DEF Next, Main
<1>7. RtNoStart \/ RtStart
  BY <1>1, <1>6 DEF ExecRt, RtAlarm, RtHalted, RtSnapshot, RtHold, RtWake, RtStop, RtPrep
<1>8. RtStart
  BY <1>7 DEF RtNoStart, Resumes
<1>9. MayStart
  BY <1>8 DEF RtStart, Resumes, MayStart
<1> QED
  BY <1>6, <1>8, <1>9

\* A quiet hold does not let it.
LEMMA QuietStays == IInv /\ Holds /\ [Next]_vars => (Resumes => ~Unasked \/ Overtaken)
<1> SUFFICES ASSUME Parts, Holds, [Next]_vars, Resumes, Unasked PROVE Overtaken
  BY DEF IInv
<1>1. Next
  BY DEF Resumes, vars
<1>2. pin = {} /\ RtStart /\ MayStart /\ pc = "start"
  BY <1>1, ResumesStarts DEF RtStart
<1>3. Quiet
  BY <1>2 DEF Unasked, Quiet, Asked, HoldFlags
<1>4. Overtaken \/ Waiting \/ state = "SLEEP"
  BY <1>2, <1>3, StartOvertakes
<1>5. state = "IDLE" \/ DoorClosed \/ (state = "HOLD" /\ "HOLD_COMPLETE" \in suspend)
  BY <1>2 DEF MayStart, ResumeState
<1>6. CASE state = "IDLE"
  <2>1. "SAFETY_DOOR_AJAR" \notin suspend
    BY <1>6 DEF Holds, SuspendStates
  <2>2. Overtaken \/ "HOLD_COMPLETE" \in suspend
    BY <1>2, <1>3, <1>6 DEF Holds, InEffect
  <2> QED
    BY <1>4, <1>6, <2>1, <2>2 DEF Waiting
<1>7. CASE DoorClosed
  BY <1>2, <1>4, <1>7 DEF DoorClosed, Waiting, Parts, DoorHeld
<1>8. CASE state = "HOLD" /\ "HOLD_COMPLETE" \in suspend
  BY <1>4, <1>8 DEF Waiting, Holds, SuspendStates
<1> QED
  BY <1>5, <1>6, <1>7, <1>8

\* No hold is resumed, or given up, behind the operator's back, for any number of requests: the
\* auto-cycle-start of the main loop, of a full planner and of a synchronization cannot, nor can
\* the restore of the spindle or of the door, except where a cycle was started within a restore.
THEOREM NeverResumed == "probe" \notin Commands => (Spec => NoAutoResume)
<1> SUFFICES ASSUME "probe" \notin Commands PROVE Spec => NoAutoResume
  OBVIOUS
<1>1. Spec => [](IInv /\ Holds)
  BY HoldsInvariance
<1> QED
  BY <1>1, QuietStays, PTL DEF Spec, NoAutoResume

\* protocol_buffer_synchronize() returns with the machine at rest or in a feed hold.
LEMMA SyncRests == IInv /\ Holds => (SyncDone => ~tim2 \/ state = "HOLD")
<1> SUFFICES ASSUME TypeOK, Parts, Holds, SyncDone PROVE ~tim2 \/ state = "HOLD"
  BY DEF IInv
<1>1. pc = "ret" /\ ~abort /\ suspend = {} /\ job = "synced" /\ state # "CYCLE"
  BY DEF SyncDone, Back, Busy
<1>2. state \notin {"JOG", "SLEEP", "SAFETY_DOOR"}
  BY <1>1 DEF Holds, SyncedNotJog, SleepAtRest, Parts, DoorHeld
<1>3. state \in {"IDLE", "ALARM"} => ~tim2
  BY <1>1 DEF Parts, StoppedWhenSaid, AlarmStops, Doomed
<1> QED
  BY <1>1, <1>2, <1>3 DEF TypeOK, States

\* The same, as an action property of every behaviour: a caller of the synchronization, which
\* then changes the coordinate system, the spindle or a setting, does not do so under motion.
THEOREM Synchronized == "probe" \notin Commands => (Spec => SyncStops)
<1> SUFFICES ASSUME "probe" \notin Commands PROVE Spec => SyncStops
  OBVIOUS
<1>1. Spec => [](IInv /\ Holds)
  BY HoldsInvariance
<1> QED
  BY <1>1, SyncRests, PTL DEF SyncStops

-----------------------------------------------------------------------------
(* A jog cancel ends with nothing queued *)

\* What a step does to SUSPEND_JOG_CANCEL: only the end of the motion, or the restart after a
\* reset, takes it back.  It belongs to the state JOG, so a start finds nothing to resume, and
\* a hold does not begin anew.
LEMMA CancelKept == IInv /\ Holds /\ [Next]_vars =>
  ("JOG_CANCEL" \in suspend /\ "JOG_CANCEL" \notin suspend' /\ pc' # "reset" => blocks' = 0 /\ segs' = 0 /\ ~tim2')
<1> SUFFICES ASSUME Holds, Next, "JOG_CANCEL" \in suspend, "JOG_CANCEL" \notin suspend', pc' # "reset"
             PROVE  blocks' = 0 /\ segs' = 0 /\ ~tim2'
  BY DEF vars
<1> USE DEF sysVars, stopVars, spindleVars, askVars
<1>1. state \in {"JOG", "ALARM"}
  BY DEF Holds, SuspendStates
<1>2. ~Suspend
  BY DEF Suspend, SuspendWait, SpindleStop, SpindleRestore, SpindleStopped, SuspendRetract, SuspendSleep,
        SuspendDoor, SleepAgain, RestoreAgain, RestoreDone, SuspendFrame
<1>3. ~Execute
  <2>1. EnterMcLine("mc_line") \/ EnterMcLine("mc_probe") => suspend' = suspend
    BY DEF EnterMcLine, Untouched, JobFrame, SoftLimitHold, SoftLimitReset, SoftLimitFrame
  <2>2. SoftHolding => suspend' = suspend
    BY DEF SoftHolding, SoftLimitReset, SoftLimitFrame, JobFrame
  <2> QED
    BY <2>1, <2>2 DEF Execute, MainLoop, MainLoopAgain, Reject, Sleep, Unlock, Line, Jog, McLineFull,
        McLine, McJog, JogPrep, JogWake, Sync, SyncAgain, SyncDone, ProbeFailInitial, ProbeFailed, Probe, McProbe,
        ProbeWait, ProbeEnd, ProbeFlush, Abort, Restart, JobFrame
<1>4. ~Receive /\ ~Interrupt
  BY DEF Receive, JobFrame, Interrupt, InterruptFrame, Tim2Segment, Tim2Empty, OperatorHold, OperatorStart,
        OperatorJogCancel, OperatorSpindleStop, OperatorReset, LimitSwitch, PinRead, PinStore
<1>5. ExecRt
  BY <1>2, <1>3, <1>4 DEF Next, Main
<1>6. ~RtHold
  BY <1>1 DEF RtHold, DoorSuspend, HeldSuspend
<1>7. ~RtStart
  BY <1>1 DEF RtStart, MayStart, ResumeState, ResumeSuspend, DoorClosed
<1>8. RtStop
  BY <1>5, <1>6, <1>7 DEF ExecRt, RtAlarm, RtHalted, RtSnapshot, RtNoStart, RtWake, RtPrep
<1> QED
  BY <1>8 DEF RtStop, HoldEnds, MotionEnds

\* A jog that was cancelled leaves nothing in the planner and in the ring that a later cycle
\* start would execute, whatever hold, door or reset meets the cancel.
THEOREM CancelFlushes == "probe" \notin Commands => (Spec => JogCancelFlushes)
<1> SUFFICES ASSUME "probe" \notin Commands PROVE Spec => JogCancelFlushes
  OBVIOUS
<1>1. Spec => [](IInv /\ Holds)
  BY HoldsInvariance
<1> QED
  BY <1>1, CancelKept, PTL DEF Spec, JogCancelFlushes

-----------------------------------------------------------------------------
(* A spindle stop ends with the spindle on *)

\* A reset is under way; what it finds no longer matters.
Resetting == "RESET" \in flags \/ pc \in {"halt", "reset"}

StopAlike == ~({"INITIATE", "ENABLED"} \subseteq spindle_stop)
ResetClears == pc = "reset" => spindle_stop = {} /\ ~soft_limit
SoftHeld == soft_limit => (job = "soft_hold" /\ pc # "main") \/ Resetting
PrepNotCancelled == pc = "prep" /\ "MOTION_CANCEL" \in flags => state # "HOLD"

\* Where a spindle stop can be: in a feed hold, in a door that is about to retract, or left over
\* from the hold of a soft limit, whose reset is still to come, and then not yet in force.
StopPlace ==
  \/ state = "HOLD"
  \/ state = "SAFETY_DOOR" /\ "SAFETY_DOOR_AJAR" \in suspend /\ "RETRACT_COMPLETE" \notin suspend
  \/ /\ state \in {"IDLE", "CYCLE"} /\ "HOLD_COMPLETE" \notin suspend
     /\ job = "soft_hold" /\ pc # "main" /\ "ENABLED" \notin spindle_stop
StopPlaced ==
  spindle_stop # {} => Resetting \/ (StopPlace /\ "MOTION_CANCEL" \notin flags /\ "SLEEP" \notin flags)

\* In force it is only while the hold is complete, and no cycle stop can end that hold.
StopStands == "ENABLED" \in spindle_stop => Resetting \/ ("HOLD_COMPLETE" \in suspend /\ ~StopPending)

Spins == StopAlike /\ ResetClears /\ SoftHeld /\ PrepNotCancelled /\ StopPlaced /\ StopStands

LEMMA InitSpins == Init => Spins
  BY DEF Init, Spins, StopAlike, ResetClears, SoftHeld, PrepNotCancelled, StopPlaced, StopStands

LEMMA StutterSpins == Spins /\ UNCHANGED vars => Spins'
<1> SUFFICES ASSUME Spins, UNCHANGED vars PROVE Spins'
  OBVIOUS
<1> QED
  BY DEF vars, spindleVars, stopVars, Spins, StopAlike, ResetClears, SoftHeld, PrepNotCancelled, StopPlaced, StopPlace,
     StopStands, Resetting, StopPending

\* The pass that takes a hold finds no cancel and no sleep to take with it.
LEMMA HoldSpins ==
  ASSUME Holds, Spins, pin = {}, RtHold
  PROVE  Spins'
<1> USE DEF RtHold, spindleVars, stopVars, askVars
<1>1. StopAlike' /\ ResetClears' /\ SoftHeld' /\ PrepNotCancelled'
  BY DEF Spins, StopAlike, ResetClears, SoftHeld, PrepNotCancelled, Resetting, HoldFlags
<1>2. Resetting => Resetting'
  BY DEF Resetting, HoldFlags
<1>3. CASE spindle_stop = {} \/ Resetting
  BY <1>1, <1>2, <1>3 DEF Spins, StopPlaced, StopStands
<1>4. CASE spindle_stop # {} /\ ~Resetting /\ rt_exec \cap HoldFlags = {}
  BY <1>1, <1>2, <1>4 DEF Spins, StopPlaced, StopPlace, StopStands, StopPending
<1>5. CASE spindle_stop # {} /\ ~Resetting /\ rt_exec \cap HoldFlags # {}
  <2>1. "MOTION_CANCEL" \notin rt_exec /\ "SLEEP" \notin rt_exec /\ StopPlace
    BY <1>5 DEF Holds, HoldsCopied, HoldFlags, Spins, StopPlaced
  <2>2. state \in {"HOLD", "SAFETY_DOOR", "IDLE", "CYCLE"} /\ (state # "SAFETY_DOOR" => "RETRACT_COMPLETE" \notin suspend)
    BY <2>1 DEF StopPlace, Holds, SuspendStates
  <2>3. "FEED_HOLD" \in rt_exec \/ "SAFETY_DOOR" \in rt_exec
    BY <1>5, <2>1 DEF HoldFlags
  <2>4. state' = DoorState /\ suspend' = DoorSuspend
    BY <1>5, <2>1, <2>2
  <2>5. "JOG_CANCEL" \notin HeldSuspend
    BY <2>2 DEF HeldSuspend, StartsHold, Holds, SuspendStates
  <2>6. StopPlace'
    <3>1. CASE "SAFETY_DOOR" \in rt_exec
      <4>1. state' = "SAFETY_DOOR" /\ "SAFETY_DOOR_AJAR" \in suspend'
        BY <2>2, <2>4, <2>5, <3>1 DEF DoorState, HeldState, DoorSuspend
      <4>2. "RETRACT_COMPLETE" \notin suspend
        BY <2>1, <2>2 DEF StopPlace
      <4>3. "RETRACT_COMPLETE" \notin suspend'
        BY <2>1, <2>2, <2>4, <4>2 DEF HeldSuspend, DoorSuspend
      <4> QED
        BY <4>1, <4>3 DEF StopPlace
    <3>2. CASE "SAFETY_DOOR" \notin rt_exec
      <4>1. "FEED_HOLD" \in rt_exec /\ suspend' = HeldSuspend /\ state' = HeldState
        BY <2>3, <2>4, <3>2 DEF DoorState, DoorSuspend
      <4>2. CASE state = "SAFETY_DOOR"
        BY <2>1, <4>1, <4>2 DEF StopPlace, HeldState, HeldSuspend
      <4>3. CASE state # "SAFETY_DOOR"
        BY <2>2, <4>1, <4>3 DEF StopPlace, HeldState
      <4> QED
        BY <4>2, <4>3
    <3> QED
      BY <3>1, <3>2
  <2>7. "MOTION_CANCEL" \notin flags' /\ "SLEEP" \notin flags' /\ ("CYCLE_STOP" \in flags' => "CYCLE_STOP" \in flags)
    BY <1>5 DEF HoldFlags
  <2>8. "HOLD_COMPLETE" \in suspend => "HOLD_COMPLETE" \in suspend'
    BY <2>2, <2>4 DEF DoorSuspend, HeldSuspend
  <2> QED
    BY <1>1, <1>5, <2>6, <2>7, <2>8 DEF Spins, StopPlaced, StopStands, StopPending
<1> QED
  BY <1>3, <1>4, <1>5

\* A start that finds a spindle stop has it restored first, or finds the door ajar.
LEMMA StartSpins ==
  ASSUME Holds, Spins, pin = {}, RtStart
  PROVE  Spins' /\ ("ENABLED" \in spindle_stop /\ pc' = "wake" => "RESET" \in flags)
<1> USE DEF RtStart, StartFrame, askVars
<1>1. StopAlike' /\ ResetClears' /\ SoftHeld' /\ PrepNotCancelled'
  BY DEF Spins, StopAlike, ResetClears, SoftHeld, PrepNotCancelled, Resetting
<1>2. Resetting => Resetting' /\ "RESET" \in flags
  BY DEF Resetting
<1>3. CASE spindle_stop = {}
  <2>1. spindle_stop' = {}
    BY <1>3 DEF Respins
  <2> QED
    BY <1>1, <1>3, <2>1 DEF Spins, StopPlaced, StopStands
<1>4. CASE Resetting
  BY <1>1, <1>2, <1>4 DEF Spins, StopPlaced, StopStands
<1>5. CASE spindle_stop # {} /\ ~Resetting
  <2>1. StopPlace /\ "MOTION_CANCEL" \notin flags' /\ "SLEEP" \notin flags'
        /\ ("CYCLE_STOP" \in flags' => "CYCLE_STOP" \in flags)
    BY <1>5 DEF Spins, StopPlaced
  <2>2. CASE state = "HOLD"
    BY <1>1, <1>5, <2>1, <2>2 DEF Respins, MayStart, ResumeState, ResumeSuspend, DoorClosed, Spins, StopPlaced,
       StopPlace, StopStands, StopPending
  <2>3. CASE state = "SAFETY_DOOR"
    BY <1>1, <1>5, <2>1, <2>3 DEF Respins, MayStart, ResumeState, ResumeSuspend, DoorClosed, Spins, StopPlaced,
       StopPlace, StopStands, StopPending
  <2>4. CASE state \in {"IDLE", "CYCLE"}
    BY <1>1, <1>5, <2>1, <2>4 DEF Respins, MayStart, ResumeState, ResumeSuspend, DoorClosed, Spins, StopPlaced,
       StopPlace, StopStands, StopPending
  <2> QED
    BY <2>1, <2>2, <2>3, <2>4 DEF StopPlace
<1> QED
  BY <1>3, <1>4, <1>5

\* The end of a motion does not meet a stop that is in force.
LEMMA EndSpins ==
  ASSUME Parts, Holds, Spins, pin = {}, RtStop
  PROVE  Spins'
<1> USE DEF RtStop, spindleVars, stopVars, askVars
<1>1. StopAlike' /\ ResetClears' /\ SoftHeld'
  BY DEF Spins, StopAlike, ResetClears, SoftHeld, Resetting
<1>2. PrepNotCancelled'
  BY DEF PrepNotCancelled, Holds, CancelOfJog, HoldEnds, MotionEnds, StopHolds
<1>3. Resetting => Resetting'
  BY DEF Resetting
<1>4. CASE spindle_stop = {} \/ Resetting
  BY <1>1, <1>2, <1>3, <1>4 DEF Spins, StopPlaced, StopStands
<1>5. CASE spindle_stop # {} /\ ~Resetting /\ "CYCLE_STOP" \notin rt_exec
  BY <1>1, <1>2, <1>5 DEF Spins, StopPlaced, StopPlace, StopStands, StopPending
<1>6. CASE spindle_stop # {} /\ ~Resetting /\ "CYCLE_STOP" \in rt_exec
  <2>1. "CYCLE_STOP" \in flags
    BY <1>6 DEF Parts, StopCopied
  <2>2. "ENABLED" \notin spindle_stop
    BY <1>6, <2>1 DEF Spins, StopStands, StopPending
  <2>3. StopPlace /\ "MOTION_CANCEL" \notin flags' /\ "SLEEP" \notin flags'
    BY <1>6 DEF Spins, StopPlaced
  <2>4. "JOG_CANCEL" \notin suspend /\ (state # "SAFETY_DOOR" => "SAFETY_DOOR_AJAR" \notin suspend)
    BY <2>3 DEF StopPlace, Holds, SuspendStates
  <2>5. StopPlace'
    <3>1. CASE StopHolds
      BY <1>6, <2>3, <3>1 DEF StopHolds, HoldEnds, StopPlace
    <3>2. CASE ~StopHolds /\ state = "SAFETY_DOOR"
      BY <1>6, <2>3, <3>2 DEF MotionEnds, StopPlace
    <3>3. CASE ~StopHolds /\ state # "SAFETY_DOOR"
      <4>1. state' = "IDLE" /\ suspend' = {} /\ job' = job /\ spindle_stop' = spindle_stop
        BY <1>6, <2>4, <3>3 DEF MotionEnds
      <4>2. job = "soft_hold" /\ pc' # "main"
        BY <1>6, <2>3, <2>4, <3>3 DEF StopHolds, StopPlace, Spins, SoftHeld
      <4> QED
        BY <2>2, <4>1, <4>2 DEF StopPlace
    <3> QED
      BY <3>1, <3>2, <3>3
  <2> QED
    BY <1>1, <1>2, <2>2, <2>3, <2>5 DEF Spins, StopPlaced, StopStands
<1> QED
  BY <1>4, <1>5, <1>6

LEMMA ExecRtSpins ==
  ASSUME TypeOK, Parts, Holds, Spins, pin = {}, ExecRt
  PROVE  Spins'
<1> USE DEF sysVars, stopVars, spindleVars, askVars
<1> USE DEF Spins, StopAlike, ResetClears, SoftHeld, PrepNotCancelled, StopPlaced, StopPlace, StopStands, Resetting,
     StopPending
<1>1. CASE RtAlarm
  BY <1>1 DEF RtAlarm, Parts, AlarmResets
<1>2. CASE RtHalted
  BY <1>2 DEF RtHalted
<1>3. CASE RtSnapshot
  BY <1>3 DEF RtSnapshot
<1>4. CASE RtHold
  BY <1>4, HoldSpins
<1>5. CASE RtNoStart
  BY <1>5 DEF RtNoStart, StartFrame
<1>6. CASE RtStart
  BY <1>6, StartSpins
<1>7. CASE RtWake
  BY <1>7 DEF RtWake
<1>8. CASE RtStop
  BY <1>8, EndSpins
<1>9. CASE RtPrep
  <2>1. StopAlike' /\ ResetClears' /\ SoftHeld' /\ PrepNotCancelled'
    BY <1>9 DEF RtPrep, TakenUp
  <2>2. CASE state = "HOLD"
    <3>1. "MOTION_CANCEL" \notin flags /\ ("SLEEP" \notin flags \/ Resetting)
      BY <1>9, <2>2 DEF RtPrep, Holds, SleepAtRest
    <3> QED
      BY <1>9, <2>1, <2>2, <3>1 DEF RtPrep, TakenUp
  <2>3. CASE state # "HOLD"
    BY <1>9, <2>1, <2>3 DEF RtPrep
  <2> QED
    BY <2>2, <2>3
<1> QED
  BY <1>1, <1>2, <1>3, <1>4, <1>5, <1>6, <1>7, <1>8, <1>9 DEF ExecRt

LEMMA SuspendSpins ==
  ASSUME Parts, Holds, Spins, pin = {}, Suspend
  PROVE  Spins'
<1> USE DEF askVars, SuspendFrame, Suspended, Holding, Parked
<1> USE DEF Spins, StopAlike, ResetClears, SoftHeld, PrepNotCancelled, StopPlaced, StopPlace, StopStands, Resetting,
     StopPending
<1>1. CASE SuspendWait \/ SpindleStopped \/ SleepAgain \/ RestoreAgain
  BY <1>1 DEF SuspendWait, SpindleStopped, SleepAgain, RestoreAgain
<1>2. CASE SpindleStop
  <2>1. ~StopPending
    BY <1>2 DEF SpindleStop, Holds, StopAlone, Doomed
  <2> QED
    BY <1>2, <2>1 DEF SpindleStop
<1>3. CASE SpindleRestore \/ SuspendRetract
  BY <1>3 DEF SpindleRestore, SuspendRetract
<1>4. CASE SuspendSleep
  BY <1>4 DEF SuspendSleep
<1>5. CASE SuspendDoor
  BY <1>5 DEF SuspendDoor
<1>6. CASE RestoreDone
  BY <1>6 DEF RestoreDone
<1> QED
  BY <1>1, <1>2, <1>3, <1>4, <1>5, <1>6 DEF Suspend

LEMMA ExecuteSpins ==
  ASSUME Parts, Holds, Spins, pin = {}, Execute
  PROVE  Spins'
<1> USE DEF sysVars, spindleVars, stopVars, askVars, Pass, ToMain, Back, Untouched, JobFrame
<1> USE DEF Spins, StopAlike, ResetClears, SoftHeld, PrepNotCancelled, StopPlaced, StopPlace, StopStands, Resetting,
     StopPending
<1> USE DEF Holds, SyncedNotJog, SleepAtRest, Doomed
<1>1. CASE MainLoop \/ MainLoopAgain \/ Reject \/ SyncDone
  BY <1>1, RealtimeAssumption DEF RealtimeAssumption, AllCommands, MainLoop, MainLoopAgain, AutoCycleStart, Reject, SyncDone
<1>2. CASE Sleep
  BY <1>2 DEF Sleep, Accepts
<1>3. CASE Unlock
  BY <1>3 DEF Unlock, Accepts
<1>4. CASE SoftLimitReset /\ pc = "ret"
  BY <1>4 DEF SoftLimitReset, SoftLimitFrame
<1>5. CASE SoftLimitHold /\ pc = "ret" /\ ~abort /\ job = "line"
  BY <1>5 DEF SoftLimitHold
<1>6. CASE SoftHolding
  BY <1>4, <1>6 DEF SoftHolding
<1>7. CASE Line
  <2>1. CASE Pass("mc_line") /\ Untouched /\ JobFrame
    BY <1>7, <2>1 DEF Line
  <2> QED
    BY <1>4, <1>5, <1>7, <2>1 DEF Line, EnterMcLine
<1>8. CASE Jog \/ McLineFull \/ McLine \/ McJog
  BY <1>8 DEF Jog, McLineFull, AutoCycleStart, McLine, McJog
<1>9. CASE JogPrep \/ JogWake
  BY <1>9 DEF JogPrep, JogWake, Parts, AtJog
<1>10. CASE Sync \/ SyncAgain
  BY <1>10 DEF Sync, Accepts, AutoCycleStart, SyncAgain
<1>11. CASE ProbeFailInitial \/ ProbeFailed \/ Probe \/ McProbe \/ ProbeWait \/ ProbeEnd \/ ProbeFlush
  BY <1>11 DEF ProbeFailInitial, ProbeFailed, Probe, McProbe, ProbeWait, ProbeEnd, ProbeFlush, Parts, NoProbe, ProbeJobs
<1>12. CASE Abort \/ Restart
  BY <1>12 DEF Abort, Restart
<1> QED
  BY <1>1, <1>2, <1>3, <1>6, <1>7, <1>8, <1>9, <1>10, <1>11, <1>12 DEF Execute

LEMMA OtherSpins ==
  ASSUME Parts, Holds, Spins, Receive \/ Interrupt
  PROVE  Spins'
<1> USE DEF Spins, StopAlike, ResetClears, SoftHeld, PrepNotCancelled, StopPlaced, StopPlace, StopStands, Resetting,
     StopPending
<1>1. CASE Receive
  BY <1>1, RealtimeAssumption DEF RealtimeAssumption, AllCommands, Receive, Pass, JobFrame, spindleVars, stopVars, askVars
<1> USE DEF mainVars, sysVars, stepVars, stopVars, spindleVars, askVars, InterruptFrame, Request, McReset, Parts, PinStale
<1>2. CASE Tim2Segment
  BY <1>2 DEF Tim2Segment, NoProbe
<1>3. CASE Tim2Empty
  BY <1>3 DEF Tim2Empty, StoppedWhenSaid
<1>4. CASE OperatorHold \/ OperatorStart \/ OperatorJogCancel \/ OperatorSpindleStop
  BY <1>4 DEF OperatorHold, OperatorStart, OperatorJogCancel, OperatorSpindleStop
<1>5. CASE OperatorReset \/ LimitSwitch
  BY <1>5 DEF OperatorReset, LimitSwitch
<1>6. CASE PinRead
  BY <1>6 DEF PinRead
<1>7. CASE PinStore
  BY <1>7 DEF PinStore
<1> QED
  BY <1>1, <1>2, <1>3, <1>4, <1>5, <1>6, <1>7 DEF Interrupt

LEMMA SpinsInvariance == "probe" \notin Commands => (Spec => [](IInv /\ Holds /\ Spins))
<1> SUFFICES ASSUME "probe" \notin Commands PROVE Spec => [](IInv /\ Holds /\ Spins)
  OBVIOUS
<1>1. Init => Spins
  BY InitSpins
<1>2. IInv /\ Holds /\ Spins /\ [Next]_vars => Spins'
  <2> SUFFICES ASSUME TypeOK, Parts, Holds, Spins, [Next]_vars PROVE Spins'
    BY DEF IInv
  <2>1. CASE Main
    BY <2>1, ExecRtSpins, SuspendSpins, ExecuteSpins DEF Main
  <2>2. CASE Receive \/ Interrupt
    BY <2>2, OtherSpins
  <2> QED
    BY <2>1, <2>2, StutterSpins DEF Next
<1>3. Spec => [](IInv /\ Holds)
  BY HoldsInvariance
<1> QED
  BY <1>1, <1>2, <1>3, PTL DEF Spec

\* What a step does to a stop in force: only the restore, a retract or the restart after a reset
\* ends it, and only a reset under way lets a motion start with it.
LEMMA StopKept == IInv /\ Holds /\ Spins /\ [Next]_vars =>
  ("ENABLED" \in spindle_stop /\ pc' # "reset" /\ (pc' = "wake" \/ "ENABLED" \notin spindle_stop')
     => \/ energized' \/ "RESET" \in flags
        \/ state \in {"SAFETY_DOOR", "SLEEP"} /\ pc' # "wake")
<1>1. Parts /\ Spins /\ "ENABLED" \in spindle_stop /\ pc = "wake" => "RESET" \in flags
  BY DEF Parts, AtWake, Spins, StopPlaced, StopPlace, StopStands, Resetting
<1> SUFFICES ASSUME Parts, Holds, Spins, Next, "ENABLED" \in spindle_stop, pc' # "reset",
                    pc' = "wake" \/ "ENABLED" \notin spindle_stop'
             PROVE  energized' \/ "RESET" \in flags \/ (state \in {"SAFETY_DOOR", "SLEEP"} /\ pc' # "wake")
  BY <1>1 DEF IInv, vars, spindleVars, stopVars
<1> USE DEF sysVars, stopVars, spindleVars, askVars
<1>2. CASE Interrupt
  BY <1>1, <1>2 DEF Interrupt, InterruptFrame, mainVars, Tim2Segment, Tim2Empty, OperatorHold, OperatorStart,
        OperatorJogCancel, OperatorSpindleStop, OperatorReset, LimitSwitch, PinRead, PinStore
<1>3. CASE Receive
  BY <1>3 DEF Receive, Pass, JobFrame
<1>4. CASE pin = {} /\ Execute
  <2>1. EnterMcLine("mc_line") \/ EnterMcLine("mc_probe") => pc' = "alarm" /\ spindle_stop' = spindle_stop
    BY DEF EnterMcLine, Pass, JobFrame, SoftLimitHold, SoftLimitReset, SoftLimitFrame
  <2>2. SoftHolding => pc' = "alarm" /\ spindle_stop' = spindle_stop
    BY DEF SoftHolding, Pass, SoftLimitReset, SoftLimitFrame, JobFrame
  <2> QED
    BY <1>4, <2>1, <2>2 DEF Execute, MainLoop, MainLoopAgain, Reject, Sleep, Unlock, Line, Jog, McLineFull,
        McLine, McJog, JogPrep, JogWake, Sync, SyncAgain, SyncDone, ProbeFailInitial, ProbeFailed, Probe, McProbe,
        ProbeWait, ProbeEnd, ProbeFlush, Abort, Restart, Pass, ToMain, JobFrame
<1>5. CASE pin = {} /\ Suspend
  BY <1>5 DEF Suspend, SuspendWait, SpindleStop, SpindleRestore, SpindleStopped, SuspendRetract, SuspendSleep,
        SuspendDoor, SleepAgain, RestoreAgain, RestoreDone, SuspendFrame, Suspended, Parked, Holding, Spins, StopAlike
<1>6. CASE pin = {} /\ ExecRt
  <2>1. CASE RtStart
    BY <1>6, <2>1, StartSpins DEF RtStart
  <2>2. CASE RtPrep
    BY <2>2 DEF RtPrep, TakenUp
  <2> QED
    BY <1>6, <2>1, <2>2 DEF ExecRt, RtAlarm, RtHalted, RtSnapshot, RtHold, RtNoStart, StartFrame, RtWake, RtStop
<1> QED
  BY <1>2, <1>3, <1>4, <1>5, <1>6 DEF Next, Main

\* However holds, doors, jog cancels, resets and starts meet, a spindle that an override has
\* stopped turns again before the motion goes on, unless a reset or a retract has taken over.
THEOREM StopEnds == "probe" \notin Commands => (Spec => SpindleStopEnds)
<1> SUFFICES ASSUME "probe" \notin Commands PROVE Spec => SpindleStopEnds
  OBVIOUS
<1>1. Spec => [](IInv /\ Holds /\ Spins)
  BY SpinsInvariance
<1> QED
  BY <1>1, StopKept, PTL DEF Spec, SpindleStopEnds
=============================================================================
