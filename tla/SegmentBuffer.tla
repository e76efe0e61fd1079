--------------------------- MODULE SegmentBuffer ---------------------------
(***************************************************************************)
(* The step segment buffer of drivers/grbl/stepper.c.  The main program    *)
(* (st_prep_buffer) cuts the first planner block into segments and pushes  *)
(* them on a ring; the TIM2 interrupt pops them and executes their steps.  *)
(* Neither side locks: the interrupt may run between any two of the main   *)
(* program's accesses to the shared indices, so st_prep_buffer is split at *)
(* each of them.                                                           *)
(*                                                                         *)
(* Distances are counted in step events.  The speeds, the time of a        *)
(* segment and the AMASS level decide only how many events a segment gets, *)
(* which is left nondeterministic.                                         *)
(***************************************************************************)
EXTENDS Integers

CONSTANTS
  SEGMENT_BUFFER_SIZE,   \* stepper.h: slots of the segment ring
  MaxBlocks,             \* bound: blocks planned in a behaviour
  MaxEvents,             \* bound: step events of one block
  MaxRequests            \* bound: feed holds, overrides, kills and jog cancels

\* The firmware's ring has six slots.  With fewer than three there is a single
\* st_block slot, and a change of block would not change st_block_index.  n_step
\* is a uint16_t, so a segment has fewer than 2^16 events.
ASSUME SizesAssumption ==
  /\ SEGMENT_BUFFER_SIZE \in Nat /\ SEGMENT_BUFFER_SIZE >= 3
  /\ MaxBlocks \in Nat \ {0}
  /\ MaxEvents \in Nat /\ MaxEvents >= 1 /\ MaxEvents < 65536
  /\ MaxRequests \in Nat

VARIABLES
  \* --- the program being run and the planner in front of the buffer
  events,        \* step_event_count of each block, fixed for a behaviour
  planned,       \* blocks 1..planned have been through plan_buffer_line
  current,       \* the block at the planner's tail: current..planned queued
  \* --- main program, private
  pc,            \* where st_prep_buffer stands
  pl_block,      \* TRUE iff pl_block /= NULL (then it is block current)
  recalculate,   \* PREP_FLAG_RECALCULATE
  prep_index,    \* prep.st_block_index
  remaining,     \* prep.steps_remaining
  complete,      \* prep.mm_complete: where the velocity profile ends
  cut,           \* the segment being prepared: its n_step, does it end the profile
  wake,          \* st_wake_up() follows this call of st_prep_buffer
  \* --- protocol state that drives the buffer
  state,         \* sys.state
  hold_complete, \* SUSPEND_HOLD_COMPLETE
  step_control,  \* sys.step_control
  killed,        \* EXEC_RESET is set and not yet honoured
  requests,      \* requests made so far, against MaxRequests
  \* --- shared between the main program and the interrupt
  segment,       \* segment_buffer[]; of and from (history): the block, and how
                 \* many of its events were cut into earlier segments
  st_block,      \* st_block_buffer[]: the block whose data each slot holds
  head, next_head, tail,
  tim2,          \* TIM2 counts and interrupts
  cycle_stop,    \* EXEC_CYCLE_STOP
  \* --- interrupt, private
  executing,     \* st.exec_segment /= NULL
  exec_index,    \* st.exec_block_index
  step_count,    \* st.step_count
  \* --- what the motors have seen (history)
  out            \* the last step event: its block, events since the counters were set

plannerVars == <<events, planned, current>>
prepVars    == <<pl_block, recalculate, prep_index, remaining, complete, cut>>
protoVars   == <<state, hold_complete, step_control, killed, requests, wake>>
ringVars    == <<segment, st_block, head, next_head, tail>>
isrVars     == <<tim2, cycle_stop, executing, exec_index, step_count, out>>
vars == <<plannerVars, pc, prepVars, protoVars, ringVars, isrVars>>

Slots     == 0 .. SEGMENT_BUFFER_SIZE - 1
StIndices == 0 .. SEGMENT_BUFFER_SIZE - 2
Blocks    == 0 .. MaxBlocks               \* 0: no block yet
ControlFlags == {"EXECUTE_HOLD", "END_MOTION"}
NoCut == [n |-> 0, last |-> FALSE]
NoSegment == [st_block_index |-> 0, n_step |-> 0, of |-> 0, from |-> 0]

\* Mutant of NextSlot: the wrap comes one slot too late.
NextSlotLate(i) == IF i = SEGMENT_BUFFER_SIZE THEN 0 ELSE i + 1

\* Wrap of ++segment_buffer_tail and ++segment_next_head.
NextSlot(i) == IF i = SEGMENT_BUFFER_SIZE - 1 THEN 0 ELSE i + 1

\* Mutant of NextBlockIndex: one st_block slot too few.
NextBlockIndexShort(i) == IF i = SEGMENT_BUFFER_SIZE - 3 THEN 0 ELSE i + 1

\* st_next_block_index: one slot fewer than the segment ring.
NextBlockIndex(i) == IF i = SEGMENT_BUFFER_SIZE - 2 THEN 0 ELSE i + 1

\* plan_get_current_block() /= NULL
PlannerHasBlock == current <= planned

EventsOf(b) == IF b = 0 THEN 0 ELSE events[b]

Init ==
  /\ events \in [1..MaxBlocks -> 1..MaxEvents]
  /\ planned = 0 /\ current = 1
  /\ pc = "idle"
  /\ pl_block = FALSE /\ recalculate = FALSE
  /\ prep_index = 0 /\ remaining = 0 /\ complete = 0 /\ cut = NoCut
  /\ wake = FALSE
  /\ state = "IDLE" /\ hold_complete = FALSE /\ step_control = {}
  /\ killed = FALSE /\ requests = 0
  /\ segment = [i \in Slots |-> NoSegment]
  /\ st_block = [i \in StIndices |-> 0]
  /\ head = 0 /\ next_head = 1 /\ tail = 0
  /\ tim2 = FALSE /\ cycle_stop = FALSE
  /\ executing = FALSE /\ exec_index = 0 /\ step_count = 0
  /\ out = [block |-> 0, number |-> 0]

-----------------------------------------------------------------------------
(* The main program outside st_prep_buffer. *)

\* protocol_exec_rt_system() gets past its abort check.  A kill that comes later in
\* the pass is seen by the next one; what is left of the pass reads nothing a kill
\* changes, so it is taken before the kill here.
Running == pc = "idle" /\ ~killed

\* Mutant of UpdatePlanBlock: the block is forgotten, but not that it was begun.
UpdatePlanBlockForgets ==
  /\ pl_block' = FALSE
  /\ UNCHANGED <<recalculate, prep_index, remaining, complete, cut>>

\* st_update_plan_block_parameters(): the plan of the block being cut into
\* segments changed, so the generator must load it again.
UpdatePlanBlock ==
  /\ recalculate' = (recalculate \/ pl_block)
  /\ pl_block' = FALSE
  /\ UNCHANGED <<prep_index, remaining, complete, cut>>

\* plan_buffer_line() puts a block in the planner; planner_recalculate() may
\* reach the tail block and then notifies the stepper module.
PlanLine ==
  /\ pc = "idle"
  /\ ~hold_complete                  \* else the main program is suspended
  /\ planned < MaxBlocks
  /\ planned' = planned + 1
  /\ \/ PlannerHasBlock /\ UpdatePlanBlock
     \/ UNCHANGED prepVars
  /\ UNCHANGED <<events, current, pc, protoVars, ringVars, isrVars>>

\* Cycle start: from IDLE, or to resume a completed hold.
CycleStart ==
  /\ Running
  /\ state = "IDLE" \/ (state = "HOLD" /\ hold_complete)
  /\ step_control' = {}
  /\ hold_complete' = FALSE
  /\ IF PlannerHasBlock
       THEN state' = "CYCLE" /\ wake' = TRUE /\ pc' = "check"
       ELSE state' = "IDLE" /\ UNCHANGED <<wake, pc>>
  /\ UNCHANGED <<plannerVars, prepVars, killed, requests, ringVars, isrVars>>

\* The reload at the end of every protocol_exec_rt_system().
CallPrep ==
  /\ Running
  /\ state \in {"CYCLE", "HOLD"}
  /\ "END_MOTION" \notin step_control
  /\ pc' = "check"
  /\ UNCHANGED <<plannerVars, prepVars, protoVars, ringVars, isrVars>>

\* A feed hold while the cycle runs.
FeedHold ==
  /\ Running
  /\ state = "CYCLE"
  /\ requests < MaxRequests
  /\ requests' = requests + 1
  /\ UpdatePlanBlock
  /\ step_control' = {"EXECUTE_HOLD"}
  /\ state' = "HOLD"
  /\ UNCHANGED <<plannerVars, pc, hold_complete, killed, wake, ringVars, isrVars>>

\* A feed or rapid override: plan_cycle_reinitialize() in any state.
Override ==
  /\ Running
  /\ requests < MaxRequests
  /\ requests' = requests + 1
  /\ UpdatePlanBlock
  /\ UNCHANGED <<plannerVars, pc, state, hold_complete, step_control, killed,
                 wake, ringVars, isrVars>>

\* EXEC_CYCLE_STOP: a hold is complete, or the cycle has ended.
CycleStop ==
  /\ Running
  /\ cycle_stop
  /\ cycle_stop' = FALSE
  /\ IF state = "HOLD"
       THEN /\ UpdatePlanBlock
            /\ hold_complete' = (hold_complete \/ "EXECUTE_HOLD" \in step_control)
            /\ step_control' = step_control \ {"EXECUTE_HOLD"}
            /\ UNCHANGED state
       ELSE /\ state' = "IDLE"
            /\ hold_complete' = FALSE
            /\ UNCHANGED <<step_control, prepVars>>
  /\ UNCHANGED <<plannerVars, pc, killed, requests, wake, ringVars, tim2,
                 executing, exec_index, step_count, out>>

\* st_reset() with plan_reset(), after an abort or when the hold of a jog cancel
\* has come to its end: everything buffered is dropped, the indices start over.
Reset ==
  /\ pc = "idle"
  /\ killed \/ (cycle_stop /\ state = "HOLD" /\ ~hold_complete)
  /\ killed' = FALSE
  /\ current' = planned + 1
  /\ pl_block' = FALSE /\ recalculate' = FALSE
  /\ prep_index' = 0 /\ remaining' = 0 /\ complete' = 0 /\ cut' = NoCut
  /\ state' = "IDLE" /\ hold_complete' = FALSE /\ step_control' = {}
  /\ head' = 0 /\ next_head' = 1 /\ tail' = 0
  /\ tim2' = FALSE /\ cycle_stop' = FALSE
  /\ executing' = FALSE /\ exec_index' = 0 /\ step_count' = 0
  /\ out' = [block |-> planned, number |-> EventsOf(planned)]
  /\ UNCHANGED <<events, planned, pc, requests, wake, segment, st_block>>

-----------------------------------------------------------------------------
(* st_prep_buffer(), one action between two accesses of shared state. *)

\* The segment written at the head of the ring.
NewSegment(n) == [st_block_index |-> prep_index, n_step |-> n, of |-> current,
                  from |-> events[current] - remaining]

\* Back to the caller, which for a cycle start goes on to st_wake_up().
Return ==
  /\ pc' = "idle"
  /\ wake' = FALSE
  /\ tim2' = (tim2 \/ wake)

\* while (segment_buffer_tail != segment_next_head)
PrepCheck ==
  /\ pc = "check"
  /\ IF tail = next_head
       THEN Return
       ELSE pc' = "load" /\ UNCHANGED <<wake, tim2>>
  /\ UNCHANGED <<plannerVars, prepVars, state, hold_complete, step_control,
                 killed, requests, ringVars, cycle_stop, executing, exec_index,
                 step_count, out>>

\* No block in the planner to cut into segments.
PrepNoBlock ==
  /\ pc = "load"
  /\ ~pl_block /\ ~PlannerHasBlock
  /\ Return
  /\ UNCHANGED <<plannerVars, prepVars, state, hold_complete, step_control,
                 killed, requests, ringVars, cycle_stop, executing, exec_index,
                 step_count, out>>

\* Where the profile of the block ends, in events from the end of the block:
\* at its end, or before it when a forced deceleration stops inside the block.
ProfileEnd(left) == IF "EXECUTE_HOLD" \in step_control THEN 0 .. left ELSE {0}

\* A new planner block: its data goes to the next st_block slot.
PrepLoadBlock ==
  /\ pc = "load"
  /\ ~pl_block /\ PlannerHasBlock /\ ~recalculate
  /\ pl_block' = TRUE
  /\ prep_index' = NextBlockIndex(prep_index)
  /\ st_block' = [st_block EXCEPT ![prep_index'] = current]
  /\ remaining' = events[current]
  /\ complete' \in ProfileEnd(remaining')
  /\ pc' = "fill"
  /\ UNCHANGED <<plannerVars, recalculate, cut, protoVars, segment, head,
                 next_head, tail, isrVars>>

\* The same block with a new velocity profile.
PrepRecalculate ==
  /\ pc = "load"
  /\ ~pl_block /\ PlannerHasBlock /\ recalculate
  /\ pl_block' = TRUE
  /\ recalculate' = FALSE
  /\ complete' \in ProfileEnd(remaining)
  /\ pc' = "fill"
  /\ UNCHANGED <<plannerVars, prep_index, remaining, cut, protoVars, ringVars,
                 isrVars>>

\* The block and its profile are those of the previous segment.
PrepSameBlock ==
  /\ pc = "load"
  /\ pl_block
  /\ pc' = "fill"
  /\ UNCHANGED <<plannerVars, prepVars, protoVars, ringVars, isrVars>>

\* Mutant of Cuts: the last segment of a profile rounds its steps down.
CutsShort ==
  { c \in [n : 0 .. remaining - complete, last : BOOLEAN] :
      \/ c.last /\ c.n >= remaining - complete - 1
      \/ ~c.last /\ c.n > 0 /\ (c.n < remaining - complete \/ complete > 0) }

\* How a segment may end: short of the end of the profile with at least one
\* event (req_mm_increment), or at it.  A profile that ends inside the block can
\* come within a fraction of an event of its end without reaching it.
Cuts ==
  { c \in [n : 0 .. remaining - complete, last : BOOLEAN] :
      \/ c.last /\ c.n = remaining - complete
      \/ ~c.last /\ c.n > 0 /\ (c.n < remaining - complete \/ complete > 0) }

\* The segment is written in the slot at the head.
PrepFill ==
  /\ pc = "fill"
  /\ \E c \in Cuts :
       /\ c.n > 0
       /\ cut' = c
       /\ segment' = [segment EXCEPT ![head] = NewSegment(c.n)]
  /\ pc' = "publish"
  /\ UNCHANGED <<plannerVars, pl_block, recalculate, prep_index, remaining,
                 complete, protoVars, st_block, head, next_head, tail, isrVars>>

\* The hold ends less than one event away: nothing is published.
PrepBail ==
  /\ pc = "fill"
  /\ \E c \in Cuts : c.n = 0
  /\ "EXECUTE_HOLD" \in step_control
  /\ segment' = [segment EXCEPT ![head] = NewSegment(0)]
  /\ step_control' = step_control \cup {"END_MOTION"}
  /\ Return
  /\ UNCHANGED <<plannerVars, prepVars, state, hold_complete, killed,
                 requests, st_block, head, next_head, tail, cycle_stop, executing,
                 exec_index, step_count, out>>

\* segment_buffer_head = segment_next_head: from here the interrupt sees it.
PrepPublish ==
  /\ pc = "publish"
  /\ head' = next_head
  /\ next_head' = NextSlot(next_head)
  /\ pc' = "finish"
  /\ UNCHANGED <<plannerVars, prepVars, protoVars, segment, st_block, tail,
                 isrVars>>

\* What the published segment leaves of the block.
PrepFinish ==
  /\ pc = "finish"
  /\ remaining' = remaining - cut.n
  /\ cut' = NoCut
  /\ UNCHANGED <<events, planned, recalculate, prep_index, complete, state,
                 hold_complete, killed, requests, ringVars, cycle_stop, executing,
                 exec_index, step_count, out>>
  /\ \/ /\ ~cut.last
        /\ pc' = "check"
        /\ UNCHANGED <<current, pl_block, step_control, wake, tim2>>
     \/ /\ cut.last /\ complete > 0          \* end of a forced deceleration
        /\ step_control' = step_control \cup {"END_MOTION"}
        /\ Return
        /\ UNCHANGED <<current, pl_block>>
     \/ /\ cut.last /\ complete = 0          \* plan_discard_current_block()
        /\ pl_block' = FALSE
        /\ current' = current + 1
        /\ pc' = "check"
        /\ UNCHANGED <<step_control, wake, tim2>>

-----------------------------------------------------------------------------
(* The interrupts. *)

\* TIM2 with a segment to execute: load it if none is loaded, then one step
\* event.  A change of st_block_index is how a new block is recognised; only
\* then are the Bresenham counters set again.
IsrStep ==
  /\ tim2
  /\ executing \/ head # tail
  /\ LET seg   == segment[tail]
         fresh == ~executing /\ seg.st_block_index # exec_index
         left  == IF executing THEN step_count ELSE seg.n_step
     IN /\ exec_index' = IF fresh THEN seg.st_block_index ELSE exec_index
        /\ out' = [block  |-> st_block[exec_index'],
                   number |-> IF fresh THEN 1 ELSE out.number + 1]
        /\ step_count' = (left + 65535) % 65536          \* uint16_t --
        /\ executing' = (step_count' # 0)
        /\ tail' = IF step_count' = 0 THEN NextSlot(tail) ELSE tail
  /\ UNCHANGED <<plannerVars, pc, prepVars, protoVars, segment, st_block, head,
                 next_head, tim2, cycle_stop>>

\* Mutant of IsrEmpty: the interrupt stops without telling the main program.
IsrEmptySilent ==
  /\ tim2
  /\ ~executing /\ head = tail
  /\ tim2' = FALSE
  /\ UNCHANGED <<plannerVars, pc, prepVars, protoVars, ringVars, cycle_stop,
                 executing, exec_index, step_count, out>>

\* TIM2 with an empty buffer: the steppers stop and the main program is told.
IsrEmpty ==
  /\ tim2
  /\ ~executing /\ head = tail
  /\ tim2' = FALSE
  /\ cycle_stop' = TRUE
  /\ UNCHANGED <<plannerVars, pc, prepVars, protoVars, ringVars, executing,
                 exec_index, step_count, out>>

\* mc_reset() from the serial or a pin interrupt while in motion: the steppers
\* are stopped at once, the buffers are left for the main program to reset.
Kill ==
  /\ ~killed
  /\ state # "IDLE"
  /\ requests < MaxRequests
  /\ requests' = requests + 1
  /\ killed' = TRUE
  /\ tim2' = FALSE
  /\ UNCHANGED <<plannerVars, pc, prepVars, state, hold_complete, step_control,
                 wake, ringVars, cycle_stop, executing, exec_index, step_count,
                 out>>

-----------------------------------------------------------------------------
Main == \/ PlanLine \/ CycleStart \/ CallPrep \/ FeedHold \/ Override
        \/ CycleStop \/ Reset

Prep == \/ PrepCheck \/ PrepNoBlock \/ PrepLoadBlock \/ PrepRecalculate
        \/ PrepSameBlock \/ PrepFill \/ PrepBail \/ PrepPublish \/ PrepFinish

Isr == IsrStep \/ IsrEmpty \/ Kill

Next == Main \/ Prep \/ Isr

Spec == Init /\ [][Next]_vars

\* The main program keeps polling and finishes every call of st_prep_buffer;
\* every pass of protocol_exec_rt_system looks at EXEC_CYCLE_STOP; TIM2 keeps
\* interrupting while it is enabled.
FairSpec == /\ Spec
            /\ WF_vars(Prep)
            /\ SF_vars(CycleStop)
            /\ WF_vars(CallPrep)
            /\ WF_vars(IsrStep \/ IsrEmpty)

-----------------------------------------------------------------------------
(* Properties. *)

PlannerTypeOK ==
  /\ events \in [1..MaxBlocks -> 1..MaxEvents]
  /\ planned \in Blocks
  /\ current \in 1 .. planned + 1

PrepTypeOK ==
  /\ pc \in {"idle", "check", "load", "fill", "publish", "finish"}
  /\ pl_block \in BOOLEAN /\ recalculate \in BOOLEAN
  /\ prep_index \in StIndices
  /\ remaining \in 0..MaxEvents
  /\ complete \in 0..MaxEvents
  /\ cut \in [n : 0..MaxEvents, last : BOOLEAN]

ProtoTypeOK ==
  /\ wake \in BOOLEAN
  /\ state \in {"IDLE", "CYCLE", "HOLD"}
  /\ hold_complete \in BOOLEAN
  /\ step_control \in SUBSET ControlFlags
  /\ killed \in BOOLEAN
  /\ requests \in 0..MaxRequests

Segments == [st_block_index : StIndices, n_step : 0..MaxEvents,
             of : Blocks, from : 0..MaxEvents]

RingTypeOK ==
  /\ segment \in [Slots -> Segments]
  /\ st_block \in [StIndices -> Blocks]
  /\ head \in Slots /\ next_head \in Slots /\ tail \in Slots

IsrTypeOK ==
  /\ tim2 \in BOOLEAN /\ cycle_stop \in BOOLEAN /\ executing \in BOOLEAN
  /\ exec_index \in StIndices
  /\ step_count \in 0..MaxEvents
  /\ out \in [block : Blocks, number : 0..MaxEvents]

\* Every variable keeps its type; in particular no index leaves its ring.
TypeOK == PlannerTypeOK /\ PrepTypeOK /\ ProtoTypeOK /\ RingTypeOK /\ IsrTypeOK

\* Ring slots by their distance from the tail; those before the head are queued.
Distance(i) == IF tail <= i THEN i - tail ELSE i - tail + SEGMENT_BUFFER_SIZE
Queued == Distance(head)
InRing(i) == Distance(i) < Queued

\* A segment waiting for the interrupt, or being executed by it, still has the
\* step data of its own block behind its index, although st_prep_buffer has
\* gone on to later blocks and reuses the slots.  None has zero steps, which the
\* interrupt would take for 65536.
SegmentsIntact ==
  \A i \in Slots : InRing(i) =>
    /\ segment[i].n_step > 0
    /\ st_block[segment[i].st_block_index] = segment[i].of

\* When the planner and the segment buffer are empty, every step event of every
\* block that was not dropped by a reset has been executed: holds, resumes and
\* replanning lose none and repeat none.
AllExecuted ==
  (~PlannerHasBlock /\ ~pl_block /\ head = tail /\ pc # "finish")
    => out = [block |-> planned, number |-> EventsOf(planned)]

\* The abstract step stream is implemented: events come out in program order,
\* one by one, across ring wraps, holds, overrides and kills.
Stream == INSTANCE StepStream WITH block <- out.block, number <- out.number
StreamSpec == Stream!Spec

\* A feed hold comes to rest: the machine reaches HOLD complete (or the hold is
\* ended by a reset or a jog cancel) however the buffers stood when it arrived.
HoldCompletes ==
  (state = "HOLD") ~> (hold_complete \/ killed \/ state # "HOLD")

-----------------------------------------------------------------------------
(* The inductive invariant behind SegmentsIntact and StreamSpec. *)

\* The block whose data was last put in st_block, and how many of its events
\* have been published in segments.
HasLoaded == pl_block \/ recalculate
Loaded    == IF HasLoaded THEN current ELSE current - 1
Rest      == IF pc = "finish" THEN remaining - cut.n ELSE remaining
Published == IF HasLoaded THEN events[current] - Rest ELSE EventsOf(current - 1)
Unpublished == HasLoaded /\ Published = 0

\* Event n of block b is directly followed by what starts after event m of c.
Joins(b, n, c, m) == \/ c = b /\ m = n
                     \/ c = b + 1 /\ n = EventsOf(b) /\ m = 0

SegmentEnd(s) == s.from + s.n_step

\* The index k blocks before index p in the st_block ring.
Back(p, k) == IF k <= p THEN p - k ELSE p - k + (SEGMENT_BUFFER_SIZE - 1)

PrepInv ==
  /\ next_head = NextSlot(head)
  /\ ~(pl_block /\ recalculate)
  /\ HasLoaded => current <= planned /\ remaining > 0 /\ remaining <= events[current]
  /\ HasLoaded => st_block[prep_index] = current
  /\ pc \in {"fill", "publish", "finish"} => pl_block
  /\ complete <= remaining
  /\ pc \in {"publish", "finish"} =>
       /\ cut.n \in 1 .. remaining - complete
       /\ cut.last => cut.n = remaining - complete
       /\ ~cut.last => cut.n < remaining
  /\ pc = "publish" => segment[head] = NewSegment(cut.n)
  /\ (pc \in {"load", "fill", "publish"} \/ Unpublished) =>
        Queued < SEGMENT_BUFFER_SIZE - 1

\* The segment at i ends where the next one, or else the next to be cut, starts.
Follows(i) ==
  IF NextSlot(i) = head
    THEN Joins(segment[i].of, SegmentEnd(segment[i]), Loaded, Published)
    ELSE Joins(segment[i].of, SegmentEnd(segment[i]), segment[NextSlot(i)].of,
               segment[NextSlot(i)].from)

SegmentInv(i) ==
  /\ segment[i].n_step > 0
  /\ segment[i].of \in 1 .. Loaded
  /\ Loaded - segment[i].of <= Queued - Distance(i) - (IF Unpublished THEN 0 ELSE 1)
  /\ segment[i].st_block_index = Back(prep_index, Loaded - segment[i].of)
  /\ st_block[segment[i].st_block_index] = segment[i].of
  /\ SegmentEnd(segment[i]) <= events[segment[i].of]
  /\ Follows(i)

RingInv == \A i \in Slots : InRing(i) => SegmentInv(i)

ExecInv ==
  LET s == segment[tail] IN
  /\ out.number <= EventsOf(out.block)
  /\ out.block <= Loaded
  /\ Loaded - out.block <= SEGMENT_BUFFER_SIZE - 1
  /\ exec_index = Back(prep_index, Loaded - out.block)
  /\ IF executing
       THEN /\ head # tail
            /\ out.block = s.of
            /\ step_count \in 1 .. s.n_step - 1
            /\ out.number = SegmentEnd(s) - step_count
       ELSE IF head = tail
              THEN Joins(out.block, out.number, Loaded, Published)
              ELSE Joins(out.block, out.number, s.of, s.from)

IInv == TypeOK /\ PrepInv /\ RingInv /\ ExecInv
=============================================================================
