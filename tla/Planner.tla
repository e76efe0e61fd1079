------------------------------ MODULE Planner ------------------------------
(***************************************************************************)
(* The look-ahead planner of drivers/grbl/planner.c: a ring of line motions *)
(* whose entry speeds are planned so that the machine can always slow down *)
(* in time, replanned from a stop-compute pointer with every new line, and *)
(* st_prep_buffer, which executes the block at the tail.  All of it runs in *)
(* the main program, one operation after the other.                        *)
(*                                                                         *)
(* Speeds are squared, as in the code, and distances are given by the      *)
(* squared speed that can be gained or lost over them (2*a*mm); both are   *)
(* integers, so that the code's comparisons are exact.                     *)
(***************************************************************************)
EXTENDS Integers, FiniteSetsExt

CONSTANTS
  BLOCK_BUFFER_SIZE,   \* planner.h: slots of the ring
  Lengths,             \* 2*a*mm of the lines of the program
  Junctions,           \* squared speed limits of the corners between them
  Rates,               \* programmed speeds
  Overrides,           \* factors the feed override may be set to; it starts at 2
  MaxLines, MaxRequests   \* bounds: lines planned; holds, overrides and resets

ASSUME PlannerAssumption ==
  /\ BLOCK_BUFFER_SIZE \in Nat /\ BLOCK_BUFFER_SIZE >= 3
  /\ Lengths \subseteq Nat \ {0} /\ Junctions \subseteq Nat
  /\ Rates \subseteq Nat \ {0} /\ Overrides \subseteq Nat \ {0}
  /\ MaxLines \in Nat /\ MaxRequests \in Nat

VARIABLES
  buffer,            \* block_buffer[]
  head, next_head, tail, planned,
  previous_nominal,  \* pl.previous_nominal_speed; Large is SOME_LARGE_VALUE
  override,          \* sys.f_override
  \* --- the stepper's copy
  loaded,            \* pl_block # NULL (it is the block at the tail)
  recalculate, decel_override,   \* prep.recalculate_flag
  current, exit,     \* squares of prep.current_speed, prep.exit_speed
  complete,          \* 2*a*prep.mm_complete
  \* --- what drives them
  hold,              \* "no", "decelerating" (STEP_CONTROL_EXECUTE_HOLD), "complete"
  ended,             \* STEP_CONTROL_END_MOTION
  lines, requests,
  slowed             \* history: the override was reduced with blocks planned, since the last reset

ringVars == <<buffer, head, next_head, tail, planned>>
prepVars == <<loaded, recalculate, decel_override, current, exit, complete>>
vars == <<ringVars, previous_nominal, override, prepVars, hold, ended, lines, requests, slowed>>

N == BLOCK_BUFFER_SIZE
Slots == 0 .. N - 1
Large == 1000
Least(a, b) == IF a < b THEN a ELSE b

\* length is 2*a*millimeters, what is left of the block; max_entry and entry are
\* max_entry_speed_sqr and entry_speed_sqr.
NoBlock == [length |-> 0, junction |-> 0, rate |-> 0, max_entry |-> 0, entry |-> 0]

\* Mutant of After: the index wraps one slot late.
AfterLate(i) == IF i = N THEN 0 ELSE i + 1
After(i) == IF i + 1 = N THEN 0 ELSE i + 1
Before(i) == IF i = 0 THEN N - 1 ELSE i - 1
Steps(i, j) == (j + N - i) % N          \* from i forward to j
Ahead(i, k) == (i + k) % N

Empty == head = tail
Full == tail = next_head

\* plan_compute_profile_nominal_speed()
Nominal(block, factor) == block.rate * factor

\* plan_compute_profile_parameters()
MaxEntry(block, nominal, previous) ==
  Least(Least(nominal, previous) * Least(nominal, previous), block.junction)

-----------------------------------------------------------------------------
(* planner_recalculate(), on a ring b with head h, from the pointer p *)

\* How far back from the last block the reverse pass goes.
Depth(h, p) == Steps(p, Before(h))

\* Mutant of MeetsTail: with two blocks to plan the stepper is not told.
MeetsTailDeep(h, p) == Depth(h, p) > 1 /\ Steps(tail, Before(h)) \in 2 .. Depth(h, p)

\* The reverse pass meets the tail and tells the stepper.
MeetsTail(h, p) ==
  LET d == Steps(tail, Before(h))
  IN IF Depth(h, p) = 1 THEN d = 1 ELSE d \in 2 .. Depth(h, p)

\* st_update_plan_block_parameters(): the tail's entry is the speed it is now
\* executed at.
Updated(b) == IF loaded THEN [b EXCEPT ![tail].entry = current] ELSE b
StUpdate ==
  /\ loaded' = FALSE /\ recalculate' = (recalculate \/ loaded)
  /\ UNCHANGED <<decel_override, current, exit, complete>>

\* Mutant of Reverse: the last block is planned to run through.
ReverseUnstopped(b, h, p) ==
  LET At(d) == b[Ahead(Before(h), N - d)]
      rev[d \in 0 .. N - 1] ==
        IF d = 0 THEN At(0).max_entry
        ELSE IF At(d).entry = At(d).max_entry THEN At(d).entry
        ELSE Least(rev[d - 1] + At(d).length, At(d).max_entry)
  IN rev

\* Entry speeds after the reverse pass, d blocks before the last one.
Reverse(b, h, p) ==
  LET At(d) == b[Ahead(Before(h), N - d)]
      rev[d \in 0 .. N - 1] ==
        IF d = 0 THEN Least(At(0).max_entry, At(0).length)
        ELSE IF At(d).entry = At(d).max_entry THEN At(d).entry
        ELSE Least(rev[d - 1] + At(d).length, At(d).max_entry)
  IN rev

\* Mutant of Recalculated: the pointer moves to the last block in every case.
RecalculatedToEnd(b, h, p) ==
  LET depth == Depth(h, p)
      rev == Reverse(b, h, p)
      planEntry(k) == IF k = 0 THEN b[p].entry ELSE rev[depth - k]
      fwd[k \in 0 .. depth] ==
        IF k = 0 THEN planEntry(0)
        ELSE Least(planEntry(k), fwd[k - 1] + b[Ahead(p, k - 1)].length)
  IN [ring    |-> [i \in Slots |-> IF Steps(p, i) \in 1 .. depth
                                   THEN [b[i] EXCEPT !.entry = fwd[Steps(p, i)]] ELSE b[i]],
      planned |-> Ahead(p, depth)]

\* The forward pass from p: no block is entered faster than it can be reached, and
\* whatever lies before such a block, or one at its maximum, stays as it is from now on.
Recalculated(b, h, p) ==
  LET depth == Depth(h, p)
      rev == Reverse(b, h, p)
      planEntry(k) == IF k = 0 THEN b[p].entry ELSE rev[depth - k]
      fwd[k \in 0 .. depth] ==
        IF k = 0 THEN planEntry(0)
        ELSE Least(planEntry(k), fwd[k - 1] + b[Ahead(p, k - 1)].length)
      Limited(k) == fwd[k] < planEntry(k)
      Optimal == {k \in 1 .. depth : Limited(k) \/ fwd[k] = b[Ahead(p, k)].max_entry}
  IN [ring    |-> [i \in Slots |-> IF Steps(p, i) \in 1 .. depth
                                   THEN [b[i] EXCEPT !.entry = fwd[Steps(p, i)]] ELSE b[i]],
      planned |-> IF Optimal = {} THEN p ELSE Ahead(p, Max(Optimal))]

\* Line 132: with a single block to plan there is nothing to do.
Recalculate(b, h, p) ==
  IF Before(h) = p
  THEN buffer' = b /\ planned' = p /\ UNCHANGED prepVars
  ELSE LET met == MeetsTail(h, p)
           plan == Recalculated(IF met THEN Updated(b) ELSE b, h, p)
       IN /\ buffer' = plan.ring /\ planned' = plan.planned
          /\ IF met THEN StUpdate ELSE UNCHANGED prepVars

\* Mutant of Reinitialize: the stepper's speed is not taken over.
ReinitializeUntold(b) ==
  LET plan == Recalculated(b, head, tail)
  IN /\ IF Before(head) = tail
        THEN buffer' = b /\ planned' = tail
        ELSE buffer' = plan.ring /\ planned' = plan.planned
     /\ StUpdate

\* plan_cycle_reinitialize(), on a ring b.
Reinitialize(b) ==
  LET plan == Recalculated(Updated(b), head, tail)
  IN /\ IF Before(head) = tail
        THEN buffer' = Updated(b) /\ planned' = tail
        ELSE buffer' = plan.ring /\ planned' = plan.planned
     /\ StUpdate

-----------------------------------------------------------------------------
Init ==
  /\ buffer = [i \in Slots |-> NoBlock]
  /\ head = 0 /\ next_head = 1 /\ tail = 0 /\ planned = 0
  /\ previous_nominal = 0 /\ override = 2
  /\ loaded = FALSE /\ recalculate = FALSE /\ decel_override = FALSE
  /\ current = 0 /\ exit = 0 /\ complete = 0
  /\ hold = "no" /\ ended = FALSE
  /\ lines = 0 /\ requests = 0 /\ slowed = FALSE

\* plan_buffer_line(), which mc_line() calls when the ring is not full and no
\* completed hold suspends the main program.
PlanLine ==
  /\ ~Full /\ hold # "complete"
  /\ lines < MaxLines /\ lines' = lines + 1
  /\ \E length \in Lengths, junction \in Junctions, rate \in Rates :
       LET new == [NoBlock EXCEPT !.length = length, !.rate = rate,
                                  !.junction = IF Empty THEN 0 ELSE junction]
           nominal == Nominal(new, override)
           block == [new EXCEPT !.max_entry = MaxEntry(new, nominal, previous_nominal)]
       IN /\ previous_nominal' = nominal
          /\ Recalculate([buffer EXCEPT ![head] = block], next_head, planned)
  /\ head' = next_head /\ next_head' = After(next_head)
  /\ UNCHANGED <<tail, override, hold, ended, requests, slowed>>

\* The feed override changes: plan_update_velocity_profile_parameters() and
\* plan_cycle_reinitialize().
Override ==
  /\ requests < MaxRequests /\ requests' = requests + 1
  /\ \E factor \in Overrides \ {override} :
       LET count == Steps(tail, head)
           NominalAt(k) == Nominal(buffer[Ahead(tail, k)], factor)
           Previous(k) == IF k = 0 THEN Large ELSE NominalAt(k - 1)
       IN /\ override' = factor
          /\ slowed' = (slowed \/ (factor < override /\ ~Empty))
          /\ previous_nominal' = Previous(count)
          /\ Reinitialize([i \in Slots |->
               LET k == Steps(tail, i) IN
               IF k < count
               THEN [buffer[i] EXCEPT !.max_entry = MaxEntry(buffer[i], NominalAt(k), Previous(k))]
               ELSE buffer[i]])
  /\ UNCHANGED <<head, next_head, tail, hold, ended, lines>>

\* A hold in CYCLE, which lasts on after the last block is discarded, for as long as its
\* segments do.
FeedHold ==
  /\ hold = "no"
  /\ requests < MaxRequests /\ requests' = requests + 1
  /\ hold' = "decelerating"
  /\ buffer' = Updated(buffer) /\ StUpdate
  /\ UNCHANGED <<head, next_head, tail, planned, previous_nominal, override, ended, lines, slowed>>

\* EXEC_CYCLE_STOP in a hold: the deceleration has come to its end, or to the end of
\* the last block.
HoldComplete ==
  /\ hold = "decelerating" /\ (ended \/ (Empty /\ ~loaded))
  /\ hold' = "complete"
  /\ Reinitialize(buffer)
  /\ UNCHANGED <<head, next_head, tail, previous_nominal, override, ended, lines, requests, slowed>>

\* Cycle start: STEP_CONTROL_NORMAL_OP.
Resume ==
  /\ hold = "complete"
  /\ hold' = "no" /\ ended' = FALSE
  /\ UNCHANGED <<ringVars, previous_nominal, override, prepVars, lines, requests, slowed>>

\* plan_reset() and st_reset().
Reset ==
  /\ requests < MaxRequests /\ requests' = requests + 1
  /\ head' = 0 /\ next_head' = 1 /\ tail' = 0 /\ planned' = 0
  /\ previous_nominal' = 0
  /\ loaded' = FALSE /\ recalculate' = FALSE /\ decel_override' = FALSE
  /\ current' = 0 /\ exit' = 0 /\ complete' = 0
  /\ hold' = "no" /\ ended' = FALSE /\ slowed' = FALSE
  /\ UNCHANGED <<buffer, override, lines>>

-----------------------------------------------------------------------------
(* st_prep_buffer() *)

Block == buffer[tail]
NominalSqr == Nominal(Block, override) * Nominal(Block, override)

\* plan_get_exec_block_exit_speed_sqr()
ExitSpeed == IF After(tail) = head THEN 0 ELSE buffer[After(tail)].entry

\* The velocity profile of the block at the tail from entry on.  A hold decelerates to
\* zero, through the whole block if need be.  After an override the block may be entered
\* faster than its nominal speed: too fast to slow down to it within the block.
Profile(entry) ==
  IF hold = "decelerating"
  THEN [exit     |-> IF entry > Block.length THEN entry - Block.length ELSE 0,
        complete |-> IF entry > Block.length THEN 0 ELSE Block.length - entry, decel |-> FALSE]
  ELSE IF entry > NominalSqr /\ entry - NominalSqr >= Block.length
  THEN [exit |-> entry - Block.length, complete |-> 0, decel |-> TRUE]
  ELSE [exit |-> ExitSpeed, complete |-> 0, decel |-> FALSE]

\* A block is loaded, or loaded again after the planner has changed it.
Load ==
  /\ ~loaded /\ ~Empty /\ ~ended
  /\ LET forced == ~recalculate /\ (hold = "decelerating" \/ decel_override)
         entry == IF forced THEN exit ELSE Block.entry
         profile == Profile(entry)
     IN /\ buffer' = [buffer EXCEPT ![tail].entry = entry]
        /\ current' = (IF recalculate THEN current ELSE entry)
        /\ exit' = profile.exit /\ complete' = profile.complete
        /\ decel_override' = profile.decel
  /\ loaded' = TRUE /\ recalculate' = FALSE
  /\ UNCHANGED <<head, next_head, tail, planned, previous_nominal, override, hold, ended, lines, requests, slowed>>

\* The speed at which rest is left of the block.
SpeedAt(rest) ==
  LET done == Block.length - rest
      free == IF current > NominalSqr
              THEN IF current - done > NominalSqr THEN current - done ELSE NominalSqr
              ELSE Least(current + done, NominalSqr)
  IN IF rest = complete THEN exit
     ELSE IF hold = "decelerating" THEN current - done
     ELSE Least(free, exit + rest)

\* Mutant of Cut: plan_discard_current_block() leaves the planned pointer.
CutUnpushed ==
  /\ loaded /\ ~ended
  /\ \E rest \in complete .. Block.length :
       /\ rest < Block.length \/ rest = complete
       /\ current' = SpeedAt(rest)
       /\ buffer' = [buffer EXCEPT ![tail].length = rest]
       /\ ended' = (rest = complete /\ rest > 0)
       /\ loaded' = (rest > 0)
       /\ tail' = (IF rest = 0 THEN After(tail) ELSE tail)
  /\ UNCHANGED <<planned, head, next_head, previous_nominal, override, recalculate, decel_override,
                 exit, complete, hold, lines, requests, slowed>>

\* Segments are cut up to rest from the end of the block; a finished block is
\* discarded, the end of a hold inside it ends the motion.
Cut ==
  /\ loaded /\ ~ended
  /\ \E rest \in complete .. Block.length :
       /\ rest < Block.length \/ rest = complete
       /\ current' = SpeedAt(rest)
       /\ buffer' = [buffer EXCEPT ![tail].length = rest]
       /\ ended' = (rest = complete /\ rest > 0)
       /\ IF rest = 0
          THEN /\ loaded' = FALSE /\ tail' = After(tail)
               /\ planned' = (IF planned = tail THEN After(tail) ELSE planned)
          ELSE UNCHANGED <<loaded, tail, planned>>
  /\ UNCHANGED <<head, next_head, previous_nominal, override, recalculate, decel_override, exit,
                 complete, hold, lines, requests, slowed>>

Next == PlanLine \/ Override \/ FeedHold \/ HoldComplete \/ Resume \/ Reset \/ Load \/ Cut
Spec == Init /\ [][Next]_vars

-----------------------------------------------------------------------------
(* Properties *)

TypeOK ==
  /\ buffer \in [Slots -> [length : Nat, junction : Nat, rate : Nat, max_entry : Nat, entry : Nat]]
  /\ head \in Slots /\ tail \in Slots /\ planned \in Slots /\ next_head = After(head)
  /\ previous_nominal \in Nat /\ override \in Overrides \cup {2}
  /\ loaded \in BOOLEAN /\ recalculate \in BOOLEAN /\ decel_override \in BOOLEAN
  /\ current \in Nat /\ exit \in Nat /\ complete \in Nat
  /\ hold \in {"no", "decelerating", "complete"} /\ ended \in BOOLEAN /\ slowed \in BOOLEAN
  /\ ~(loaded /\ recalculate) /\ (loaded => ~Empty)

\* Blocks in the ring, in the order of execution, and how fast each is entered: the
\* first one goes on at the speed it is executed at.
Count == Steps(tail, head)
At(k) == buffer[Ahead(tail, k)]
Entry(k) == IF k = 0 /\ loaded THEN current ELSE At(k).entry

\* The stop-compute pointer stays with the blocks it divides.
PlannedInRing == ~Empty => Steps(tail, planned) < Count

\* Every block can be left at the speed at which the next one is entered: no faster
\* than the machine can accelerate over what is left of the block, no slower than it
\* can decelerate; and the last one ends at rest.  An override that is reduced breaks it:
\* planner.c:158 keeps an entry speed that is at its maximum, though what follows the
\* block has become slower.
CanSlowDown(k) == Entry(k) <= At(k).length + (IF k + 1 = Count THEN 0 ELSE Entry(k + 1))
CanSpeedUp(k) == k + 1 < Count => Entry(k + 1) <= Entry(k) + At(k).length
Feasible ==
  ~slowed /\ hold # "decelerating" => \A k \in 0 .. Count - 1 : CanSlowDown(k) /\ CanSpeedUp(k)

\* The block being executed ends at the speed at which the planner lets the next one
\* begin, although that speed is read once and planned again with every new line; unless
\* it is too fast to be slowed down for a reduced override.
ExitAgrees == loaded /\ hold = "no" /\ ~decel_override => exit = ExitSpeed

\* Planning from the stop-compute pointer loses nothing: every entry speed is the
\* highest that its maximum, the distance to the end and the way from the first block
\* allow, as planning the whole ring would find.  For a reduced override, see Feasible.
Best ==
  LET back[d \in 0 .. N - 1] ==       \* d blocks before the last
        IF d = 0 THEN Least(At(Count - 1).max_entry, At(Count - 1).length)
        ELSE IF d < Count THEN Least(At(Count - 1 - d).max_entry, back[d - 1] + At(Count - 1 - d).length)
        ELSE 0
      best[k \in 0 .. N - 1] ==
        IF k = 0 THEN Entry(0)
        ELSE IF k < Count THEN Least(back[Count - 1 - k], best[k - 1] + At(k - 1).length)
        ELSE 0
  IN best
PlanOptimal ==
  ~slowed /\ hold # "decelerating" => LET best == Best IN \A k \in 1 .. Count - 1 : At(k).entry = best[k]

\* After a hold the machine starts from rest, with a plan made for it.
RestAfterHold == hold = "complete" /\ ~Empty => At(0).entry = 0
=============================================================================
