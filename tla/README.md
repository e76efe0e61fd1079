# TLA+ models of the Pen_Plotter firmware

The repository is a port of Grbl 1.1 to an STM32F103 pen plotter. The program's own logic
is in `src/firmware/src/drivers/grbl/` (G = this directory below) and `src/firmware/src/main.c`:
it receives G-code over USART1, plans lines with look-ahead, cuts them into constant-speed
segments and steps the motors from a timer interrupt, while real-time commands hold,
resume, cancel and reset it. The rest of the tree is vendor code (HAL, CMSIS, USB), board
set-up and drivers for a display and an encoder.

The port moved code that relied on AVR's rules (one interrupt at a time, atomic bit
operations) to a processor with nested interrupt priorities: TIM2 (steps) 0, TIM3 (pulse
end) 1, USART1 3, the main program below all. What can go wrong is therefore mostly
interleaving, and the models split the code where another party can come in between.

## Inventory

| component | state | operations | interacts with | correct when |
|---|---|---|---|---|
| line reader (`protocol_main_loop`, serial receive) | receive ring, line buffer, line flags | receive interrupt, `serial_read`, filter, execute, `serial_reset_read_buffer` | host (answers), real-time executor (check points) | the line executed is the one the host sent; every line answered; nothing survives a reset |
| serial transmit | transmit ring, TXEIE | `serial_write`, UDRE interrupt | every report | no byte lost, reordered or stuck |
| real-time executor (`protocol_exec_rt_system`, `_suspend`) | `sys.state`, `sys.suspend`, `sys.step_control`, flags, alarm | one pass; suspend loop; `protocol_buffer_synchronize`, auto start | all interrupts, planner, stepper, spindle | holds stop, resumes are asked for, alarms lock, everything comes to its end |
| overrides | `f_override`, `r_override`, their flags | receive, apply, program end | planner | in range, what the commands say |
| planner | block ring with tail, planned, head pointers | `plan_buffer_line`, recalculate, discard, reinitialize, override update | motion control in front, `st_prep_buffer` behind | plan feasible and optimal, nothing replanned that the stepper has used |
| step segment buffer | segment ring, block-data ring, `prep` | `st_prep_buffer`, TIM2 interrupt, `st_reset`, `st_wake_up`, `st_go_idle` | planner, executor | every step event of every block executed once, in order |
| motion control, jog, probe | none of their own but what they wait with | `mc_line`, `mc_probe_cycle`, `jog_execute`, `mc_reset` | planner, executor, stepper | they return, and leave state the next motion can start from |
| limit switches, control pins | flags, alarm | interrupts, `limits_soft_check` | `mc_reset` | the machine stops and stays locked |
| homing | locked axes, system motions | `limits_go_home` | stepper directly | ends at the switch or in alarm |
| settings, EEPROM | one flash page of records with checksums, its copy in RAM, settings and coordinate system in use | start, store, restore, select, read with repair | parser, system commands, reset loop | what is in use is what is stored; a power loss costs nothing but what was being written |
| G-code parser | modal state | `gc_execute_line` | motion control | a pure function of line and modal state |
| scheduler, encoder, display, utilities | small, private | periodic tasks | main loop only | not part of the motion system |

Hard to test here: the two rings that an interrupt and the main program share without a lock; the
flags that a pass copies and then clears; the hold, door, sleep, cancel and spindle-stop flags,
whose meaning depends on each other; a reset from an interrupt at any point; loops that wait for
an interrupt which may be off; the plan that is not computed again behind the stop-compute
pointer; a homing loop that polls switches without a pass of the executor; a flash page that is
erased as a whole; 8-bit arithmetic. `PROJECT.json` lists each hazard at its line.

## Modules

| module | code | how it is cut |
|---|---|---|
| `SegmentBuffer` | `stepper.c` `st_prep_buffer`, TIM2 interrupt, and the callers in `protocol.c` | `st_prep_buffer` is one action per access to the shared indices (`PrepCheck`, `PrepLoadBlock`/`PrepSameBlock`/`PrepRecalculate`, `PrepFill`, `PrepPublish`, `PrepFinish`, `PrepBail`); one interrupt is one action (it is not preempted by the main program). A block is a number of step events; how many a segment gets is free. |
| `StepStream` | what it promises | the machine is a counter of executed events of the program; it may only go up by a segment of the current block |
| `SerialTx` | `serial.c` 80-116 | `serial_write` split at each shared access; the read-modify-write of the register leaves TXEIE set whatever it read, so it is one step, as an update under a mask would be; `accepted`, `sent` and `overrun` are history variables |
| `LineReader` | `protocol.c` 72-166, `serial.c` 119-198, `main.c` 63-103 | `serial_read` in two steps; one action per character, per check point and per step of the restart; the host that counts characters is external |
| `Settings` | `eeprom.c`, `settings.c`, and their callers in `system.c`, `gcode.c`, `main.c` | a command leaves a list of writes; each write is a change of the cache, the erasure of the page, and one step per field programmed; power may fail between any two and inside an erasure or a field |
| `Overrides`, `MCOverrides` | `protocol.c` 407-455, `serial.c` 161-180, `gcode.c` 1112-1116 | the copy of the flags, their clearing and the arithmetic are steps of their own |
| `Realtime` | `protocol.c` 207-767, `motion_control.c`, `jog.c`, `limits.c`, `system.c` interrupts, `main.c` restart | one pass of the executor is alarm, snapshot, hold, start, wake, stop, prep; the suspend loop is one action per branch; the control pins' interrupt reads the flags in one step and stores them in another, with TIM2 in between; blocks and segments are counted |
| `Homing` | `limits.c` 157-375, `mc_homing_cycle`, the `$H` of `system.c`, TIM2 with its axis mask | one action per step of the polling loop (`Poll`, `Publish`, `Prep`, `Check`, `Stop`), so that TIM2 and the receive interrupt come between reading the switches, masking the axes and looking at the flags; positions are step events, a switch works, never closes or is always closed |
| `Planner` | `planner.c`, and `st_prep_buffer`'s use of it | main program only, one action per operation; squared speeds as integers, a length is the squared speed that can be gained over it, so the code's comparisons are exact; `slowed` is a history variable |
| `SegmentBufferProofs`, `SerialTxProofs`, `OverridesProofs`, `RealtimeProofs`, `LineReaderProofs`, `SettingsProofs`, `HomingProofs`, `PlannerProofs` | | theorems about the modules of these names; see "Proofs" |

`Realtime` and `SegmentBuffer` overlap on purpose: `Realtime` abstracts the ring to a count
(its `Prep` allows every filling that the detailed `st_prep_buffer` can produce), and
`SegmentBuffer` abstracts the executor to the few states that change what the ring does.
`Planner` gives the speeds that both leave out. `Homing` begins where `Realtime` has
accepted a line, with the planner empty, and has the executor's part in what follows the
cycle.

## Runs

| run | bounds | shows |
|---|---|---|
| `segment_buffer` | ring of 4, 4 blocks of up to 2 events, one hold, override, kill or cancel | types; `SegmentsIntact`: no segment or block data is overwritten while needed; `AllExecuted`; the refinement of `StepStream`; a hold completes |
| `serial_tx` | ring of 3, 6 bytes | `TxRunning`, `QueuedUnlessOverrun`; under fairness every accepted byte is sent and `serial_write` returns |
| `serial_tx_loss` (violation) | ring of 3, 6 bytes | the register update sets TXEIE on a ring the interrupt has just emptied; the interrupt overruns the head, and an accepted byte is overwritten before it is sent |
| `line_reader` | ring of 6, line of 1 character and terminator, 6 character classes, any number of characters and resets | the ring never fills, the line executed is the host's first unanswered line as a reference definition filters it, lines and resets are answered |
| `settings` | 2 work systems, G28, G30, 1 startup line, build info, 1 value, 3 commands and any number of resets, 2 power losses; first start on a new chip or on the page of another version | settings and coordinate system in use are the stored ones; a power loss outside a flush costs nothing; the page of another version is wiped unless a loss cuts the restore short |
| `overrides` | the code's numbers, 12 characters, 8-bit arithmetic | the feed override is what the commands say unless a decrease reaches below zero |
| `planner` | ring of 4, lengths 1 and 3, corners 1 and 4, feed override 1, 2 or 3, 4 lines, 2 requests | planned pointer in the ring; until an override is reduced, feasible entries, and the incremental plan as fast as a plan of the whole ring; the stepper's exit speed is the planned one; a plan after a hold starts at rest |
| `realtime` | 2 blocks, 2 segments, 3 requests of nine kinds | `StoppedWhenSaid`: a hold is complete, and the machine idle, only with the stepper off; `NoAutoResume`: no hold is resumed, or given up, unasked, outside of a restore; `SyncStops`: a synchronization returns at rest or in a hold; `JogCancelFlushes`: a cancelled jog leaves nothing queued; `SpindleStopEnds`: a spindle that an override has stopped turns again before any motion starts, unless a reset or a retract has taken over |
| `realtime_live` | 1 block, 1 segment, 2 requests | holds, jog cancels, resets and probe cycles come to their end |
| `realtime_resume` (violation) | 1 block, 1 segment, 5 requests | the restore after a safety door resumes a feed hold |
| `homing` | one locate cycle; seek 6, locate 15, pull-off 3, ring of 3 events, one interrupt per turn of the loop; axes 0 or 5 events before their switches; any request at any point | `HomedAtSwitch`: `$H` ends in IDLE only with every axis at its pull-off; `OvershootBounded`: no axis is driven further past its switch than the loop needs to see and lock it; `$H` ends |
| `homing_stop` (violation) | the same | a homing cycle that fails after a reset leaves the motors running |

### Why the bounds are enough

A ring needs one more slot than items in flight to show wrap-around together with full and empty:
3 for `SerialTx`, 4 for `SegmentBuffer` (then the block ring, one shorter, wraps at another
place), 4 for `Planner` (three blocks: one executed, one planned, one new). Lines of one character
overflow inside, before and after comments within the six characters. In `Settings` the second
power loss can hit the start that repairs what the first one tore, and three commands store,
select and restore in any order before and between them. In `Realtime` two requests can fall into
one pass or follow each other, and the third meets what they left behind; more blocks only repeat
`Prep`. Every property of the run is proved for any number of requests (see "Proofs"): the bound
cannot hide a longer sequence that breaks one. `realtime_live` was also made with three requests,
and with five: hold, door and jog cancel for jogs and probes; hold, door and cycle start for
lines; hold, jog cancel and cycle start for jogs; all with the same result. In `Homing` the seek
is longer than the ring, so that the loop has to refill it; from 5 events before the switch an
axis reaches it in the last event of the seek, from 0 at once, and the axes of the second cycle
are locked at different times; `OvershootBounded` is proved for every size. The planner run was
also made with rates {1, 2}, with the same result; its invariants are proved for every ring, line,
rate and number of requests.

### Fairness

The main program runs when no interrupt does, and never stops by itself: weak fairness of
its steps. The timers and the USART raise their interrupts in bounded time, and an interrupt
that has begun ends: weak fairness of the interrupts. Three things need
strong fairness. That cutting a block comes to its end (`PrepEndsBlock`, `PrepEndsHold` in
`Realtime`) and that a restore delay ends although the operator may go on interrupting it
(`RestoreDone`): the data that decides them is abstracted. And in `SegmentBuffer` every pass
of the executor looks at the cycle-stop flag, while there the steps of a pass are left free
(`CycleStop`). No fairness is assumed of the operator
or the host. `LineReader` assumes that a line's execution ends, that is, that no one leaves
the machine on hold for ever. `Homing` also bounds the interrupts in one turn of the polling
loop by `Lag`, with twice that below what the ring holds: the loop's own assumption
(limits.c: "no longer than 200us").

## Disagreements found

Three runs refute what the documentation or a comment says; `PROJECT.json` quotes them.

- `NoByteLost` (`serial.c:96`): README.md:85 lists the lost `ok` responses as solved by a mask
  around the register update. There is none in the code, and it would not be enough: between
  the advance of the head (line 93) and the update (line 96) the interrupt can take the last
  byte and clear TXEIE, and the update, masked or not, sets it again on an empty ring. The
  interrupt's tail then passes the head; bytes of the last round are sent again, and a byte
  stored meanwhile lies in a slot that counts as free and is overwritten before it is sent.
- `HoldsForUser` (`protocol.c:716`): a feed hold in the pass that should end a door's restore
  makes the restore run twice; a cycle start in the second one begins the cycle early, a feed
  hold stops it, and the end of the restore resumes that hold by itself, which the guard at
  `protocol.c:334-336` is there to exclude.
- `MotorsStopped` (`limits.c:332`): after a reset that came before the motion of the phase was
  started, in the debounce delay for one, `mc_reset()` does nothing a second time and the
  motors run on into the alarm.

### Comments that TLC refutes without a run

The runs above are one for each kind of disagreement. The formulas below are refuted by the same
modules and are kept here only: each was checked as the only property, with the bounds given.

- `Realtime`, `[][SyncDone => ~tim2]_vars` (requests {"FEED_HOLD"}, commands {"line", "sync"}, 1 of
  everything). `protocol.c:169` says that the synchronization waits for the steps, works with a
  feed hold and waits for a clean end. With a hold that comes when the last block has been cut,
  the planner is empty and the state HOLD, and `protocol.c:178` returns while the stepper still
  moves.
- `Realtime`, `[][pc = "hold" /\ "SAFETY_DOOR" \in flags => "SAFETY_DOOR" \in rt_exec \cup
  flags']_vars` (feed hold and door, 2 requests). `protocol.c:293` says that the door stops
  "everything no matter state"; `protocol.c:329` clears all the hold flags, with a door, hold or
  sleep that was raised since the snapshot (line 242).
- `Realtime`, `HoldCompletes` under `FairSpec` with requests {"PIN_FEED_HOLD"}. `system.c:62` says
  that pins work exactly as the characters do. The characters' flags are set under a mask
  (`system.c:356`), the pins' interrupt stores flags that it has read before TIM2 set
  `EXEC_CYCLE_STOP` (`system.c:72`): the stop is lost, and the hold never completes.
- `Overrides`, that a pass which is given only decreases makes no override larger (the bounds of
  the run). config.h:238-240 calls them minimum, maximum and decrements; at the minimum of 10 a
  coarse and a fine decrease in one pass give 10 - 10 - 1 = 255, limited to 200
  (`protocol.c:415-419`).
- `Planner`, `hold # "decelerating" => \A k \in 1 .. Count - 1 : CanSlowDown(k)` (ring of 5,
  lengths 1 and 8, corners of 4, rates 1 and 3, the override halved, 4 lines). `planner.c:75` says
  that no entry speed exceeds the one computed from its exit speed. The reverse pass leaves an
  entry speed alone that is at its maximum (`planner.c:158`); a corner's maximum does not change
  with the override, and when a reduced override makes what follows slower, the entry stays
  faster than the block can be left. `Feasible` and `PlanOptimal` are therefore about the time
  until an override is reduced with blocks planned, which `slowed` remembers until the reset.
- `Settings`, `Wiped` without `~cut` (the bounds of the run). config.h:505-507 says that a change
  of version wipes the page. Version and settings are written first (`settings.c:107`), so that
  after a power loss in the restore the next start finds nothing to do, and the rest of the old
  page is in use.

### Behaviours of the models without a run

Met while modelling; each follows from the actions of the module named, and is left without
a property because the code promises nothing else or because a run above is of its kind.

- `SegmentBuffer`: when the ring runs dry while the last block is being cut, its remaining
  segments are published after the timer has stopped; planner empty, machine IDLE, nothing
  starts them (`protocol.c:182-193`).
- `Realtime`, alarm: a cycle stop in the pass after a probe alarm makes IDLE of ALARM without
  an unlock (`protocol.c:400`); so does one that TIM2 raises between the clearing of the
  flags (`main.c:79`) and `st_reset()`. A limit alarm raised between the alarm check and the
  snapshot of the reset is forgotten by `main.c:79`.
- `Realtime`, synchronization: `protocol_buffer_synchronize` raises the automatic start once,
  before its loop (`protocol.c:174`): a ring that runs dry in the loop leaves it waiting, and
  afterwards it can return with a segment left over (`protocol.c:178`).
- `Realtime`, holds: a jog cancel handled after the jog has ended suspends the
  idle machine (`protocol.c:283`); `mc_line` plans a jog that was cancelled while it waited for
  room; `SUSPEND_RESTORE_COMPLETE` left by an early cycle start lets a later door resume without
  the spindle (`protocol.c:339`), and a feed hold after it resumes without it as well:
  `SpindleStopEnds` is about the spindle stop override, not about the retract of a door.
- `Realtime`, probe: a probe cycle can leave `STEP_CONTROL_END_MOTION` set, so that the next jog
  wakes the stepper with no segment (`jog.c:44`), and with an operator's cycle start at its
  end leaves CYCLE with the timer off (`motion_control.c:304`). The cycle starts and stops the
  stepper by itself, so that what is said of holds and idleness fails with it: the runs
  `realtime` and the theorems are without probing, `realtime_live` is with it.
- `Homing`: a cycle stop that TIM2 raises between the loop's test and `st_reset()` stays
  pending and is taken by the next pull-off for its end (`limits.c:325`): a spurious alarm,
  and no wrong position as long as the searches that follow are long enough
  (`LocateReaches`). A feed hold pending at the end is dropped; a safety door pending after
  the last test suspends the program with no hold completed, until a reset.
- `Overrides`: commands between the copy and the clearing of the flags are lost
  (`protocol.c:408-410`).
- `Planner`: "Guaranteed to intersect updated plan" (`stepper.c:800`) fails after an override
  reduction that also lowers the entry of the next block: the deceleration point lies after
  the acceleration point. Replanning an empty ring walks its stale slots and leaves the
  planned pointer outside of the ring (`planner.c:520`, against 110), which the next line puts
  right.
- `LineReader` assumes that the receive interrupt comes before the next character. README.md:84
  says that USART1_RX was moved to DMA, so that nothing is lost to interrupts of a higher
  priority; `serial.c:72` enables the receive interrupt, `serial.c:74` gives it the lowest
  priority, and the stepper interrupt that ends a motion waits in `st_go_idle()`
  (`stepper.c:257`) for longer than a character takes. A line is then executed without the
  characters that were lost; a lost end of line costs its answer. A reset by pin or limit
  switch while the host sends, and a second reset before the first one's welcome, cut the line
  that is under way; the run has neither.
- `Settings`: M2 in check mode selects G54 without loading it (`gcode.c:1119`). `$N2=` and up,
  which no line of the code refuses (`system.c:265`), write over the build info; the run stores
  only lines that exist. The page's address (`eeprom.c:12`) is the last page of 128 KB, its
  comment names a chip of 64 KB: the model takes the page to be there.
- README.md:43-48 asks for TIM3 (pulse end) above TIM2 (step); `stm32_hal.c:207` and 218 set them
  the other way round, so that a pulse is prolonged while TIM2 loads a segment.

## Proofs

Every safety property of the runs that pass, invariant or action property, is proved as a
theorem. The theorems hold for every size of the rings, lines, pages and distances and for every
bound, from the `ASSUME`s of the modules, which are what the code's integer types and array sizes
need; those of `RealtimeProofs` and `HomedInPlace` that assume more say so. Every component's
argument is an inductive invariant (`IInv`; `PlanInv` for the planner) and a lemma for each
action, or for each conjunct, that it is preserved.

- **`SegmentBufferProofs`.** `IInv` is the conjunction of `TypeOK`, `PrepInv` (what
  `st_prep_buffer` knows at each of its points), `RingInv` (what every segment between tail
  and head says of its block and of how many events precede it) and `ExecInv` (the same for
  the segment in execution). `SegmentsIntact` is not inductive alone: that block data is not
  overwritten follows from the segments in the ring being consecutive and their blocks
  distinct neighbours, and so fewer than the ring has slots. One lemma per action gives
  `Invariance`; `TypeCorrect`, `SegmentsStayIntact`, `NothingIsLost` follow, and `Implements`
  shows every step to be a step of `StepStream` or a stutter.
- **`SerialTxProofs`.** `IInv` adds to the types what the writer knows at each point
  (`WriterInv`): the byte in hand is newer than all on the ring, the slot it goes to is not in the
  interrupt's reach, and until an overrun nothing is sent that was not accepted. `NeverStuck` and
  `LostOnlyAfterOverrun` follow.
- **`OverridesProofs`.** Each new value is bounded whatever the flags are (`WithinAlways`);
  when there is room below, the 8-bit result is the integer one (`CommandsFollowed`).
- **`RealtimeProofs`.** `TypeCorrect` holds with every command; `Stopped`, `NeverResumed`,
  `Synchronized`, `CancelFlushes` and `StopEnds` assume that no probing cycle is run
  (`"probe" \notin Commands`). `StoppedWhenSaid` is not
  inductive: the executor takes `EXEC_CYCLE_STOP` for the end of a hold, and the flag may be
  older than the motion. `IInv` says that a cycle stop which is pending while the machine
  stands, in the flags or in the copy of the pins' interrupt, finds the planner empty, so that
  nothing starts before the pass that consumes it, and that the pass under way has it in its
  own copy, unless a reset is certain to come first (`Doomed`). For `NoAutoResume`
  the invariant is about quiet holds, which were requested and taken with no cycle start since:
  such a hold is in effect, and every automatic start still to come finds it not complete, or
  the door ajar. `SyncStops` follows from what `IInv` says at the synchronization's last test,
  `JogCancelFlushes` from the flag belonging to the state JOG. For `SpindleStopEnds` the
  invariant `Spins` says where a spindle stop can be: in a feed hold, in a door that is about to
  retract, or left over, and not in force, from the hold of a soft limit; in force it is only
  while the hold is complete and no cycle stop can end it.
- **`LineReaderProofs`.** What ring and data register hold is the end of the host's books, and
  what precedes it there has been taken off the ring and holds an end of line only when that
  line is in hand. So the ring never fills for a host that counts characters (`AlwaysRoom`),
  and a line is executed when exactly the host's first unanswered line has been taken
  (`OneLineAtATime`). That the line then executed is that line's text (`Intact`) is about what
  the recursive functions `Comment` and `Text` give for the characters taken so far: each
  character read extends the prefix by one, and the functions by one step.
- **`SettingsProofs`.** What is in use and what is stored disagree while writes are due, so
  `UsesStored` is strengthened to what the page will hold when they are done: a field is owed a
  value if it has it and no write to it is due, or if every write to it that is due writes that
  value (`InUse`). `Keeps` says that what a power loss left whole is never among the writes that
  are due, `Wipes` that whatever another version has left is. `StoredInUse`, `LossesSurvived`
  and `WipedAlways` follow at the points where a command is taken.
- **`HomingProofs`.** An axis' position counts with the step already due to it (`Due`): one that
  is not locked is never further past its switch than the interrupts since the switches were read;
  one that is locked in the loop's own copy only takes those until the copy is published. Together
  with where each approach begins this bounds the overshoot by two turns of the loop
  (`Overshoot`). `HomedInPlace` (`HomedAtSwitch`) assumes `LocateReaches`: the search that follows
  a pull-off is longer than the pull-off by those two turns. The code searches five times as far
  as it pulls off and asks only for more than once (limits.c:30). The assumption is exact: with a
  pull-off of 7 events, 2 interrupts per turn and a ring of 5, TLC finds `HomedAtSwitch` to hold
  for a search of 11 events and violated for 10: the search then ends in the turn that locks the
  axis, its end stays pending, and the last pull-off is taken for finished when it has hardly
  begun. The invariant counts the events of each motion (`Given`), and says where the axes are
  that have taken all of them and where those are that the loop has locked (`Placed`, `InTime`,
  `NoneLeft`).
- **`PlannerProofs`.** `Feasible` and `PlanOptimal` are not inductive: what keeps a plan optimal
  is that every entry speed is bound by something (`TightPlan`: its maximum, the block before or
  the way to the end), and what allows to begin at the stop-compute pointer is that the speed
  there is bound from before or at its maximum (`FixedAt`). `PlanInv` says this of the blocks
  from the tail to the last, as a line freed from the ring, with the speed the stepper is at for
  the first one, and what the stepper knows of that block (`Stepper`). The passes are shown to
  plan such a line anew from the pointer (`PlanSound`, `PlanAgain`); adding a line, cutting the
  first block, discarding it, coming to rest and raising the override each keep it (`LineExtended`,
  `LineCut`, `LineShortened`, `LineAtRest`, `LineOverridden`). `TightIsBest` then compares it with
  a plan made of the whole ring: a speed that is bound neither by its maximum nor by the block
  before is bound by the way to the end, through blocks that are bound in the same way, for two
  blocks that bound each other both ways would have no length.

The recursive functions of `LineReader` and `Planner` need induction. The library's theorem for
it takes an operator as a parameter, which the provers cannot instantiate; `Induction` states it
for a set, from the well-foundedness of < on the numbers, and `RecursionUpTo` shows with it that
a function defined by steps exists up to any number.

Obligations of tlapm 1.4.5 in which `Len` meets functions that are not sequences can be
inconsistent, and prove anything. The ones that mention `Len` or `Seq`, in `LineReaderProofs` and
`SettingsProofs`, have been looked through for this; none has such a function in it. The other
modules use no sequences.

Only model-checked: all liveness, for the prover has no rule for fairness and `ENABLED`. The
violations are TLC's too.

## Not modelled

The Bresenham division of events among the axes, AMASS, pulse timing (TIM3), spindle PWM,
parking, backlash, arcs, coolant overrides, laser mode, what startup lines
do, dwell, the meaning of single settings, the parser's error checks, junction geometry:
arithmetic and single-threaded code, where a model would repeat the source without an
interleaving or a failure to show. The scheduler, encoder, display and console share no state
with the motion system. The rest of the tree is vendor code (HAL, CMSIS, USB, in two copies)
and makes up most of its lines. Compile-time options are as in `config.h`: `VARIABLE_SPINDLE`,
`HOMING_INIT_LOCK`, `CHECK_LIMITS_AT_INIT`, `FORCE_BUFFER_SYNC_*` and
`RESTORE_OVERRIDES_AFTER_PROGRAM_END` on; `PARKING_ENABLE`, `ENABLE_M7`, `COREXY` and
`DUAL_AXIS` off.

## Plan

Done, in the order of their importance: `SegmentBuffer`, `SerialTx`, `Overrides`, `Realtime`,
`Planner`, `LineReader`, `Settings`, `Homing`, and proofs of the safety properties of all of
them.

What would come next:

1. A composition of `Planner` and `SegmentBuffer`: the entry speed of a block after the ring
   ran dry (`stepper.c:590`).
2. `StepPulse`: TIM3 against TIM2 with the priorities of `stm32_hal.c`.
3. The modal groups and the program flow of `gc_execute_line`.
