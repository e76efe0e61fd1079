----------------------------- MODULE StepStream -----------------------------
(***************************************************************************)
(* What the stepper driver promises to the planner: the step events of the *)
(* planned blocks come out one by one, in program order, none lost and     *)
(* none repeated.  An event is named by the block it belongs to and by its *)
(* number inside the block.  A machine reset or a jog cancel may drop      *)
(* events that have not been executed, and nothing else may.               *)
(***************************************************************************)
EXTENDS Integers

CONSTANTS
  MaxBlocks,   \* how many blocks are ever planned
  MaxEvents    \* the largest step_event_count of a block

VARIABLES
  events,      \* events[b]: step_event_count of the b-th planned block
  block,       \* the block of the last event executed, 0 before the first
  number       \* the number of that event within its block

vars == <<events, block, number>>

Init == /\ events \in [1..MaxBlocks -> 1..MaxEvents]
        /\ block = 0
        /\ number = 0

\* The events of a block, 0 for the imaginary block 0 that precedes them all.
EventsOf(b) == IF b = 0 THEN 0 ELSE events[b]

NextEvent == /\ number < EventsOf(block)
             /\ number' = number + 1
             /\ UNCHANGED <<events, block>>

NextBlock == /\ number = EventsOf(block)
             /\ block < MaxBlocks
             /\ block' = block + 1
             /\ number' = 1
             /\ UNCHANGED events

\* Buffered motion is thrown away: whatever follows starts at a new block.
Flush == /\ block' \in block..MaxBlocks
         /\ number' = EventsOf(block')
         /\ UNCHANGED events

Next == NextEvent \/ NextBlock \/ Flush

Spec == Init /\ [][Next]_vars
=============================================================================
