------------------------ MODULE SegmentBufferProofs ------------------------
(***************************************************************************)
(* Proofs about SegmentBuffer for every ring size, program and number of   *)
(* requests: IInv is inductive; SegmentsIntact and AllExecuted follow from *)
(* it, and the steps the interrupt executes implement StepStream.          *)
(***************************************************************************)
EXTENDS SegmentBuffer, TLAPS

-----------------------------------------------------------------------------
(* Arithmetic of the two rings. *)

\* step_count--, a uint16_t, is a plain subtraction: no segment has zero steps.
LEMMA CountDown ==
  ASSUME NEW n \in Int, n >= 1, n <= 65535
  PROVE  (n + 65535) % 65536 = n - 1
  BY SMT

\* Going one slot further along the st_block ring adds one to every distance.
LEMMA BackNext ==
  ASSUME NEW p \in StIndices, NEW k \in 0 .. SEGMENT_BUFFER_SIZE - 2
  PROVE  /\ NextBlockIndex(p) \in StIndices
         /\ Back(NextBlockIndex(p), k + 1) = Back(p, k)
  BY SizesAssumption DEF StIndices, Back, NextBlockIndex

\* Within one turn of the ring a position names one distance.
LEMMA BackDistinct ==
  ASSUME NEW p \in StIndices, NEW k \in 0 .. SEGMENT_BUFFER_SIZE - 1
  PROVE  /\ Back(p, k) \in StIndices
         /\ k \in 1 .. SEGMENT_BUFFER_SIZE - 1 => Back(p, k - 1) # Back(p, k)
         /\ k \in 1 .. SEGMENT_BUFFER_SIZE - 2 => Back(p, k) # p
         /\ Back(p, 0) = p
  BY SizesAssumption DEF StIndices, Back

\* How the distances of the ring change when the head or the tail moves on.
LEMMA HeadMoves ==
  ASSUME head \in Slots, tail \in Slots, tail # NextSlot(head),
         NEW i \in Slots, UNCHANGED tail, head' = NextSlot(head)
  PROVE  /\ Queued < SEGMENT_BUFFER_SIZE - 1
         /\ Queued' = Queued + 1
         /\ Distance(i)' = Distance(i)
         /\ InRing(i)' <=> (InRing(i) \/ i = head)
         /\ InRing(i) => NextSlot(i) # head'
         /\ NextSlot(head) # head /\ ~InRing(head) /\ Distance(head) = Queued
  BY SizesAssumption DEF Slots, NextSlot, Queued, Distance, InRing

LEMMA TailMoves ==
  ASSUME head \in Slots, tail \in Slots, head # tail,
         NEW i \in Slots, UNCHANGED head, tail' = NextSlot(tail)
  PROVE  /\ Queued' = Queued - 1
         /\ InRing(i)' => InRing(i) /\ Distance(i)' = Distance(i) - 1
         /\ InRing(i)' => i # tail
  BY SizesAssumption DEF Slots, NextSlot, Queued, Distance, InRing

\* A free slot is left exactly when the tail is not the next head.
LEMMA RoomLeft ==
  ASSUME head \in Slots, tail \in Slots
  PROVE  /\ tail # NextSlot(head) <=> Queued < SEGMENT_BUFFER_SIZE - 1
         /\ Queued \in 0 .. SEGMENT_BUFFER_SIZE - 1
         /\ ~InRing(head)
         /\ head # tail => InRing(tail) /\ Distance(tail) = 0
         /\ \A i \in Slots : Distance(i) \in 0 .. SEGMENT_BUFFER_SIZE - 1
         /\ NextSlot(tail) \in Slots /\ NextSlot(head) \in Slots
  BY SizesAssumption DEF Slots, NextSlot, Queued, Distance, InRing

-----------------------------------------------------------------------------
(* The initial state, and steps that leave the queued segments alone. *)

LEMMA InitInv == Init => IInv
  <1> SUFFICES ASSUME Init PROVE IInv
    OBVIOUS
  <1>1. TypeOK
    <2>1. 0 \in StIndices /\ 0 \in Slots /\ 1 \in Slots /\ 0 \in Blocks
          /\ 0 \in 0..MaxEvents /\ 0 \in 0..MaxRequests
      BY SizesAssumption DEF Slots, StIndices, Blocks
    <2>2. NoSegment \in Segments
      BY <2>1 DEF NoSegment, Segments
    <2>3. /\ segment = [i \in Slots |-> NoSegment]
          /\ st_block = [i \in StIndices |-> 0]
          /\ head = 0 /\ next_head = 1 /\ tail = 0
      BY DEF Init
    <2>4. RingTypeOK
      BY <2>1, <2>2, <2>3 DEF RingTypeOK
    <2>5. PlannerTypeOK
      BY <2>1 DEF Init, PlannerTypeOK
    <2>6. PrepTypeOK
      <3>1. /\ pc = "idle"
            /\ pl_block = FALSE /\ recalculate = FALSE
            /\ prep_index = 0 /\ remaining = 0 /\ complete = 0
            /\ cut = [n |-> 0, last |-> FALSE]
        BY DEF Init, NoCut
      <3> QED
        BY <2>1, <3>1 DEF PrepTypeOK
    <2>7. ProtoTypeOK
      <3>1. /\ state = "IDLE" /\ hold_complete = FALSE /\ step_control = {}
            /\ killed = FALSE /\ requests = 0 /\ wake = FALSE
        BY DEF Init
      <3> QED
        BY <2>1, <3>1 DEF ProtoTypeOK
    <2>8. IsrTypeOK
      <3>1. /\ tim2 = FALSE /\ cycle_stop = FALSE
            /\ executing = FALSE /\ exec_index = 0 /\ step_count = 0
            /\ out = [block |-> 0, number |-> 0]
        BY DEF Init
      <3> QED
        BY <2>1, <3>1 DEF IsrTypeOK
    <2> QED
      BY <2>4, <2>5, <2>6, <2>7, <2>8 DEF TypeOK
  <1>2. Queued = 0 /\ \A i \in Slots : ~InRing(i)
    BY SizesAssumption DEF Init, Slots, Queued, Distance, InRing
  <1>3. ~HasLoaded /\ Loaded = 0 /\ Published = 0
    BY DEF Init, HasLoaded, Loaded, Published, EventsOf
  <1>4. PrepInv
    BY SizesAssumption, <1>2, <1>3 DEF Init, PrepInv, Unpublished, HasLoaded, NextSlot
  <1>5. RingInv
    BY <1>2 DEF RingInv
  <1>6. ExecInv
    <2>1. ~executing /\ head = 0 /\ tail = 0
      BY DEF Init
    <2>2. /\ out.block = 0 /\ out.number = 0
          /\ exec_index = 0 /\ prep_index = 0
      BY DEF Init
    <2> QED
      BY SizesAssumption, <1>3, <2>1, <2>2 DEF ExecInv, Joins, EventsOf, Back
  <1> QED
    BY <1>1, <1>4, <1>5, <1>6 DEF IInv

\* What the ring and execution invariants read, besides the slot at the head.
frame == <<events, prep_index, st_block, head, tail, executing, exec_index,
           step_count, out, Loaded, Published, Unpublished>>

LEMMA FramePreserves ==
  ASSUME TypeOK, RingInv, ExecInv, UNCHANGED frame,
         \A i \in Slots : i # head => segment'[i] = segment[i]
  PROVE  RingInv' /\ ExecInv'
  <1>1. \A i \in Slots : InRing(i)' <=> InRing(i)
    BY DEF frame, InRing, Distance, Queued
  <1>2. \A i \in Slots : InRing(i) => i # head /\ segment'[i] = segment[i]
    BY RoomLeft DEF TypeOK, RingTypeOK
  <1>3. head # tail => segment'[tail] = segment[tail]
    BY DEF TypeOK, RingTypeOK
  <1>4. \A i \in Slots : InRing(i) /\ NextSlot(i) # head =>
          segment'[NextSlot(i)] = segment[NextSlot(i)]
    BY SizesAssumption DEF Slots, NextSlot
  <1>5. RingInv'
    BY <1>1, <1>2, <1>4 DEF RingInv, SegmentInv, Follows, frame, Distance, Queued, SegmentEnd, Joins,
       EventsOf, Back, NextSlot
  <1>6. ExecInv'
    BY <1>3 DEF ExecInv, frame, SegmentEnd, Joins, EventsOf, Back
  <1> QED
    BY <1>5, <1>6

\* Moves of the main program while st_prep_buffer is not running: the block may
\* be taken away from the generator, but not what it has cut.
LEMMA OutsidePrepPreserves ==
  ASSUME IInv, TypeOK', UpdatePlanBlock \/ UNCHANGED prepVars,
         UNCHANGED <<ringVars, executing, exec_index, step_count, out>>,
         UNCHANGED <<events, current>>, planned' >= planned,
         pc = "idle", pc' \in {"idle", "check"}
  PROVE  IInv'
  <1>1. /\ UNCHANGED <<prep_index, remaining, complete, cut>>
        /\ HasLoaded' = HasLoaded
        /\ ~(pl_block' /\ recalculate')
    BY DEF IInv, PrepInv, TypeOK, PlannerTypeOK, PrepTypeOK, UpdatePlanBlock, prepVars, HasLoaded
  <1>2. Loaded' = Loaded /\ Published' = Published /\ Unpublished' = Unpublished
    BY <1>1 DEF Loaded, Published, Unpublished, Rest, EventsOf
  <1>3. UNCHANGED frame
    BY <1>1, <1>2 DEF frame, ringVars
  <1>4. Queued' = Queued
    BY DEF Queued, Distance, ringVars
  <1>5. HasLoaded' => current' <= planned' /\ remaining' > 0
                      /\ remaining' <= events'[current']
                      /\ st_block'[prep_index'] = current'
    BY <1>1 DEF IInv, PrepInv, TypeOK, PlannerTypeOK, PrepTypeOK, Blocks, ringVars
  <1>6. PrepInv'
    BY <1>1, <1>2, <1>4, <1>5 DEF IInv, PrepInv, ringVars, NextSlot
  <1> QED
    BY <1>3, <1>6, FramePreserves DEF IInv, ringVars

-----------------------------------------------------------------------------
(* The main program outside st_prep_buffer. *)

LEMMA TypesUnchanged ==
  /\ PlannerTypeOK /\ UNCHANGED plannerVars => PlannerTypeOK'
  /\ PrepTypeOK /\ UNCHANGED <<pc, prepVars>> => PrepTypeOK'
  /\ ProtoTypeOK /\ UNCHANGED protoVars => ProtoTypeOK'
  /\ RingTypeOK /\ UNCHANGED ringVars => RingTypeOK'
  /\ IsrTypeOK /\ UNCHANGED isrVars => IsrTypeOK'
  BY DEF PlannerTypeOK, PrepTypeOK, ProtoTypeOK, RingTypeOK, IsrTypeOK,
         plannerVars, prepVars, protoVars, ringVars, isrVars

LEMMA UpdateTypes == PrepTypeOK /\ UpdatePlanBlock /\ UNCHANGED pc => PrepTypeOK'
  BY DEF PrepTypeOK, UpdatePlanBlock

LEMMA PlanLineInv == IInv /\ PlanLine => IInv'
  <1> SUFFICES ASSUME IInv, PlanLine PROVE IInv'
    OBVIOUS
  <1>1. PlannerTypeOK'
    BY SizesAssumption DEF IInv, TypeOK, PlannerTypeOK, PlanLine, Blocks
  <1>2. PrepTypeOK'
    BY UpdateTypes, TypesUnchanged DEF IInv, TypeOK, PlanLine
  <1>3. TypeOK'
    BY <1>1, <1>2, TypesUnchanged DEF IInv, TypeOK, PlanLine
  <1>4. planned' >= planned
    BY DEF IInv, TypeOK, PlannerTypeOK, PlanLine, Blocks
  <1> QED
    BY <1>3, <1>4, OutsidePrepPreserves DEF PlanLine, isrVars

LEMMA CycleStartInv == IInv /\ CycleStart => IInv'
  <1> SUFFICES ASSUME IInv, CycleStart PROVE IInv'
    OBVIOUS
  <1>1. PrepTypeOK'
    BY DEF IInv, TypeOK, PrepTypeOK, CycleStart, Running, prepVars
  <1>2. ProtoTypeOK'
    BY DEF IInv, TypeOK, ProtoTypeOK, CycleStart
  <1>3. TypeOK'
    BY <1>1, <1>2, TypesUnchanged DEF IInv, TypeOK, CycleStart
  <1>4. planned' >= planned
    BY DEF IInv, TypeOK, PlannerTypeOK, CycleStart, plannerVars, Blocks
  <1> QED
    BY <1>3, <1>4, OutsidePrepPreserves DEF CycleStart, Running, plannerVars, isrVars

LEMMA CallPrepInv == IInv /\ CallPrep => IInv'
  <1> SUFFICES ASSUME IInv, CallPrep PROVE IInv'
    OBVIOUS
  <1>1. PrepTypeOK'
    BY DEF IInv, TypeOK, PrepTypeOK, CallPrep, prepVars
  <1>2. TypeOK'
    BY <1>1, TypesUnchanged DEF IInv, TypeOK, CallPrep
  <1>3. planned' >= planned
    BY DEF IInv, TypeOK, PlannerTypeOK, CallPrep, plannerVars, Blocks
  <1> QED
    BY <1>2, <1>3, OutsidePrepPreserves DEF CallPrep, Running, plannerVars, isrVars

LEMMA FeedHoldInv == IInv /\ FeedHold => IInv'
  <1> SUFFICES ASSUME IInv, FeedHold PROVE IInv'
    OBVIOUS
  <1>1. ProtoTypeOK'
    BY SizesAssumption DEF IInv, TypeOK, ProtoTypeOK, FeedHold, ControlFlags
  <1>2. PrepTypeOK'
    BY UpdateTypes DEF IInv, TypeOK, FeedHold
  <1>3. TypeOK'
    BY <1>1, <1>2, TypesUnchanged DEF IInv, TypeOK, FeedHold
  <1>4. planned' >= planned
    BY DEF IInv, TypeOK, PlannerTypeOK, FeedHold, plannerVars, Blocks
  <1> QED
    BY <1>3, <1>4, OutsidePrepPreserves DEF FeedHold, Running, plannerVars, isrVars

LEMMA OverrideInv == IInv /\ Override => IInv'
  <1> SUFFICES ASSUME IInv, Override PROVE IInv'
    OBVIOUS
  <1>1. ProtoTypeOK'
    BY SizesAssumption DEF IInv, TypeOK, ProtoTypeOK, Override
  <1>2. PrepTypeOK'
    BY UpdateTypes DEF IInv, TypeOK, Override
  <1>3. TypeOK'
    BY <1>1, <1>2, TypesUnchanged DEF IInv, TypeOK, Override
  <1>4. planned' >= planned
    BY DEF IInv, TypeOK, PlannerTypeOK, Override, plannerVars, Blocks
  <1> QED
    BY <1>3, <1>4, OutsidePrepPreserves DEF Override, Running, plannerVars, isrVars

LEMMA CycleStopInv == IInv /\ CycleStop => IInv'
  <1> SUFFICES ASSUME IInv, CycleStop PROVE IInv'
    OBVIOUS
  <1>1. ProtoTypeOK'
    BY DEF IInv, TypeOK, ProtoTypeOK, CycleStop
  <1>2. PrepTypeOK'
    BY UpdateTypes, TypesUnchanged DEF IInv, TypeOK, CycleStop
  <1>3. IsrTypeOK'
    BY DEF IInv, TypeOK, IsrTypeOK, CycleStop
  <1>4. TypeOK'
    BY <1>1, <1>2, <1>3, TypesUnchanged DEF IInv, TypeOK, CycleStop
  <1>5. planned' >= planned
    BY DEF IInv, TypeOK, PlannerTypeOK, CycleStop, plannerVars, Blocks
  <1> QED
    BY <1>4, <1>5, OutsidePrepPreserves DEF CycleStop, Running, plannerVars

LEMMA ResetInv == IInv /\ Reset => IInv'
  <1> SUFFICES ASSUME IInv, Reset PROVE IInv'
    OBVIOUS
  <1>1. 0 \in StIndices /\ 0 \in Slots /\ 1 \in Slots
        /\ 0 \in 0..MaxEvents /\ EventsOf(planned) \in 0..MaxEvents
    BY SizesAssumption DEF StIndices, Slots, EventsOf, IInv, TypeOK, PlannerTypeOK,
       Blocks
  <1>2. TypeOK'
    <2>1. PlannerTypeOK'
      BY DEF IInv, TypeOK, PlannerTypeOK, Blocks, Reset
    <2>2. PrepTypeOK'
      <3>1. /\ pl_block' \in BOOLEAN /\ recalculate' \in BOOLEAN
            /\ NoCut \in [n : 0..MaxEvents, last : BOOLEAN]
        BY <1>1 DEF Reset, NoCut
      <3> QED
        BY <1>1, <3>1 DEF IInv, TypeOK, PrepTypeOK, Reset
    <2>3. ProtoTypeOK'
      BY DEF IInv, TypeOK, ProtoTypeOK, Reset
    <2>4. RingTypeOK'
      BY <1>1 DEF IInv, TypeOK, RingTypeOK, Reset
    <2>5. IsrTypeOK'
      <3>1. tim2' \in BOOLEAN /\ cycle_stop' \in BOOLEAN /\ executing' \in BOOLEAN
        BY DEF Reset
      <3>2. out' \in [block : Blocks, number : 0..MaxEvents]
        BY <1>1 DEF Reset, IInv, TypeOK, PlannerTypeOK
      <3> QED
        BY <1>1, <3>1, <3>2 DEF IsrTypeOK, Reset
    <2> QED
      BY <2>1, <2>2, <2>3, <2>4, <2>5 DEF TypeOK
  <1>3. ~pl_block' /\ ~recalculate' /\ ~executing'
    BY DEF Reset
  <1>4. /\ ~HasLoaded' /\ Loaded' = planned
        /\ Published' = EventsOf(planned) /\ ~Unpublished'
    BY <1>3 DEF HasLoaded, Loaded, Published, Unpublished, EventsOf, Reset, IInv,
       TypeOK, PlannerTypeOK, Blocks
  <1>5. head' = 0 /\ next_head' = 1 /\ tail' = 0 /\ Queued' = 0
    BY DEF Reset, Queued, Distance
  <1>6. \A i \in Slots : ~InRing(i)'
    BY <1>5, SizesAssumption DEF InRing, Distance, Slots
  <1>7. PrepInv'
    <2>1. next_head' = NextSlot(head)' /\ pc' = "idle" /\ complete' <= remaining'
      BY <1>5, SizesAssumption DEF NextSlot, Reset
    <2> QED
      BY <1>3, <1>4, <2>1 DEF PrepInv
  <1>8. RingInv'
    BY <1>6 DEF RingInv
  <1>9. ExecInv'
    <2>1. /\ out'.block = planned /\ out'.number = EventsOf(planned)
          /\ EventsOf(out.block)' = EventsOf(planned)
          /\ exec_index' = 0 /\ prep_index' = 0
      BY DEF Reset, EventsOf
    <2>2. planned \in Nat /\ EventsOf(planned) \in Nat
      BY <1>1, SizesAssumption DEF IInv, TypeOK, PlannerTypeOK, Blocks
    <2>3. Back(prep_index, Loaded - out.block)' = 0 /\ (Loaded - out.block)' = 0
      BY <1>4, <2>1, <2>2, SizesAssumption DEF Back
    <2>4. Joins(out.block, out.number, Loaded, Published)'
      BY <1>4, <2>1 DEF Joins
    <2> QED
      BY <1>3, <1>4, <1>5, <2>1, <2>2, <2>3, <2>4, SizesAssumption DEF ExecInv
  <1> QED
    BY <1>2, <1>7, <1>8, <1>9 DEF IInv

LEMMA KillInv == IInv /\ Kill => IInv'
  <1> SUFFICES ASSUME IInv, Kill PROVE IInv'
    OBVIOUS
  <1>1. ProtoTypeOK'
    <2>1. killed' \in BOOLEAN
      BY DEF Kill
    <2>2. requests' \in 0..MaxRequests
      BY SizesAssumption DEF IInv, TypeOK, ProtoTypeOK, Kill
    <2> QED
      BY <2>1, <2>2 DEF IInv, TypeOK, ProtoTypeOK, Kill
  <1>2. IsrTypeOK'
    BY DEF IInv, TypeOK, IsrTypeOK, Kill
  <1>3. TypeOK'
    BY <1>1, <1>2, TypesUnchanged DEF IInv, TypeOK, Kill
  <1>4. UNCHANGED frame
    BY DEF frame, Kill, ringVars, prepVars, plannerVars, Loaded, Published,
       Unpublished, HasLoaded, Rest, EventsOf
  <1>5. PrepInv'
    BY DEF IInv, PrepInv, Kill, ringVars, prepVars, plannerVars, Published,
       Unpublished, HasLoaded, Rest, EventsOf, Queued, Distance, NextSlot, NewSegment
  <1> QED
    BY <1>3, <1>4, <1>5, FramePreserves DEF IInv, Kill, ringVars

-----------------------------------------------------------------------------
(* st_prep_buffer. *)

\* Returning to the caller changes no type.
LEMMA ReturnTypes ==
  ASSUME TypeOK, Return
  PROVE  pc' = "idle" /\ wake' \in BOOLEAN /\ tim2' \in BOOLEAN
  BY DEF TypeOK, ProtoTypeOK, IsrTypeOK, Return

LEMMA PrepCheckInv == IInv /\ PrepCheck => IInv'
  <1> SUFFICES ASSUME IInv, PrepCheck PROVE IInv'
    OBVIOUS
  <1>1. pc' \in {"idle", "load"} /\ wake' \in BOOLEAN /\ tim2' \in BOOLEAN
    BY ReturnTypes DEF IInv, TypeOK, ProtoTypeOK, IsrTypeOK, PrepCheck
  <1>2. TypeOK'
    <2>1. PrepTypeOK'
      BY <1>1 DEF IInv, TypeOK, PrepTypeOK, PrepCheck, prepVars
    <2>2. ProtoTypeOK' /\ IsrTypeOK'
      BY <1>1 DEF IInv, TypeOK, ProtoTypeOK, IsrTypeOK, PrepCheck
    <2> QED
      BY <2>1, <2>2, TypesUnchanged DEF IInv, TypeOK, PrepCheck
  <1>3. pc' = "load" => Queued < SEGMENT_BUFFER_SIZE - 1
    BY RoomLeft DEF IInv, TypeOK, RingTypeOK, PrepInv, PrepCheck, Return
  <1>4. HasLoaded' = HasLoaded /\ Loaded' = Loaded /\ Published' = Published
        /\ Unpublished' = Unpublished /\ Queued' = Queued
    BY <1>1 DEF PrepCheck, prepVars, plannerVars, ringVars, HasLoaded, Loaded,
       Published, Unpublished, Rest, EventsOf, Queued, Distance
  <1>5. UNCHANGED frame
    BY <1>4 DEF frame, PrepCheck, prepVars, plannerVars, ringVars
  <1>6. PrepInv'
    BY <1>1, <1>3, <1>4 DEF IInv, PrepInv, PrepCheck, prepVars, plannerVars, ringVars,
       NextSlot
  <1> QED
    BY <1>2, <1>5, <1>6, FramePreserves DEF IInv, PrepCheck, ringVars

LEMMA PrepNoBlockInv == IInv /\ PrepNoBlock => IInv'
  <1> SUFFICES ASSUME IInv, PrepNoBlock PROVE IInv'
    OBVIOUS
  <1>1. pc = "load" /\ pc' = "idle" /\ wake' \in BOOLEAN /\ tim2' \in BOOLEAN
    BY ReturnTypes DEF IInv, PrepNoBlock
  <1>2. TypeOK'
    <2>1. PrepTypeOK'
      BY <1>1 DEF IInv, TypeOK, PrepTypeOK, PrepNoBlock, prepVars
    <2>2. ProtoTypeOK' /\ IsrTypeOK'
      BY <1>1 DEF IInv, TypeOK, ProtoTypeOK, IsrTypeOK, PrepNoBlock
    <2> QED
      BY <2>1, <2>2, TypesUnchanged DEF IInv, TypeOK, PrepNoBlock
  <1>3. HasLoaded' = HasLoaded /\ Loaded' = Loaded /\ Published' = Published
        /\ Unpublished' = Unpublished /\ Queued' = Queued
    BY <1>1 DEF PrepNoBlock, prepVars, plannerVars, ringVars, HasLoaded, Loaded,
       Published, Unpublished, Rest, EventsOf, Queued, Distance
  <1>4. UNCHANGED frame
    BY <1>3 DEF frame, PrepNoBlock, prepVars, plannerVars, ringVars
  <1>5. PrepInv'
    BY <1>1, <1>3 DEF IInv, PrepInv, PrepNoBlock, prepVars, plannerVars, ringVars,
       NextSlot
  <1> QED
    BY <1>2, <1>4, <1>5, FramePreserves DEF IInv, PrepNoBlock, ringVars

LEMMA PrepRecalculateInv == IInv /\ PrepRecalculate => IInv'
  <1> SUFFICES ASSUME IInv, PrepRecalculate PROVE IInv'
    OBVIOUS
  <1>1. /\ pc = "load" /\ pc' = "fill" /\ pl_block' /\ ~recalculate' /\ recalculate
        /\ pl_block' \in BOOLEAN /\ recalculate' \in BOOLEAN
    BY DEF PrepRecalculate
  <1>2. /\ remaining \in Nat /\ complete' \in 0 .. remaining
        /\ complete' \in 0 .. MaxEvents
    BY SizesAssumption DEF PrepRecalculate, ProfileEnd, IInv, TypeOK, PrepTypeOK
  <1>3. TypeOK'
    <2>1. PrepTypeOK'
      BY <1>1, <1>2 DEF IInv, TypeOK, PrepTypeOK, PrepRecalculate
    <2> QED
      BY <2>1, TypesUnchanged DEF IInv, TypeOK, PrepRecalculate
  <1>4. HasLoaded /\ HasLoaded'
    BY <1>1 DEF HasLoaded
  <1>5. Loaded' = Loaded /\ Published' = Published /\ Queued' = Queued
        /\ Unpublished' = Unpublished
    BY <1>1, <1>4 DEF PrepRecalculate, plannerVars, ringVars, Loaded,
       Published, Unpublished, Rest, EventsOf, Queued, Distance
  <1>6. UNCHANGED frame
    BY <1>5 DEF frame, PrepRecalculate, plannerVars, ringVars, isrVars
  <1>7. PrepInv'
    BY <1>1, <1>2, <1>4, <1>5 DEF IInv, PrepInv, PrepRecalculate, plannerVars,
       ringVars, NextSlot
  <1> QED
    BY <1>3, <1>6, <1>7, FramePreserves DEF IInv, PrepRecalculate, ringVars

LEMMA PrepSameBlockInv == IInv /\ PrepSameBlock => IInv'
  <1> SUFFICES ASSUME IInv, PrepSameBlock PROVE IInv'
    OBVIOUS
  <1>1. pc = "load" /\ pc' = "fill" /\ pl_block
    BY DEF PrepSameBlock
  <1>2. TypeOK'
    <2>1. PrepTypeOK'
      BY <1>1 DEF IInv, TypeOK, PrepTypeOK, PrepSameBlock, prepVars
    <2> QED
      BY <2>1, TypesUnchanged DEF IInv, TypeOK, PrepSameBlock
  <1>3. HasLoaded' = HasLoaded /\ Loaded' = Loaded /\ Published' = Published
        /\ Unpublished' = Unpublished /\ Queued' = Queued
    BY <1>1 DEF PrepSameBlock, prepVars, plannerVars, ringVars, HasLoaded, Loaded,
       Published, Unpublished, Rest, EventsOf, Queued, Distance
  <1>4. UNCHANGED frame
    BY <1>3 DEF frame, PrepSameBlock, prepVars, plannerVars, ringVars, isrVars
  <1>5. PrepInv'
    BY <1>1, <1>3 DEF IInv, PrepInv, PrepSameBlock, prepVars, plannerVars, ringVars,
       NextSlot
  <1> QED
    BY <1>2, <1>4, <1>5, FramePreserves DEF IInv, PrepSameBlock, ringVars

\* A segment about to be written at the head has the type of a segment.
LEMMA NewSegmentType ==
  ASSUME IInv, pl_block, NEW n \in 0 .. MaxEvents
  PROVE  /\ NewSegment(n) \in Segments
         /\ current \in 1 .. MaxBlocks
         /\ events[current] \in 1 .. MaxEvents
         /\ remaining \in 1 .. events[current]
  <1>1. current \in 1 .. MaxBlocks
    BY SizesAssumption DEF IInv, TypeOK, PlannerTypeOK, PrepInv, HasLoaded, Blocks
  <1>2. events[current] \in 1 .. MaxEvents
    BY <1>1 DEF IInv, TypeOK, PlannerTypeOK
  <1>3. remaining \in 1 .. events[current]
    BY <1>2, SizesAssumption DEF IInv, TypeOK, PrepTypeOK, PrepInv, HasLoaded
  <1>4. /\ events[current] - remaining \in 0 .. MaxEvents
        /\ current \in Blocks /\ prep_index \in StIndices
    BY <1>1, <1>2, <1>3, SizesAssumption DEF Blocks, IInv, TypeOK, PrepTypeOK
  <1> QED
    BY <1>1, <1>2, <1>3, <1>4 DEF NewSegment, Segments

LEMMA PrepFillInv == IInv /\ PrepFill => IInv'
  <1> SUFFICES ASSUME IInv, PrepFill PROVE IInv'
    OBVIOUS
  <1>1. pc = "fill" /\ pc' = "publish" /\ pl_block
    BY DEF PrepFill, IInv, PrepInv
  <1>2. /\ cut'.n \in 1 .. remaining - complete
        /\ cut'.last => cut'.n = remaining - complete
        /\ ~cut'.last => cut'.n < remaining
        /\ cut' \in [n : 0 .. remaining - complete, last : BOOLEAN]
        /\ segment' = [segment EXCEPT ![head] = NewSegment(cut'.n)]
    <2>1. PICK c \in Cuts : /\ c.n > 0 /\ cut' = c
                            /\ segment' = [segment EXCEPT ![head] = NewSegment(c.n)]
      BY DEF PrepFill
    <2> QED
      BY <2>1, SizesAssumption DEF Cuts, IInv, TypeOK, PrepTypeOK
  <1>3. /\ remaining - complete \in 0 .. MaxEvents
        /\ cut'.n \in 0 .. MaxEvents /\ cut'.last \in BOOLEAN
        /\ cut' = [n |-> cut'.n, last |-> cut'.last]
    BY <1>2, SizesAssumption DEF IInv, TypeOK, PrepTypeOK, PrepInv
  <1>4. NewSegment(cut'.n) \in Segments
    BY <1>1, <1>3, NewSegmentType
  <1>5. TypeOK'
    <2>1. PrepTypeOK'
      BY <1>1, <1>3 DEF IInv, TypeOK, PrepTypeOK, PrepFill
    <2>2. RingTypeOK'
      BY <1>2, <1>4 DEF IInv, TypeOK, RingTypeOK, PrepFill
    <2> QED
      BY <2>1, <2>2, TypesUnchanged DEF IInv, TypeOK, PrepFill
  <1>6. HasLoaded' = HasLoaded /\ Loaded' = Loaded /\ Published' = Published
        /\ Unpublished' = Unpublished /\ Queued' = Queued
    BY <1>1 DEF PrepFill, plannerVars, HasLoaded, Loaded,
       Published, Unpublished, Rest, EventsOf, Queued, Distance
  <1>7. UNCHANGED frame
    BY <1>6 DEF frame, PrepFill, plannerVars, isrVars
  <1>8. segment'[head'] = NewSegment(cut.n)'
    BY <1>2 DEF PrepFill, plannerVars, NewSegment, IInv, TypeOK, RingTypeOK
  <1>9. PrepInv'
    BY <1>1, <1>2, <1>6, <1>8 DEF IInv, PrepInv, PrepFill, plannerVars, NextSlot
  <1> QED
    BY <1>2, <1>5, <1>7, <1>9, FramePreserves DEF IInv, TypeOK, RingTypeOK

LEMMA PrepBailInv == IInv /\ PrepBail => IInv'
  <1> SUFFICES ASSUME IInv, PrepBail PROVE IInv'
    OBVIOUS
  <1>1. pc = "fill" /\ pc' = "idle" /\ wake' \in BOOLEAN /\ tim2' \in BOOLEAN
        /\ pl_block
    BY ReturnTypes DEF IInv, PrepInv, PrepBail
  <1>2. NewSegment(0) \in Segments
    BY <1>1, NewSegmentType, SizesAssumption
  <1>3. TypeOK'
    <2>1. PrepTypeOK'
      BY <1>1 DEF IInv, TypeOK, PrepTypeOK, PrepBail, prepVars
    <2>2. step_control' \in SUBSET ControlFlags
      BY DEF PrepBail, IInv, TypeOK, ProtoTypeOK, ControlFlags
    <2>3. ProtoTypeOK' /\ IsrTypeOK'
      BY <1>1, <2>2 DEF IInv, TypeOK, ProtoTypeOK, IsrTypeOK, PrepBail
    <2>4. RingTypeOK'
      BY <1>2 DEF IInv, TypeOK, RingTypeOK, PrepBail
    <2> QED
      BY <2>1, <2>3, <2>4, TypesUnchanged DEF IInv, TypeOK, PrepBail
  <1>4. HasLoaded' = HasLoaded /\ Loaded' = Loaded /\ Published' = Published
        /\ Unpublished' = Unpublished /\ Queued' = Queued
    BY <1>1 DEF PrepBail, prepVars, plannerVars, HasLoaded, Loaded,
       Published, Unpublished, Rest, EventsOf, Queued, Distance
  <1>5. UNCHANGED frame
    BY <1>4 DEF frame, PrepBail, prepVars, plannerVars
  <1>6. PrepInv'
    BY <1>1, <1>4 DEF IInv, PrepInv, PrepBail, prepVars, plannerVars, NextSlot
  <1> QED
    BY <1>3, <1>5, <1>6, FramePreserves DEF IInv, PrepBail, TypeOK, RingTypeOK

\* What PrepFinish does to the block in front: it goes on, the profile has come to
\* its end inside it, or it is discarded.
LEMMA PrepFinishInv == IInv /\ PrepFinish => IInv'
  <1> SUFFICES ASSUME IInv, PrepFinish PROVE IInv'
    OBVIOUS
  <1>1. /\ pc = "finish" /\ pl_block /\ ~recalculate /\ ~recalculate'
        /\ remaining' = remaining - cut.n /\ complete' = complete
        /\ prep_index' = prep_index /\ events' = events /\ planned' = planned
        /\ current <= planned
    BY DEF PrepFinish, IInv, PrepInv, HasLoaded
  <1>2. /\ current \in 1 .. MaxBlocks
        /\ events[current] \in 1 .. MaxEvents
        /\ remaining \in 1 .. events[current]
    BY <1>1, NewSegmentType, SizesAssumption
  <1>3. /\ cut.n \in 1 .. remaining - complete
        /\ cut.last => cut.n = remaining - complete
        /\ ~cut.last => cut.n < remaining
        /\ complete \in Nat
    BY <1>1, SizesAssumption DEF IInv, PrepInv, TypeOK, PrepTypeOK
  <1>4. /\ pc' \in {"idle", "check"} /\ wake' \in BOOLEAN /\ tim2' \in BOOLEAN
        /\ step_control' \in SUBSET ControlFlags
    BY ReturnTypes DEF PrepFinish, IInv, TypeOK, ProtoTypeOK, IsrTypeOK, ControlFlags
  <1>11. UNCHANGED <<segment, st_block, head, next_head, tail, executing,
                    exec_index, step_count, out>>
    BY DEF PrepFinish, ringVars
  <1>5. \/ /\ pl_block' /\ current' = current /\ remaining' > 0
           /\ complete <= remaining'
        \/ /\ ~pl_block' /\ current' = current + 1 /\ remaining' = 0 /\ complete = 0
    <2>1. \/ pl_block' /\ current' = current /\ ~cut.last
          \/ pl_block' /\ current' = current /\ cut.last /\ complete > 0
          \/ ~pl_block' /\ current' = current + 1 /\ cut.last /\ complete = 0
      BY <1>1 DEF PrepFinish
    <2> QED
      BY <1>1, <1>2, <1>3, <2>1
  <1>6. TypeOK'
    <2>1. PlannerTypeOK'
      <3>1. planned \in Nat /\ current' \in 1 .. planned + 1
        BY <1>1, <1>2, <1>5, SizesAssumption
        DEF IInv, TypeOK, PlannerTypeOK, Blocks
      <3> QED
        BY <1>1, <3>1 DEF IInv, TypeOK, PlannerTypeOK
    <2>2. pl_block' \in BOOLEAN
      BY DEF PrepFinish, IInv, TypeOK, PrepTypeOK
    <2>3. remaining' \in 0 .. MaxEvents /\ cut' \in [n : 0..MaxEvents, last : BOOLEAN]
      BY <1>1, <1>2, <1>3, SizesAssumption DEF PrepFinish, NoCut
    <2>4. PrepTypeOK'
      BY <1>1, <1>4, <2>2, <2>3 DEF IInv, TypeOK, PrepTypeOK, PrepFinish
    <2>5. ProtoTypeOK' /\ IsrTypeOK'
      BY <1>4 DEF IInv, TypeOK, ProtoTypeOK, IsrTypeOK, PrepFinish
    <2> QED
      BY <2>1, <2>4, <2>5, TypesUnchanged DEF IInv, TypeOK, PrepFinish
  <1>7. Rest = remaining' /\ Rest' = remaining'
    BY <1>1, <1>4 DEF Rest
  <1>8. Loaded' = Loaded /\ Published' = Published /\ Queued' = Queued
        /\ ~Unpublished /\ ~Unpublished'
    <2>1. Published = events[current] - remaining' /\ Loaded = current
          /\ Queued' = Queued
      BY <1>1, <1>7 DEF HasLoaded, Loaded, Published, Queued, Distance, PrepFinish,
         ringVars
    <2>2. Published > 0
      BY <1>1, <1>2, <1>3, <2>1
    <2>3. CASE pl_block' /\ current' = current
      <3>1. HasLoaded'
        BY <1>1, <2>3 DEF HasLoaded
      <3> QED
        BY <1>1, <1>7, <2>1, <2>2, <2>3, <3>1 DEF Loaded, Published, Unpublished
    <2>4. CASE ~pl_block' /\ current' = current + 1 /\ remaining' = 0
      <3>1. ~HasLoaded'
        BY <1>1, <2>4 DEF HasLoaded
      <3> QED
        BY <1>1, <1>2, <2>1, <2>2, <2>4, <3>1
        DEF Loaded, Published, Unpublished, EventsOf
    <2> QED
      BY <1>5, <2>3, <2>4
  <1>9. UNCHANGED frame
    <2>1. Unpublished' = Unpublished
      BY <1>8 DEF Unpublished
    <2> QED
      BY <1>1, <1>8, <1>11, <2>1 DEF frame
  <1>10. PrepInv'
    <2>1. next_head' = NextSlot(head)' /\ ~(pl_block' /\ recalculate')
          /\ complete' <= remaining'
      BY <1>1, <1>5, <1>11 DEF IInv, PrepInv, NextSlot
    <2>2. HasLoaded' => /\ current' <= planned' /\ remaining' > 0
                        /\ remaining' <= events'[current']
                        /\ st_block'[prep_index'] = current'
      BY <1>1, <1>2, <1>3, <1>5, <1>11 DEF IInv, PrepInv, HasLoaded
    <2> QED
      BY <1>4, <1>8, <2>1, <2>2 DEF PrepInv
  <1> QED
    BY <1>6, <1>9, <1>10, FramePreserves DEF IInv, PrepFinish, ringVars

\* What the ring invariant says of two neighbouring queued blocks.
LEMMA QueuedBlocks ==
  ASSUME IInv, NEW i \in Slots, InRing(i)
  PROVE  /\ segment[i] \in Segments
         /\ segment[i].of \in 1 .. MaxBlocks
         /\ Loaded - segment[i].of \in 0 .. SEGMENT_BUFFER_SIZE - 1
         /\ Loaded \in Nat /\ Queued \in Nat /\ Distance(i) \in Nat
  <1>1. segment[i] \in Segments
    BY DEF IInv, TypeOK, RingTypeOK
  <1>2. Loaded \in Nat /\ current \in Nat
    BY SizesAssumption DEF Loaded, IInv, TypeOK, PlannerTypeOK, Blocks
  <1>3. /\ Queued \in 0 .. SEGMENT_BUFFER_SIZE - 1
        /\ Distance(i) \in 0 .. SEGMENT_BUFFER_SIZE - 1
    BY RoomLeft DEF IInv, TypeOK, RingTypeOK
  <1>4. /\ segment[i].of \in 1 .. Loaded
        /\ Loaded - segment[i].of
             <= Queued - Distance(i) - (IF Unpublished THEN 0 ELSE 1)
    BY DEF IInv, RingInv, SegmentInv
  <1> QED
    BY <1>1, <1>2, <1>3, <1>4, SizesAssumption DEF Segments, Blocks

\* Before a new block is loaded, everything published belongs to whole blocks, and
\* the last of them is the last one loaded.
LEMMA BeforeLoad ==
  ASSUME IInv, PrepLoadBlock
  PROVE  /\ ~HasLoaded /\ ~Unpublished /\ Loaded = current - 1
         /\ Published = EventsOf(Loaded)
         /\ current \in 1 .. MaxBlocks /\ events[current] \in 1 .. MaxEvents
         /\ Queued \in 0 .. SEGMENT_BUFFER_SIZE - 2
         /\ \A b \in Blocks : b # 0 => EventsOf(b) > 0
  <1>1. ~HasLoaded /\ ~Unpublished /\ Loaded = current - 1
        /\ Published = EventsOf(Loaded)
    BY DEF PrepLoadBlock, HasLoaded, Unpublished, Loaded, Published
  <1>2. current \in 1 .. MaxBlocks
    BY SizesAssumption
    DEF PrepLoadBlock, PlannerHasBlock, IInv, TypeOK, PlannerTypeOK, Blocks
  <1>3. \A b \in 1 .. MaxBlocks : events[b] \in 1 .. MaxEvents
    BY DEF IInv, TypeOK, PlannerTypeOK
  <1>4. \A b \in Blocks : b # 0 => EventsOf(b) > 0
    BY <1>3, SizesAssumption DEF EventsOf, Blocks
  <1>5. Queued \in 0 .. SEGMENT_BUFFER_SIZE - 1 /\ Queued < SEGMENT_BUFFER_SIZE - 1
    BY RoomLeft DEF IInv, PrepInv, TypeOK, RingTypeOK, PrepLoadBlock
  <1> QED
    BY <1>1, <1>2, <1>3, <1>4, <1>5, SizesAssumption

LEMMA PrepLoadBlockInv == IInv /\ PrepLoadBlock => IInv'
  <1> SUFFICES ASSUME IInv, PrepLoadBlock PROVE IInv'
    OBVIOUS
  <1>1. /\ pc = "load" /\ pc' = "fill"
        /\ pl_block' /\ ~recalculate' /\ pl_block' \in BOOLEAN
        /\ recalculate' = recalculate /\ recalculate' \in BOOLEAN
        /\ prep_index' = NextBlockIndex(prep_index)
        /\ st_block' = [st_block EXCEPT ![prep_index'] = current]
        /\ remaining' = events[current]
        /\ UNCHANGED <<events, planned, current, cut, segment, head, next_head, tail,
                       executing, exec_index, step_count, out>>
    BY DEF PrepLoadBlock, plannerVars, isrVars, IInv, TypeOK, PrepTypeOK
  <1>2. /\ ~HasLoaded /\ ~Unpublished /\ Loaded = current - 1
        /\ Published = EventsOf(Loaded)
        /\ current \in 1 .. MaxBlocks /\ events[current] \in 1 .. MaxEvents
        /\ Queued \in 0 .. SEGMENT_BUFFER_SIZE - 2
        /\ \A b \in Blocks : b # 0 => EventsOf(b) > 0
    BY BeforeLoad
  <1>3. /\ HasLoaded' /\ Loaded' = Loaded + 1 /\ Published' = 0 /\ Unpublished'
        /\ Queued' = Queued
    BY <1>1, <1>2 DEF HasLoaded, Loaded, Published, Unpublished, Rest, Queued,
       Distance
  <1>4. complete' \in 0 .. remaining'
    BY <1>1, <1>2 DEF PrepLoadBlock, ProfileEnd
  <1>5. prep_index \in StIndices /\ prep_index' \in StIndices
    BY <1>1, BackNext, SizesAssumption DEF IInv, TypeOK, PrepTypeOK
  <1>6. TypeOK'
    <2>1. remaining' \in 0 .. MaxEvents /\ complete' \in 0 .. MaxEvents
      BY <1>1, <1>2, <1>4, SizesAssumption
    <2>2. PrepTypeOK'
      BY <1>1, <1>5, <2>1 DEF IInv, TypeOK, PrepTypeOK
    <2>3. current \in Blocks
      BY <1>2 DEF Blocks
    <2>4. RingTypeOK'
      BY <1>1, <1>5, <2>3 DEF IInv, TypeOK, RingTypeOK
    <2> QED
      BY <2>2, <2>4, TypesUnchanged DEF IInv, TypeOK, PrepLoadBlock
  <1>7. PrepInv'
    <2>1. st_block'[prep_index'] = current'
      BY <1>1, <1>5 DEF IInv, TypeOK, RingTypeOK
    <2>2. current' <= planned'
      BY <1>1 DEF PrepLoadBlock, PlannerHasBlock
    <2> QED
      BY <1>1, <1>2, <1>3, <1>4, <2>1, <2>2, SizesAssumption
      DEF IInv, PrepInv, NextSlot
  <1>8. RingInv'
    <2> SUFFICES ASSUME NEW i \in Slots, InRing(i)' PROVE SegmentInv(i)'
      BY DEF RingInv
    <2> DEFINE s == segment[i]
    <2>1. InRing(i) /\ Distance(i)' = Distance(i)
      BY <1>1 DEF InRing, Distance, Queued
    <2>2. /\ s.n_step > 0
          /\ s.of \in 1 .. Loaded
          /\ Loaded - s.of <= Queued - Distance(i) - 1
          /\ s.st_block_index = Back(prep_index, Loaded - s.of)
          /\ st_block[s.st_block_index] = s.of
          /\ SegmentEnd(s) <= events[s.of]
          /\ Follows(i)
      BY <2>1, <1>2 DEF IInv, RingInv, SegmentInv
    <2>3. /\ s \in Segments /\ s.of \in 1 .. MaxBlocks /\ Loaded \in Nat
          /\ Loaded - s.of \in 0 .. SEGMENT_BUFFER_SIZE - 3 /\ Distance(i) \in Nat
      BY <1>2, <2>1, <2>2, QueuedBlocks, SizesAssumption
    <2>4. /\ s.st_block_index = Back(prep_index', Loaded' - s.of)
          /\ s.st_block_index # prep_index'
      <3>1. Loaded' - s.of = (Loaded - s.of) + 1
        BY <1>3, <2>3
      <3>2. Back(prep_index', Loaded' - s.of) = Back(prep_index, Loaded - s.of)
        BY <1>1, <1>5, <2>3, <3>1, BackNext, SizesAssumption
      <3>3. Back(prep_index', Loaded' - s.of) # prep_index'
        BY <1>5, <2>3, <3>1, BackDistinct, SizesAssumption
      <3> QED
        BY <2>2, <3>2, <3>3
    <2>5. st_block'[s.st_block_index] = s.of
      BY <1>1, <2>2, <2>3, <2>4 DEF IInv, TypeOK, RingTypeOK, Segments
    <2>6. NextSlot(i) = head => Joins(s.of, SegmentEnd(s), Loaded', 0)
      BY <1>2, <1>3, <2>2, <2>3, SizesAssumption DEF Follows, Joins, EventsOf, Blocks
    <2>7. Follows(i)'
      BY <1>1, <1>3, <2>2, <2>6 DEF Follows, Joins, SegmentEnd, EventsOf
    <2>8. /\ s.of \in 1 .. Loaded'
          /\ Loaded' - s.of
               <= Queued' - Distance(i)' - (IF Unpublished' THEN 0 ELSE 1)
      BY <1>2, <1>3, <2>1, <2>2, <2>3
    <2>9. SegmentEnd(s)' <= events'[s.of]
      BY <1>1, <2>2 DEF SegmentEnd
    <2> QED
      BY <1>1, <2>2, <2>4, <2>5, <2>7, <2>8, <2>9 DEF SegmentInv
  <1>9. ExecInv'
    <2>1. /\ out.number <= EventsOf(out.block) /\ out.block <= Loaded
          /\ exec_index = Back(prep_index, Loaded - out.block)
          /\ out.block \in Blocks /\ Loaded \in Nat
      BY <1>2 DEF IInv, ExecInv, TypeOK, IsrTypeOK
    <2>2. Loaded - out.block \in 0 .. SEGMENT_BUFFER_SIZE - 2
      <3>1. CASE head = tail
        <4>1. Joins(out.block, out.number, Loaded, Published)
          BY <3>1 DEF IInv, ExecInv
        <4> QED
          BY <2>1, <4>1, SizesAssumption DEF Joins, Blocks
      <3>2. CASE head # tail
        <4>1. /\ tail \in Slots /\ InRing(tail) /\ Distance(tail) = 0
          BY <3>2, RoomLeft DEF IInv, TypeOK, RingTypeOK
        <4>2. /\ Loaded - segment[tail].of <= Queued - 1
              /\ segment[tail].of \in 1 .. Loaded
          BY <1>2, <4>1, SizesAssumption DEF IInv, RingInv, SegmentInv
        <4>3. \/ out.block = segment[tail].of
              \/ segment[tail].of = out.block + 1
          BY <3>2 DEF IInv, ExecInv, Joins
        <4> QED
          BY <1>2, <2>1, <4>2, <4>3, SizesAssumption DEF Blocks
      <3> QED
        BY <3>1, <3>2
    <2>3. /\ Loaded' - out'.block = (Loaded - out.block) + 1
          /\ out'.block <= Loaded'
          /\ exec_index' = Back(prep_index', Loaded' - out'.block)
      BY <1>1, <1>3, <1>5, <2>1, <2>2, BackNext, SizesAssumption DEF Blocks
    <2>4. head = tail /\ ~executing => Joins(out.block, out.number, Loaded', 0)
      BY <1>2, <1>3, <2>1, SizesAssumption DEF IInv, ExecInv, Joins, EventsOf, Blocks
    <2> QED
      BY <1>1, <1>3, <2>1, <2>2, <2>3, <2>4, SizesAssumption
      DEF IInv, ExecInv, Joins, EventsOf, SegmentEnd
  <1> QED
    BY <1>6, <1>7, <1>8, <1>9 DEF IInv

LEMMA PrepPublishInv == IInv /\ PrepPublish => IInv'
  <1> SUFFICES ASSUME IInv, PrepPublish PROVE IInv'
    OBVIOUS
  <1>1. /\ pc = "publish" /\ pc' = "finish" /\ pl_block /\ next_head = NextSlot(head)
        /\ head' = NextSlot(head) /\ next_head' = NextSlot(head)'
        /\ Queued < SEGMENT_BUFFER_SIZE - 1
        /\ UNCHANGED <<events, planned, current, pl_block, recalculate, prep_index,
                       remaining, complete, cut, segment, st_block, tail,
                       executing, exec_index, step_count, out>>
    BY DEF PrepPublish, IInv, PrepInv, plannerVars, prepVars, isrVars, NextSlot
  <1>2. head \in Slots /\ tail \in Slots /\ tail # NextSlot(head)
        /\ NextSlot(head) \in Slots
    BY <1>1, RoomLeft DEF IInv, TypeOK, RingTypeOK
  <1>3. /\ Queued' = Queued + 1
        /\ \A i \in Slots : /\ Distance(i)' = Distance(i)
                            /\ InRing(i)' <=> (InRing(i) \/ i = head)
                            /\ InRing(i) => NextSlot(i) # head'
        /\ NextSlot(head) # head /\ ~InRing(head) /\ Distance(head) = Queued
    BY <1>1, <1>2, HeadMoves
  <1>4. /\ current \in 1 .. MaxBlocks
        /\ events[current] \in 1 .. MaxEvents
        /\ remaining \in 1 .. events[current]
    BY <1>1, NewSegmentType, SizesAssumption
  <1>5. /\ cut.n \in 1 .. remaining - complete /\ complete \in Nat
        /\ cut.last => cut.n = remaining - complete
        /\ ~cut.last => cut.n < remaining
        /\ segment[head] = NewSegment(cut.n)
    BY <1>1, SizesAssumption DEF IInv, PrepInv, TypeOK, PrepTypeOK
  <1>6. /\ HasLoaded /\ HasLoaded' /\ Loaded = current /\ Loaded' = current
        /\ Published = events[current] - remaining
        /\ Published' = Published + cut.n
    BY <1>1, <1>4, <1>5 DEF HasLoaded, Loaded, Published, Rest
  <1>7. ~Unpublished' /\ Queued \in Nat
    BY <1>2, <1>4, <1>5, <1>6, RoomLeft DEF Unpublished
  <1>8. TypeOK'
    <2>1. PrepTypeOK'
      BY <1>1 DEF IInv, TypeOK, PrepTypeOK
    <2>2. NextSlot(head)' \in Slots
      BY <1>1, <1>2, SizesAssumption DEF NextSlot, Slots
    <2>3. RingTypeOK'
      BY <1>1, <1>2, <2>2 DEF IInv, TypeOK, RingTypeOK
    <2> QED
      BY <2>1, <2>3, TypesUnchanged DEF IInv, TypeOK, PrepPublish
  <1>9. PrepInv'
    <2>1. st_block'[prep_index'] = current' /\ current' <= planned'
          /\ remaining' > 0 /\ remaining' <= events'[current']
      BY <1>1, <1>4, <1>6 DEF IInv, PrepInv
    <2> QED
      BY <1>1, <1>5, <1>7, <2>1 DEF IInv, PrepInv
  <1>10. RingInv'
    <2> SUFFICES ASSUME NEW i \in Slots, InRing(i)' PROVE SegmentInv(i)'
      BY DEF RingInv
    <2>1. CASE i = head
      <3>1. /\ segment'[i] = segment[i] /\ segment[i].n_step = cut.n
            /\ segment[i].of = current /\ segment[i].st_block_index = prep_index
            /\ segment[i].from = events[current] - remaining
        BY <1>1, <1>5, <2>1 DEF NewSegment
      <3>2. Back(prep_index, 0) = prep_index
        BY SizesAssumption, BackDistinct DEF IInv, TypeOK, PrepTypeOK
      <3>3. SegmentEnd(segment[i]) = Published' /\ Published' <= events[current]
        BY <1>4, <1>5, <1>6, <3>1 DEF SegmentEnd
      <3>4. Follows(i)'
        BY <1>1, <1>6, <2>1, <3>1, <3>3 DEF Follows, Joins, SegmentEnd, NextSlot
      <3>5. Loaded' - segment'[i].of
              <= Queued' - Distance(i)' - (IF Unpublished' THEN 0 ELSE 1)
        BY <1>3, <1>4, <1>6, <1>7, <2>1, <3>1
      <3>6. st_block[prep_index] = current
        BY <1>6 DEF IInv, PrepInv
      <3>7. SegmentEnd(segment[i])' = SegmentEnd(segment[i])
        BY <1>1 DEF SegmentEnd
      <3> QED
        BY <1>1, <1>4, <1>5, <1>6, <3>1, <3>2, <3>3, <3>4, <3>5, <3>6, <3>7
        DEF SegmentInv
    <2>2. CASE i # head
      <3>1. InRing(i) /\ SegmentInv(i)
        BY <1>3, <2>2 DEF IInv, RingInv
      <3>2. NextSlot(i) \in Slots /\ NextSlot(i) # head'
        BY <1>3, <3>1, SizesAssumption DEF NextSlot, Slots
      <3>3. Follows(i)'
        <4>1. CASE NextSlot(i) = head
          <5>1. Joins(segment[i].of, SegmentEnd(segment[i]), Loaded, Published)
            BY <3>1, <4>1 DEF SegmentInv, Follows
          <5>2. segment[head].of = Loaded /\ segment[head].from = Published
            BY <1>5, <1>6 DEF NewSegment
          <5> QED
            BY <1>1, <3>2, <4>1, <5>1, <5>2
            DEF Follows, Joins, SegmentEnd, EventsOf, NextSlot
        <4>2. CASE NextSlot(i) # head
          BY <1>1, <3>1, <3>2, <4>2
          DEF SegmentInv, Follows, Joins, SegmentEnd, EventsOf, NextSlot
        <4> QED
          BY <4>1, <4>2
      <3>4. Loaded - segment[i].of <= Queued - Distance(i)
        BY <1>7, <3>1, QueuedBlocks DEF SegmentInv
      <3>5. Loaded' - segment'[i].of
              <= Queued' - Distance(i)' - (IF Unpublished' THEN 0 ELSE 1)
        BY <1>1, <1>3, <1>6, <1>7, <3>1, <3>4, QueuedBlocks
      <3>6. SegmentEnd(segment[i])' = SegmentEnd(segment[i])
        BY <1>1 DEF SegmentEnd
      <3> QED
        BY <1>1, <1>6, <3>1, <3>3, <3>5, <3>6 DEF SegmentInv
    <2> QED
      BY <2>1, <2>2
  <1>11. ExecInv'
    <2>1. head' # tail'
      BY <1>1, <1>2
    <2>2. /\ out.number <= EventsOf(out.block) /\ out.block <= Loaded
          /\ Loaded - out.block <= SEGMENT_BUFFER_SIZE - 1
          /\ exec_index = Back(prep_index, Loaded - out.block)
      BY DEF IInv, ExecInv
    <2>3. IF executing
            THEN /\ out.block = segment[tail].of
                 /\ step_count \in 1 .. segment[tail].n_step - 1
                 /\ out.number = SegmentEnd(segment[tail]) - step_count
            ELSE Joins(out.block, out.number, segment[tail].of, segment[tail].from)
      <3>1. CASE head = tail
        <4>1. ~executing /\ Joins(out.block, out.number, Loaded, Published)
          BY <3>1 DEF IInv, ExecInv
        <4>2. segment[tail].of = Loaded /\ segment[tail].from = Published
          BY <1>5, <1>6, <3>1 DEF NewSegment
        <4> QED
          BY <4>1, <4>2
      <3>2. CASE head # tail
        BY <3>2 DEF IInv, ExecInv
      <3> QED
        BY <3>1, <3>2
    <2> QED
      BY <1>1, <1>6, <2>1, <2>2, <2>3 DEF ExecInv, Joins, EventsOf, SegmentEnd
  <1> QED
    BY <1>8, <1>9, <1>10, <1>11 DEF IInv

-----------------------------------------------------------------------------
(* The interrupt. *)

LEMMA IsrEmptyInv == IInv /\ IsrEmpty => IInv'
  <1> SUFFICES ASSUME IInv, IsrEmpty PROVE IInv'
    OBVIOUS
  <1>1. tim2' \in BOOLEAN /\ cycle_stop' \in BOOLEAN
    BY DEF IsrEmpty
  <1>2. IsrTypeOK'
    BY <1>1 DEF IInv, TypeOK, IsrTypeOK, IsrEmpty
  <1>3. TypeOK'
    BY <1>2, TypesUnchanged DEF IInv, TypeOK, IsrEmpty
  <1>4. UNCHANGED frame
    BY DEF frame, IsrEmpty, ringVars, prepVars, plannerVars, Loaded, Published,
       Unpublished, HasLoaded, Rest, EventsOf
  <1>5. PrepInv'
    BY DEF IInv, PrepInv, IsrEmpty, ringVars, prepVars, plannerVars, Published,
       Unpublished, HasLoaded, Rest, EventsOf, Queued, Distance, NextSlot, NewSegment
  <1> QED
    BY <1>3, <1>4, <1>5, FramePreserves DEF IInv, IsrEmpty, ringVars

\* What one interrupt executes: the next event of the segment at the tail.
LEMMA IsrStepExecutes ==
  ASSUME IInv, IsrStep
  PROVE  LET s    == segment[tail]
             left == IF executing THEN step_count ELSE s.n_step
         IN /\ head # tail /\ tail \in Slots /\ InRing(tail) /\ SegmentInv(tail)
            /\ s \in Segments /\ s.of \in 1 .. MaxBlocks
            /\ left \in 1 .. s.n_step
            /\ exec_index' = s.st_block_index
            /\ out' = [block |-> s.of, number |-> SegmentEnd(s) - left + 1]
            /\ step_count' = left - 1
            /\ executing' = (left # 1)
            /\ tail' = IF left = 1 THEN NextSlot(tail) ELSE tail
            /\ \/ s.of = out.block /\ out.number = SegmentEnd(s) - left
               \/ /\ s.of = out.block + 1 /\ out.number = EventsOf(out.block)
                  /\ SegmentEnd(s) = left
  <1> DEFINE s == segment[tail]
             left == IF executing THEN step_count ELSE s.n_step
             fresh == ~executing /\ s.st_block_index # exec_index
  <1>1. head # tail /\ tail \in Slots /\ InRing(tail) /\ SegmentInv(tail)
    <2>1. head # tail /\ tail \in Slots
      BY DEF IsrStep, IInv, ExecInv, TypeOK, RingTypeOK
    <2>2. InRing(tail)
      BY <2>1, RoomLeft DEF IInv, TypeOK, RingTypeOK
    <2> QED
      BY <2>1, <2>2 DEF IInv, RingInv
  <1>2. /\ s \in Segments /\ s.of \in 1 .. MaxBlocks
        /\ Loaded - s.of \in 0 .. SEGMENT_BUFFER_SIZE - 1 /\ Loaded \in Nat
    BY <1>1, QueuedBlocks
  <1>3. /\ s.n_step \in 1 .. MaxEvents /\ s.from \in 0 .. MaxEvents
        /\ s.st_block_index \in StIndices
    BY <1>1, <1>2, SizesAssumption DEF Segments, SegmentInv
  <1>4. left \in 1 .. s.n_step
    BY <1>1, <1>3, SizesAssumption DEF IInv, ExecInv
  <1>5. step_count' = left - 1
    <2>1. left \in Int /\ left >= 1 /\ left <= 65535
      BY <1>3, <1>4, SizesAssumption
    <2>2. step_count' = (left + 65535) % 65536
      BY DEF IsrStep
    <2> HIDE DEF left
    <2> QED
      BY <2>1, <2>2, CountDown
  <1>6. /\ out.block \in Blocks /\ out.number \in Nat
        /\ Loaded - out.block \in 0 .. SEGMENT_BUFFER_SIZE - 1
        /\ exec_index = Back(prep_index, Loaded - out.block)
        /\ s.st_block_index = Back(prep_index, Loaded - s.of)
        /\ st_block[s.st_block_index] = s.of
        /\ prep_index \in StIndices
    BY <1>1, <1>2, SizesAssumption
    DEF IInv, ExecInv, TypeOK, PrepTypeOK, IsrTypeOK, Blocks, SegmentInv
  <1>7. /\ exec_index' = IF fresh THEN s.st_block_index ELSE exec_index
        /\ out' = [block  |-> st_block[exec_index'],
                   number |-> IF fresh THEN 1 ELSE out.number + 1]
        /\ executing' = (step_count' # 0)
        /\ tail' = IF step_count' = 0 THEN NextSlot(tail) ELSE tail
    BY DEF IsrStep
  <1>8. CASE executing
    <2>1. s.of = out.block /\ out.number = SegmentEnd(s) - left
      BY <1>8 DEF IInv, ExecInv
    <2>2. exec_index' = s.st_block_index /\ out'.number = out.number + 1
      BY <1>6, <1>7, <1>8, <2>1
    <2>3. out' = [block |-> s.of, number |-> SegmentEnd(s) - left + 1]
      BY <1>6, <1>7, <1>8, <2>1, <2>2
    <2> QED
      BY <1>1, <1>2, <1>4, <1>5, <1>7, <2>1, <2>2, <2>3
  <1>9. CASE ~executing
    <2>1. Joins(out.block, out.number, s.of, s.from)
      BY <1>1, <1>9 DEF IInv, ExecInv
    <2>2. SegmentEnd(s) - left = s.from /\ left = s.n_step
      BY <1>3, <1>9 DEF SegmentEnd
    <2>3. CASE s.of = out.block /\ s.from = out.number
      <3>1. s.st_block_index = exec_index
        BY <1>6, <2>3
      <3>2. out' = [block |-> s.of, number |-> SegmentEnd(s) - left + 1]
            /\ exec_index' = s.st_block_index
        BY <1>6, <1>7, <2>2, <2>3, <3>1
      <3> QED
        BY <1>1, <1>2, <1>4, <1>5, <1>7, <2>2, <2>3, <3>2
    <2>4. CASE s.of = out.block + 1 /\ out.number = EventsOf(out.block) /\ s.from = 0
      <3>1. /\ Loaded - s.of = (Loaded - out.block) - 1
            /\ Loaded - out.block \in 1 .. SEGMENT_BUFFER_SIZE - 1
        BY <1>2, <1>6, <2>4, SizesAssumption DEF Blocks
      <3>2. s.st_block_index # exec_index
        BY <1>6, <3>1, BackDistinct, SizesAssumption
      <3>3. out' = [block |-> s.of, number |-> SegmentEnd(s) - left + 1]
            /\ exec_index' = s.st_block_index
        BY <1>6, <1>7, <1>9, <2>2, <2>4, <3>2
      <3>4. SegmentEnd(s) = left
        BY <1>3, <2>2, <2>4 DEF SegmentEnd
      <3> QED
        BY <1>1, <1>2, <1>4, <1>5, <1>7, <2>4, <3>3, <3>4
    <2> QED
      BY <2>1, <2>3, <2>4 DEF Joins
  <1> QED
    BY <1>8, <1>9

LEMMA IsrStepInv == IInv /\ IsrStep => IInv'
  <1> SUFFICES ASSUME IInv, IsrStep PROVE IInv'
    OBVIOUS
  <1> DEFINE s == segment[tail]
             left == IF executing THEN step_count ELSE s.n_step
  <1>1. /\ head # tail /\ tail \in Slots /\ InRing(tail) /\ SegmentInv(tail)
        /\ s \in Segments /\ s.of \in 1 .. MaxBlocks
        /\ left \in 1 .. s.n_step
        /\ exec_index' = s.st_block_index
        /\ out' = [block |-> s.of, number |-> SegmentEnd(s) - left + 1]
        /\ step_count' = left - 1
        /\ executing' = (left # 1)
        /\ tail' = IF left = 1 THEN NextSlot(tail) ELSE tail
    BY IsrStepExecutes
  <1> HIDE DEF left
  <1>2. /\ s.n_step \in 1 .. MaxEvents /\ s.from \in 0 .. MaxEvents
        /\ s.st_block_index \in StIndices /\ s.of \in Blocks
    BY <1>1, SizesAssumption DEF Segments, SegmentInv
  <1>3. UNCHANGED <<plannerVars, pc, prepVars, protoVars, segment, st_block, head,
                    next_head, tim2, cycle_stop>>
    BY DEF IsrStep
  <1>4. /\ Loaded' = Loaded /\ Published' = Published /\ Unpublished' = Unpublished
        /\ HasLoaded' = HasLoaded
    BY <1>3 DEF Loaded, Published, Unpublished, HasLoaded, Rest, EventsOf, prepVars,
       plannerVars
  <1>5. events[s.of] \in 1 .. MaxEvents /\ SegmentEnd(s) <= events[s.of]
        /\ SegmentEnd(s) = s.from + s.n_step
    BY <1>1 DEF IInv, TypeOK, PlannerTypeOK, SegmentInv, SegmentEnd
  <1>6. TypeOK'
    <2>1. /\ SegmentEnd(s) - left + 1 \in 0 .. MaxEvents
          /\ left - 1 \in 0 .. MaxEvents
      BY <1>1, <1>2, <1>5, SizesAssumption
    <2>2. executing' \in BOOLEAN
      BY <1>1
    <2>3. IsrTypeOK'
      BY <1>1, <1>2, <1>3, <2>1, <2>2 DEF IInv, TypeOK, IsrTypeOK
    <2>4. NextSlot(tail) \in Slots
      BY <1>1, SizesAssumption DEF NextSlot, Slots
    <2>5. RingTypeOK'
      BY <1>1, <1>3, <2>4 DEF IInv, TypeOK, RingTypeOK
    <2> QED
      BY <1>3, <2>3, <2>5, TypesUnchanged DEF IInv, TypeOK
  <1>7. \A i \in Slots : InRing(i)' =>
          /\ InRing(i)
          /\ Queued' - Distance(i)' = Queued - Distance(i)
    <2>1. CASE left = 1
      BY <1>1, <1>3, <2>1, TailMoves, QueuedBlocks, SizesAssumption
      DEF IInv, TypeOK, RingTypeOK
    <2>2. CASE left # 1
      BY <1>1, <1>3, <2>2 DEF InRing, Distance, Queued
    <2> QED
      BY <2>1, <2>2
  <1>8. Queued' <= Queued /\ Queued \in Nat
    <2>1. CASE left = 1
      BY <1>1, <1>3, <2>1, TailMoves, RoomLeft, SizesAssumption
      DEF IInv, TypeOK, RingTypeOK
    <2>2. CASE left # 1
      BY <1>1, <1>3, <2>2, RoomLeft, SizesAssumption
      DEF Distance, Queued, IInv, TypeOK, RingTypeOK
    <2> QED
      BY <2>1, <2>2
  <1>9. Queued' \in Int
    BY <1>6, RoomLeft, SizesAssumption
    DEF TypeOK, RingTypeOK, Queued, Distance, Slots
  <1>10. PrepInv'
    BY <1>3, <1>4, <1>8, <1>9, SizesAssumption
    DEF IInv, PrepInv, prepVars, plannerVars, protoVars, NextSlot, NewSegment
  <1>11. RingInv'
    <2> SUFFICES ASSUME NEW i \in Slots, InRing(i)' PROVE SegmentInv(i)'
      BY DEF RingInv
    <2>1. InRing(i) /\ SegmentInv(i) /\ Queued' - Distance(i)' = Queued - Distance(i)
      BY <1>7 DEF IInv, RingInv
    <2>2. Follows(i)'
      BY <1>3, <1>4, <2>1 DEF Follows, SegmentInv, Joins, SegmentEnd, EventsOf,
         NextSlot, plannerVars
    <2>3. SegmentEnd(segment[i])' = SegmentEnd(segment[i])
      BY <1>3 DEF SegmentEnd
    <2> QED
      BY <1>3, <1>4, <2>1, <2>2, <2>3 DEF SegmentInv, prepVars, plannerVars
  <1>12. ExecInv'
    <2>1. /\ out'.block = s.of /\ out'.number = SegmentEnd(s) - left + 1
          /\ EventsOf(out.block)' = events[s.of]
      BY <1>1, <1>3, SizesAssumption DEF EventsOf, plannerVars
    <2>2. out'.number <= events[s.of]
      BY <1>1, <1>2, <1>5, <2>1
    <2>3. /\ s.of <= Loaded /\ Loaded - s.of <= SEGMENT_BUFFER_SIZE - 1
          /\ s.st_block_index = Back(prep_index, Loaded - s.of)
      BY <1>1, QueuedBlocks, SizesAssumption DEF SegmentInv
    <2>4. CASE left # 1
      <3>1. /\ executing' /\ tail' = tail /\ segment' = segment /\ head' = head
        BY <1>1, <1>3, <2>4
      <3>2. step_count' \in 1 .. s.n_step - 1
        BY <1>1, <1>2, <2>4
      <3>3. /\ SegmentEnd(segment[tail])' = SegmentEnd(s)
            /\ out'.number = SegmentEnd(s) - step_count'
        BY <1>1, <1>2, <1>5, <2>1, <3>1 DEF SegmentEnd
      <3> QED
        BY <1>1, <1>3, <1>4, <2>1, <2>2, <2>3, <3>1, <3>2, <3>3
        DEF ExecInv, Back, prepVars
    <2>5. CASE left = 1
      <3>1. ~executing' /\ tail' = NextSlot(tail) /\ segment' = segment /\ head' = head
        BY <1>1, <1>3, <2>5
      <3>2. out'.number = SegmentEnd(s)
        BY <1>2, <1>5, <2>1, <2>5
      <3>3. Follows(tail)
        BY <1>1 DEF SegmentInv
      <3>4. IF head' = tail'
              THEN Joins(out.block, out.number, Loaded, Published)'
              ELSE Joins(out.block, out.number, segment[tail].of, segment[tail].from)'
        BY <1>3, <1>4, <2>1, <3>1, <3>2, <3>3 DEF Follows, Joins, EventsOf, plannerVars
      <3> QED
        BY <1>1, <1>3, <1>4, <2>1, <2>2, <2>3, <3>1, <3>2, <3>4
        DEF ExecInv, Back, prepVars
    <2> QED
      BY <2>4, <2>5
  <1> QED
    BY <1>6, <1>10, <1>11, <1>12 DEF IInv

-----------------------------------------------------------------------------
(* The theorems. *)

LEMMA StutterInv == IInv /\ UNCHANGED vars => IInv'
  BY TypesUnchanged
  DEF IInv, TypeOK, PrepInv, RingInv, SegmentInv, Follows, ExecInv, vars,
      plannerVars, prepVars, protoVars, ringVars, isrVars, HasLoaded, Loaded, Rest,
      Published, Unpublished, Joins, SegmentEnd, Back, EventsOf, Queued, InRing,
      Distance, NextSlot, NewSegment

\* The inductive invariant holds in every reachable state, whatever the size of the
\* ring, the program and the moments at which the interrupt and the user break in.
THEOREM Invariance == Spec => []IInv
  <1>1. IInv /\ [Next]_vars => IInv'
    BY PlanLineInv, CycleStartInv, CallPrepInv, FeedHoldInv, OverrideInv,
       CycleStopInv, ResetInv, PrepCheckInv, PrepNoBlockInv, PrepLoadBlockInv,
       PrepRecalculateInv, PrepSameBlockInv, PrepFillInv, PrepBailInv,
       PrepPublishInv, PrepFinishInv, IsrStepInv, IsrEmptyInv, KillInv, StutterInv
    DEF Next, Main, Prep, Isr
  <1> QED
    BY InitInv, <1>1, PTL DEF Spec

\* No index of st_prep_buffer or of the interrupt ever leaves its ring.
THEOREM TypeCorrect == Spec => []TypeOK
  <1>1. IInv => TypeOK
    BY DEF IInv
  <1> QED
    BY Invariance, <1>1, PTL

\* The st_block slot of a queued segment is never overwritten while it is queued.
THEOREM SegmentsStayIntact == Spec => []SegmentsIntact
  <1>1. IInv => SegmentsIntact
    BY DEF IInv, RingInv, SegmentInv, SegmentsIntact
  <1> QED
    BY Invariance, <1>1, PTL

\* Once planner and segment buffer are empty, every event was executed.
THEOREM NothingIsLost == Spec => []AllExecuted
  <1>1. IInv => AllExecuted
    <2> SUFFICES ASSUME IInv, ~PlannerHasBlock, ~pl_block, head = tail, pc # "finish"
                 PROVE  out = [block |-> planned, number |-> EventsOf(planned)]
      BY DEF AllExecuted
    <2>1. planned \in Blocks /\ current \in Nat /\ current = planned + 1
      BY SizesAssumption
      DEF IInv, TypeOK, PlannerTypeOK, PlannerHasBlock, Blocks
    <2>2. ~HasLoaded
      BY DEF IInv, PrepInv, PlannerHasBlock, HasLoaded
    <2>3. Loaded = planned /\ Published = EventsOf(planned)
      BY <2>1, <2>2, SizesAssumption DEF Loaded, Published, Blocks
    <2>4. Joins(out.block, out.number, planned, EventsOf(planned))
      BY <2>3 DEF IInv, ExecInv
    <2>5. planned # 0 => EventsOf(planned) > 0
      <3>1. planned # 0 => events[planned] \in 1 .. MaxEvents
        BY <2>1 DEF IInv, TypeOK, PlannerTypeOK, Blocks
      <3> QED
        BY <3>1, SizesAssumption DEF EventsOf
    <2>6. out.block = planned /\ out.number = EventsOf(planned)
      BY <2>1, <2>4, <2>5, SizesAssumption DEF Joins, Blocks, IInv, TypeOK, IsrTypeOK
    <2> QED
      BY <2>6 DEF IInv, TypeOK, IsrTypeOK
  <1> QED
    BY Invariance, <1>1, PTL

\* The interrupt's steps are steps of the abstract stream, a reset drops what was
\* not executed, and nothing else moves the motors.
THEOREM Implements == Spec => StreamSpec
  <1>1. Init => Stream!Init
    BY DEF Init, Stream!Init
  <1>2. ASSUME IInv, [Next]_vars PROVE [Stream!Next]_(Stream!vars)
    <2>1. CASE UNCHANGED <<events, out>>
      BY <2>1 DEF Stream!vars
    <2>2. CASE IsrStep
      <3> DEFINE s == segment[tail]
                 left == IF executing THEN step_count ELSE s.n_step
      <3>1. /\ SegmentInv(tail)
            /\ s \in Segments /\ s.of \in 1 .. MaxBlocks
            /\ left \in 1 .. s.n_step
            /\ out' = [block |-> s.of, number |-> SegmentEnd(s) - left + 1]
            /\ \/ s.of = out.block /\ out.number = SegmentEnd(s) - left
               \/ /\ s.of = out.block + 1 /\ out.number = EventsOf(out.block)
                  /\ SegmentEnd(s) = left
        BY <1>2, <2>2, IsrStepExecutes
      <3> HIDE DEF left
      <3>2. /\ s.n_step \in 1 .. MaxEvents /\ s.from \in 0 .. MaxEvents
            /\ SegmentEnd(s) = s.from + s.n_step
            /\ SegmentEnd(s) <= events[s.of] /\ events[s.of] \in 1 .. MaxEvents
        BY <1>2, <3>1, SizesAssumption
        DEF Segments, SegmentInv, SegmentEnd, IInv, TypeOK, PlannerTypeOK
      <3>3. events' = events /\ out.block \in Nat /\ out.number \in Nat
        BY <1>2, <2>2, SizesAssumption
        DEF IsrStep, plannerVars, IInv, TypeOK, IsrTypeOK, Blocks
      <3>4. CASE s.of = out.block /\ out.number = SegmentEnd(s) - left
        <4>1. out.number < events[out.block] /\ out.block # 0
          BY <3>1, <3>2, <3>4
        <4>2. out'.block = out.block /\ out'.number = out.number + 1
          BY <3>1, <3>2, <3>4
        <4>3. Stream!NextEvent
          BY <3>3, <4>1, <4>2 DEF Stream!NextEvent, Stream!EventsOf
        <4> QED
          BY <4>3 DEF Stream!Next
      <3>5. CASE /\ s.of = out.block + 1 /\ out.number = EventsOf(out.block)
                 /\ SegmentEnd(s) = left
        <4>1. out'.block = out.block + 1 /\ out'.number = 1
          BY <3>1, <3>2, <3>5
        <4>2. out.block < MaxBlocks
          BY <3>1, <3>3, <3>5, SizesAssumption
        <4>3. Stream!NextBlock
          BY <3>3, <3>5, <4>1, <4>2 DEF Stream!NextBlock, Stream!EventsOf, EventsOf
        <4> QED
          BY <4>3 DEF Stream!Next
      <3> QED
        BY <3>1, <3>4, <3>5
    <2>3. CASE Reset
      <3>1. /\ events' = events
            /\ out' = [block |-> planned, number |-> EventsOf(planned)]
        BY <2>3 DEF Reset
      <3>2. planned \in out.block .. MaxBlocks
        BY <1>2, SizesAssumption
        DEF IInv, ExecInv, PrepInv, Loaded, TypeOK, PlannerTypeOK, IsrTypeOK, Blocks
      <3>3. Stream!Flush
        BY <3>1, <3>2 DEF Stream!Flush, Stream!EventsOf, EventsOf
      <3> QED
        BY <3>3 DEF Stream!Next
    <2>4. CASE \/ PlanLine \/ CycleStart \/ CallPrep \/ FeedHold \/ Override \/ CycleStop
               \/ Prep \/ IsrEmpty \/ Kill \/ UNCHANGED vars
      <3>1. UNCHANGED <<events, out>>
        BY <2>4 DEF PlanLine, CycleStart, CallPrep, FeedHold, Override, CycleStop,
           Prep, PrepCheck, PrepNoBlock, PrepLoadBlock, PrepRecalculate,
           PrepSameBlock, PrepFill, PrepBail, PrepPublish, PrepFinish, IsrEmpty,
           Kill, vars, plannerVars, isrVars
      <3> QED
        BY <2>1, <3>1
    <2> QED
      BY <1>2, <2>2, <2>3, <2>4 DEF Next, Main, Isr
  <1>3. QED
    BY <1>1, <1>2, Invariance, PTL DEF Spec, StreamSpec, Stream!Spec
=============================================================================
