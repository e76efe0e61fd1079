CONSTANTS
  SEGMENT_BUFFER_SIZE = 4
  MaxBlocks = 4
  MaxEvents = 2
  MaxRequests = 1
SPECIFICATION FairSpec
INVARIANTS
  TypeOK
  SegmentsIntact
  AllExecuted
PROPERTIES
  StreamSpec
  HoldCompletes
\* A program comes to its end: the machine is idle and nothing more is planned.
CHECK_DEADLOCK FALSE
