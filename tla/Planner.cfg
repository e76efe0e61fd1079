SPECIFICATION Spec
CONSTANTS
  BLOCK_BUFFER_SIZE = 4
  Lengths = {1, 3}
  Junctions = {1, 4}
  Rates = {1}
  Overrides = {1, 3}
  MaxLines = 4
  MaxRequests = 2
INVARIANTS TypeOK PlannedInRing Feasible ExitAgrees PlanOptimal RestAfterHold
CHECK_DEADLOCK FALSE
