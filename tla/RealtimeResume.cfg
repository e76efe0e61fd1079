SPECIFICATION Spec
CONSTANTS
  PlannerSize = 1
  SegmentCount = 1
  Requests = {"FEED_HOLD", "SAFETY_DOOR", "CYCLE_START"}
  Commands = {"line"}
  MaxRequests = 5
PROPERTY HoldsForUser
CHECK_DEADLOCK FALSE
