SPECIFICATION FairSpec
CONSTANTS
  PlannerSize = 1
  SegmentCount = 1
  Requests = {"FEED_HOLD", "SAFETY_DOOR", "JOG_CANCEL", "RESET", "LIMIT"}
  Commands = {"line", "jog", "probe", "sleep"}
  MaxRequests = 2
PROPERTIES HoldCompletes JogCancelCompletes ResetHonoured ProbeReturns
CHECK_DEADLOCK FALSE
