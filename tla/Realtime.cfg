SPECIFICATION Spec
CONSTANTS
  PlannerSize = 2
  SegmentCount = 2
  Requests = {"FEED_HOLD", "SAFETY_DOOR", "CYCLE_START", "JOG_CANCEL", "RESET", "LIMIT", "SPINDLE_STOP",
              "PIN_FEED_HOLD", "PIN_CYCLE_START"}
  Commands = {"line", "jog", "sync", "sleep", "unlock"}
  MaxRequests = 3
INVARIANTS TypeOK StoppedWhenSaid
PROPERTIES NoAutoResume SyncStops JogCancelFlushes SpindleStopEnds
CHECK_DEADLOCK FALSE
