SPECIFICATION FairSpec
CONSTANTS
  N_HOMING_LOCATE_CYCLE = 1
  Seek = 6
  Locate = 15
  Pulloff = 3
  Ring = 3
  Lag = 1
  Start = {0, 5}
INVARIANTS TypeOK HomedAtSwitch OvershootBounded
PROPERTIES HomingEnds
CHECK_DEADLOCK FALSE
