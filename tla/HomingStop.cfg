SPECIFICATION Spec
CONSTANTS
  N_HOMING_LOCATE_CYCLE = 1
  Seek = 6
  Locate = 15
  Pulloff = 3
  Ring = 3
  Lag = 1
  Start = {0}
INVARIANT MotorsStopped
CHECK_DEADLOCK FALSE
