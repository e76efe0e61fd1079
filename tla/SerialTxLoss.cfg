SPECIFICATION Spec
CONSTANTS
  TX_RING_BUFFER = 3
  MaxBytes = 6
INVARIANT NoByteLost
CHECK_DEADLOCK FALSE
