SPECIFICATION Spec
CONSTANTS
  N_COORDINATE_SYSTEM = 2
  N_STARTUP_LINE = 1
  Values = {v1}
  MaxLosses = 2
  MaxCommands = 3
INVARIANTS TypeOK UsesStored Survives Wiped
