SPECIFICATION Spec
CONSTANTS
  MaxTurns = 2
  Overtaking = TRUE
  MaxFaults = 1
  MaxCancels = 1
INVARIANT OneActive
CHECK_DEADLOCK FALSE
