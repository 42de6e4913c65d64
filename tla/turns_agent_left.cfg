SPECIFICATION FairSpec
CONSTANTS
  MaxTurns = 1
  Overtaking = FALSE
  MaxFaults = 0
  MaxCancels = 1
PROPERTY AgentStops
CHECK_DEADLOCK FALSE
