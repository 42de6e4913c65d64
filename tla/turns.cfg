SPECIFICATION TurnsSpec
CONSTANTS
  MaxTurns = 2
  Overtaking = FALSE
  MaxFaults = 1
  MaxCancels = 1
  Instances = {i1, i2}
  Nobody = Nobody
  MaxSwitchFaults = 2
  MaxNewTurns = 2
  Callers = {r1, r2}
  Slots = {s1, s2}
  MaxThreads = 3
  MaxCalls = 3
  MaxThreadFaults = 1
INVARIANTS TurnsTypeOK OneActive SwitchSafe SessionsSafe
PROPERTIES EndedStaysEnded NotStuck CancelEnds
CHECK_DEADLOCK FALSE
