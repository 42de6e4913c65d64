SPECIFICATION Spec
CONSTANTS
  Keys = {"a", "b"}
  Facts <- AllFacts
  Emitters = {"e"}
  Remotes = {TRUE, FALSE}
  TimerWritesMayFail = TRUE
  MaxEvents = 3
  MaxFaults = 1
INVARIANT Kept
CHECK_DEADLOCK FALSE
