SPECIFICATION Spec
CONSTANTS
  Keys = {"a", "b"}
  Facts <- AllFacts
  Emitters = {"e", "f"}
  Remotes = {TRUE, FALSE}
  TimerWritesMayFail = FALSE
  MaxEvents = 3
  MaxFaults = 1
INVARIANT Gapless
CHECK_DEADLOCK FALSE
