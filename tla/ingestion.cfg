SPECIFICATION IngestionSpec
CONSTANTS
  Keys = {"a", "b"}
  Facts <- AllFacts
  Emitters = {"e"}
  Remotes = {TRUE, FALSE}
  TimerWritesMayFail = FALSE
  MaxEvents = 4
  MaxFaults = 2
  MaxFeed = 3
  MaxEndFaults = 1
  Commands = {"command"}
  Edits = {"edit1", "edit2"}
  Tasks = {"task"}
  MaxWork = 3
  MaxPrints = 1
INVARIANTS IngestionTypeOK AcceptedInOrder EndingSafe TimelineSafe
PROPERTIES LogSpec Delivered
CHECK_DEADLOCK FALSE
