SPECIFICATION Spec
CONSTANTS
  r1 = r1
  r2 = r2
  Requests = {r1}
  Pausable = {r1}
  Backends = {"codex"}
  Modes = {"timed"}
  Interruptible = {"idle"}
  DispatchMayFail = FALSE
  Decisions = {}
  MaxFaults = 1
  MaxAnswers = 1
PROPERTY PauseHolds
CHECK_DEADLOCK FALSE
