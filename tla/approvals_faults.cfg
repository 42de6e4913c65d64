SPECIFICATION Spec
CONSTANTS
  r1 = r1
  r2 = r2
  Requests = {r1, r2}
  Pausable = {r1}
  Backends = {"codex","claude"}
  Modes = {"timed"}
  Interruptible <- EveryStep
  DispatchMayFail = TRUE
  Decisions = {}
  MaxFaults = 1
  MaxAnswers = 1
INVARIANTS OnePending
CHECK_DEADLOCK FALSE
