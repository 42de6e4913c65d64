SPECIFICATION Spec
CONSTANTS
  r1 = r1
  r2 = r2
  Requests = {r1, r2}
  Pausable = {}
  Backends = {"codex"}
  Modes = {"timed"}
  Interruptible <- EveryStep
  DispatchMayFail = FALSE
  Decisions = {}
  MaxFaults = 1
  MaxAnswers = 1
INVARIANT QueuedIsBehindPending
CHECK_DEADLOCK FALSE
