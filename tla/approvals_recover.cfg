SPECIFICATION FairSpec
CONSTANTS
  r1 = r1
  r2 = r2
  Requests = {r1, r2}
  Pausable = {}
  Backends = {"codex"}
  Modes = {"timed"}
  Interruptible = {"idle", "enqueue", "settle"}
  DispatchMayFail = FALSE
  Decisions = {"decline"}
  MaxFaults = 1
  MaxAnswers = 1
INVARIANTS TypeOK ApprovalsAgree
PROPERTIES PublishedInOrder QueuedIsPublished AutoApproved
CHECK_DEADLOCK FALSE
