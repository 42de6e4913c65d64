SPECIFICATION ServicesSpec
CONSTANTS
  MaxEvents = 3
  Completes = {1}
  PageSize = 1
  Requests = {q1, q2}
  NoRequest = NoRequest
  MaxDisturbances = 1
  Peers = {b1, b2}
  NoPeer = NoPeer
  MaxOutput = 2
  MaxTerminalFaults = 1
  Browsers = {n1, n2}
  Sockets = {w1, w2}
  NoSocket = NoSocket
  MaxSeq = 1
  MaxKeys = 1
  MaxUpsets = 1
  Steers = {u1, u2}
  Tools = {k1}
  MaxAgentOutput = 3
  Turns = {t1, t2}
  NoTurn = NoTurn
  MaxWorkers = 2
  MaxAsks = 2
  MaxStarts = 2
  MaxFaults = 2
  Users = {a1, a2}
  NoUser = NoUser
  Tokens = {l1, l2}
  NoToken = NoToken
  Pages = {p1, p2}
  Conns = {c1}
  MaxWrites = 2
  MaxCuts = 1
INVARIANTS
  ServicesTypeOK
  ClientSafe
  TerminalSafe
  ViewSafe
  ClaudeSafe
  CodexSafe
  LauncherSafe
  AccountsSafe
PROPERTIES
  EndIsSeen
  TurnFollowsAgent
  CodexAnswers
  TerminalsSettle
CHECK_DEADLOCK FALSE
