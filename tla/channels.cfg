SPECIFICATION ChannelsSpec
CONSTANTS
  Messages <- TwoRows
  Bindings = {d1}
  Web = web
  Limit = 2
  Loops = {l1, l2}
  MaxOutboxFaults = 1
  Channels = {c1}
  Threads = {th1}
  Projects = {p1, p2}
  Sessions = {s1, s2}
  Tasks = {k1, k2}
  Runtimes <- FiveRuntimes
  Nothing = Nothing
  MaxBindingOps = 2
  MaxUnreadable = 1
  Inbound = {m1, m2}
  MaxInboundFaults = 1
  Noted = {n1, n2}
  Nobody = Nobody
  MaxAttempts = 2
  MaxVersions = 2
  MaxHealth = 2
  Inputs = {u1}
  MaxPosts = 2
  MaxInputFaults = 2
INVARIANTS
  ChannelsTypeOK
  OutboxSafe
  OneSessionPerTarget
  ActedOnce
  HealthIsTrue
  GivenOnce
PROPERTIES
  KeepsPromise
  MessagesSettle
  PluginSettles
CHECK_DEADLOCK FALSE
