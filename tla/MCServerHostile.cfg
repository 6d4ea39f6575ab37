CONSTANTS
  Conns = {c1, c2}
  MaxFds = 3
  First = c1
  MaxRequests <- TwoFromFirst
  PeersEnd = {"shut", "reset"}
  PeersStall = TRUE
  Listener = Listener
  Free = Free
  MaxWorkers = 6
  NoWorker = NoWorker
  DanFds = {d1, d2, d3}
  NoFd = NoFd
  Sessions = {s1, s2}
  Asks = TRUE
  NoSession = NoSession
SPECIFICATION Spec
INVARIANTS
  RegistrationLive
  ShutdownComplete
  ReclaimedOnce
PROPERTIES
  BroadcastStable
