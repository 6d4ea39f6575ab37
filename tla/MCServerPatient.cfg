CONSTANTS
  Conns = {c1, c2}
  MaxFds = 3
  First = c1
  MaxRequests <- TwoEach
  PeersEnd = {}
  PeersStall = FALSE
  Listener = Listener
  Free = Free
  MaxWorkers = 4
  NoWorker = NoWorker
  DanFds = {d1, d2, d3}
  NoFd = NoFd
  Sessions = {s1, s2}
  Asks = TRUE
  NoSession = NoSession
SPECIFICATION FairSpec
INVARIANTS
  ParkedReachable
  RequestsConserved
PROPERTIES
  ReplyToSender
  RequestAnswered
