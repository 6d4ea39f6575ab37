CONSTANTS
  Conns = {c1, c2}
  MaxFds = 3
  First = c1
  MaxRequests <- OneEach
  PeersEnd = {}
  PeersStall = FALSE
  Listener = Listener
  Free = Free
  MaxWorkers = 3
  NoWorker = NoWorker
  DanFds = {d1, d2, d3}
  NoFd = NoFd
  Sessions = {s1, s2}
  Asks = FALSE
  NoSession = NoSession
SPECIFICATION Spec
SYMMETRY Interchangeable
INVARIANTS
  AcceptedServed
