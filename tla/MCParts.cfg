CONSTANTS
  Jobs = {j1, j2}
  MaxWorkers = 4
  Objs = {1, 2, 3, 4, 5, 6}
  KEEP_SIZE = 2
  MAX_SIZE = 3
  KEEP_TIME = 1
  MaxTotal = 8
  tick = tick
  slow = slow
  Periodic = {tick, slow}
  Interval <- Intervals
  Waiting = {w1}
  Timeouts <- WaitTimes
  Wrap = 4
  MaxTimers = 4
  PageSize = 2
  Pages = 8
  HeapSizes = {1, 2, 3, 4}
  Heaps = {h1, h2}
  Chars <- Characters
  Sqls <- Statements
  Strings <- Values
  ArgsWrap = 4
  MaxHandles = 2
  MaxRows = 2
  MaxFields = 1
  MaxQueries = 2
SPECIFICATION PartsSpec
INVARIANTS
  ManagerTypeOK
  IdleListExact
  BusyCountExact
  ContextsMatch
  CurrentIsOnCpu
  PoolTypeOK
  PoolExact
  PoolBounded
  TypeOK
  RunsInOrder
  StackGuarded
  ConnectedIsOpen
  HandleOwned
  SqlExact
  RowsCurrent
PROPERTIES
  ImplementsPool
  FreshFirst
  ImplementsSource
  TickRepeats
