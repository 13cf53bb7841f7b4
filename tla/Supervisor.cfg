SPECIFICATION FairSpec
CONSTANTS
  Symbols = {a, b}
  TopN = 1
  BackoffMin = 1
  BackoffMax = 2
  MaxGen = 2
  MaxSpawns = 3
INVARIANTS RoutesMatchHandles NoStaleSession SupersededReleased SinksServed
PROPERTIES RoutesReachSession RemovedTasksEnd ShutdownStopsSession
CHECK_DEADLOCK FALSE
