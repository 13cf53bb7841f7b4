SPECIFICATION FairSpec
CONSTANTS
  sym1 = sym1
  sym2 = sym2
  Symbols = {sym1, sym2}
  RouteSets <- MCRouteSets
  ShardSize = 1
  BatchSize = 1
  BackoffMin = 1
  BackoffMax = 3
  MaxCycles = 1
  MaxEnds = 2
  MaxFrames = 2
  MaxIdFrames = 4
  MaxId = 4
  MaxPings = 1
INVARIANTS
  FedExactlyOnce
  StatsAccount
  GapCountersSound
PROPERTIES
  EverySymbolFedAgain
CHECK_DEADLOCK FALSE
