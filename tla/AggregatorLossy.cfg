SPECIFICATION LossySpec
CONSTANTS
  BucketStep = 10
  WindowNs = 2
  DiffIntervalNs = 2
  MaxQty = 3
  MaxTradeCount = 2
  Trades <- MCTrades
  Clock <- MCClock
  MaxIngested = 4
INVARIANTS
  NoMissingBucket
  LiveNeverWrong
  TableAgrees
  ClosedWindowExact
  LateTradesCounted
  ClosingRestores
PROPERTIES
  SequenceGapFree
  RowsOnlyGrow
CHECK_DEADLOCK FALSE
