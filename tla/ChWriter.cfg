SPECIFICATION FairSpec
CONSTANTS
  Keys = {k1, k2}
  ChannelBound = 2
  BatchSize = 2
  MaxBufferRows = 3
  FlushInterval = 1
  BackoffMax = 2
  MaxRows = 5
  MaxLate = 1
INVARIANTS
  FreshestKept
  EveryRowAccounted
  AckedStored
PROPERTY
  RowsSettle
CHECK_DEADLOCK FALSE
