SPECIFICATION FairSpec
CONSTANTS
  Capacity = 2
  ChannelBound = 1
  RowsPerSnapshot = 2
  MaxFrames = 4
INVARIANTS
  LagCounted
  SnapshotsArriveWhole
PROPERTY
  ConsumersCatchUp
CHECK_DEADLOCK FALSE
