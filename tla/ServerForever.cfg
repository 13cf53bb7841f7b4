CONSTANTS
  MinTf = 1
  BaseTf = 1
  SupportedIntervals = {1, 2}
  BucketsPerWindow = 1
  MaxBars = 3
  Configs <- MCForever
  Env <- MCSecret
  Ddl <- MCDdl
  Tokens <- MCTokens
  Stream <- MCStream
  Prints <- MCPrints
  Ranges <- MCRanges
  MaxLag = 2
  MaxFetch = 1
  MaxStarts = 2
  MaxTrades = 1
  MaxTs = 2
  MaxNow = 6
SPECIFICATION Spec
INVARIANT RetentionInForce
CHECK_DEADLOCK FALSE
