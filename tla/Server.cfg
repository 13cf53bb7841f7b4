CONSTANTS
  MinTf = 1
  BaseTf = 1
  SupportedIntervals = {1, 2}
  BucketsPerWindow = 1
  MaxBars = 3
  Configs <- MCConfigs
  Env <- MCEnv
  Ddl <- MCDdl
  Tokens <- MCTokens
  Stream <- MCStream
  Prints <- MCPrints
  Ranges <- MCRanges
  MaxLag = 2
  MaxFetch = 1
  MaxStarts = 2
  MaxTrades = 3
  MaxTs = 2
  MaxNow = 6
SPECIFICATION Spec
INVARIANTS RetentionInForce RollupExact CachedRangeFinal EveryStreamReachable
CHECK_DEADLOCK FALSE
