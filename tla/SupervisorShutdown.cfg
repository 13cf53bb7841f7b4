SPECIFICATION FairSpec
CONSTANTS
  Symbols = {a, b}
  TopN = 1
  BackoffMin = 1
  BackoffMax = 3
  MaxGen = 1
  MaxSpawns = 3
PROPERTY ShutdownCompletes
CHECK_DEADLOCK FALSE
