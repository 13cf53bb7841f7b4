SPECIFICATION FairSpec
CONSTANTS
  Timeframes = {tf30, tf60}
  Busy = {tf60}
  TradeBound = 2
  MaxTrades = 7
INVARIANTS
  ExitAfterDrain
PROPERTIES
  IsLossyStream
  FastTimeframesServed
  CloseDrains
CHECK_DEADLOCK FALSE
