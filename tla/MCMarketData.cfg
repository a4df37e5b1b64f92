\* Two pool threads, two symbols and one refresh from either universe.
SPECIFICATION FairSpec
CONSTANTS
  Pool = {f1, f2}
  Refresher = md
  Scanner = worker
  Symbols = {a, b}
  Intervals = {m5}
  TickerWeight = 2
  FlushAt = 1
  MaxRounds = 1
  MaxIdle = 1
  MaxScanWeight = 2
INVARIANT AverageRate
PROPERTY Paced OkMeansCached RefreshEnds
CHECK_DEADLOCK FALSE
