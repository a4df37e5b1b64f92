\* The worker alone, in any mode, under the fairness of its scheduling.
SPECIFICATION FairSpec
CONSTANTS
  Worker = w
  Web = {}
  g1 = g1
  g2 = g2
  s1 = s1
  s2 = s2
  Signals = {g1, g2}
  NoActor = NoActor
  NoSignal = NoSignal
  Symbols = {s1, s2}
  SymbolOf <- MCSymbolOf
  OtherModes = TRUE
  Markets = {"any", "hit"}
  MaxPositions = 1
  StartBalance = 200
  DailyLossPct = 1
  Pnls <- MCLoss
  MaxTrades = 2
  MaxFaults = 1
INVARIANT PositionLimit ExecutedOnce
PROPERTY ResultFinal StopsHonoured
