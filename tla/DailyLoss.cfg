\* Two losing trades in a row, worth the daily limit, then a third entry.
SPECIFICATION Spec
CONSTANTS
  Worker = w
  Web = {}
  g1 = g1
  g2 = g2
  s1 = s1
  s2 = s2
  Signals = {g1, g2, g3}
  NoActor = NoActor
  NoSignal = NoSignal
  Symbols = {s1}
  SymbolOf <- MCSameSymbol
  OtherModes = FALSE
  Markets = {"any"}
  MaxPositions = 1
  StartBalance = 200
  DailyLossPct = 1
  Pnls <- MCLoss
  MaxTrades = 3
  MaxFaults = 0
PROPERTY DailyLossStopsEntries
