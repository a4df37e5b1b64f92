\* A manual entry races the worker for the only position.
SPECIFICATION Spec
CONSTANTS
  Worker = w
  Web = {d}
  g1 = g1
  g2 = g2
  s1 = s1
  s2 = s2
  Signals = {g1, g2}
  NoActor = NoActor
  NoSignal = NoSignal
  Symbols = {s1}
  SymbolOf <- MCSameSymbol
  OtherModes = FALSE
  Markets = {"any"}
  MaxPositions = 1
  StartBalance = 200
  DailyLossPct = 1
  Pnls <- MCLoss
  MaxTrades = 2
  MaxFaults = 1
INVARIANT PositionLimit
SYMMETRY MCSwap
