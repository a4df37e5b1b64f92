\* The same histories: the maximum drawdown against the falls of the snapshots.
SPECIFICATION FiguresSpec
CONSTANTS
  Top = 5
  Shapes <- MCCandles
  MaxCandles = 5
  Starting = 4
  Pnls <- MCPnls
  Limit = 3
  MaxTrades = 3
  MaxSnaps = 4
INVARIANT MaxDrawdownIsFall
CHECK_DEADLOCK FALSE
