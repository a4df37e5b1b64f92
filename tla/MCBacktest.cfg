\* Slices of four and of six trend candles, with and without entry candles, and one
\* run over all eight with an engine without cooldown.
SPECIFICATION FairSpec
CONSTANTS
  HtfTotal = 8
  Ratio = 2
  MinTotal = 6
  Splits = 3
  MinHistory = 1
  DayLength = 8
  Cooldown = 2
  StartBalance = 1000
  DailyLossPct = 1
  Pnls <- MCPnls
INVARIANT Accounting DrawdownReported NoLookAhead DailyLossGuard CooldownsHold
PROPERTY TradesReported Finishes
CHECK_DEADLOCK FALSE
