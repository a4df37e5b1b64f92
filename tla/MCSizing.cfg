CONSTANTS
  Unit = 20
  Taker = 1
  Slippage = 1
  MinRR <- MCMinRR
  PlannedLoss <- MCPlannedLoss
  Default <- MCDefault
  Allowed <- MCAllowed
  Requests <- MCRequests
  ConfigRequests <- MCConfigRequests
  Plans <- MCPlans
  Equities <- MCEquities
  Prices <- MCPrices
  Filters <- MCFilters
  NoValue = NoValue
SPECIFICATION Spec
INVARIANTS
  LossWithinBudget
  LargestAllowed
  LossTraced
  TargetPays
  StoredIsUsed
  RangesKept
