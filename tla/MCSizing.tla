------------------------------ MODULE MCSizing ------------------------------
(***************************************************************************)
(* A small instance of Sizing: rates are parts of 20, so that both fees    *)
(* and slippage are 5%, and plans lie around a price of 10.                *)
(***************************************************************************)
EXTENDS Sizing

MCMinRR == Frac(1, 1)
MCPlannedLoss == Frac(1, 1)
MCDefault == [risk |-> 1, daily |-> 1, leverage |-> 1]
MCAllowed == [risk |-> {1, 2}, daily |-> {1}, leverage |-> {1, 2}]
MCRequests == {[risk |-> 2, leverage |-> 2], [risk |-> 3, daily |-> 1, leverage |-> 3]}
MCConfigRequests == {[risk |-> 8, daily |-> 0]}

MCPlan(d, e, s, t) == [direction |-> d, entry |-> e, stop |-> s, target |-> t]
MCPlans == {
  MCPlan("LONG", 10, 9, 15), MCPlan("SHORT", 10, 11, 4),
  MCPlan("LONG", 10, 8, 12),    \* reward as large as the risk
  MCPlan("LONG", 10, 9, 14),    \* reward too small after fees
  MCPlan("LONG", 10, 11, 4),    \* stop and target on the wrong sides
  MCPlan("SHORT", 10, 10, 4), MCPlan("LONG", 10, 0, 12) }
MCEquities == {0, 20}
MCPrices == {4, 9, 10, 11, 12, 15}
MCFilters == {
  [step |-> 2, min |-> 1, max |-> 100, tick |-> 1, notional |-> 1],
  [step |-> 1, min |-> 1, max |-> 100, tick |-> 1, notional |-> 1],
  [step |-> 4, min |-> 0, max |-> 1, tick |-> 5, notional |-> 0] }

\* Without it TargetPays may fail.
ASSUME MCCostsCovered == CostsCovered
=============================================================================
