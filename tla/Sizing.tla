------------------------------- MODULE Sizing -------------------------------
(***************************************************************************)
(* One planned trade from its sizing to its end, under settings that the   *)
(* dashboard changes meanwhile: Sizer.calculate (paper trading) and        *)
(* size_position (the live path) turn a plan, the equity and the risk      *)
(* settings into a quantity; PaperTrader fills it at the market and closes *)
(* it; SettingsManager validates, stores and reloads the settings, and     *)
(* PUT /api/sizer/config writes two of them without validation.            *)
(*                                                                         *)
(* Prices and equity are whole numbers, rates are parts of Unit, and every *)
(* quantity and amount is an exact fraction: the 28 digits of Decimal are  *)
(* not modelled.                                                           *)
(***************************************************************************)
EXTENDS Integers

CONSTANTS
  Unit,           \* parts that make up 100%
  Taker,          \* settings.estimated_taker_fee, in parts
  Slippage,       \* settings.estimated_slippage, in parts
  MinRR,          \* settings.min_reward_to_risk, a fraction
  PlannedLoss,    \* settings.max_planned_loss_per_trade, a fraction
  Default,        \* the settings the environment gives
  Allowed,        \* setting -> the values validate_and_set accepts
  Requests,       \* what PUT /api/admin/settings may ask for
  ConfigRequests, \* what PUT /api/sizer/config may ask for
  Plans,          \* direction, entry, stop and target of a trade
  Equities,       \* the equity a caller may hand to the sizer
  Prices,         \* what a ticker may answer
  Filters,        \* exchange filters a symbol may have
  NoValue         \* a setting that is not stored

Keys == {"risk", "daily", "leverage"}
Loaded == {"risk", "daily"}   \* the ones load_into_settings reads back
KeyOrder == <<"risk", "daily", "leverage">>
Directions == {"LONG", "SHORT"}

Fraction == [num : Int, den : Nat \ {0}]
Plan == [direction : Directions, entry : Int, stop : Int, target : Int]

ASSUME RatesType == Unit \in Nat \ {0} /\ Taker \in Nat /\ Slippage \in Nat
ASSUME MinRRType == MinRR \in Fraction /\ MinRR.num >= 0
ASSUME PlannedLossType == PlannedLoss \in Fraction /\ PlannedLoss.num >= 0
ASSUME PlansType == Plans \subseteq Plan /\ Plans # {}
ASSUME EquitiesType == Equities \subseteq Int
ASSUME PricesType == Prices \subseteq Nat \ {0}
ASSUME FiltersType ==
  Filters \subseteq [step : Nat \ {0}, min : Nat, max : Nat, tick : Nat \ {0}, notional : Nat]
ASSUME SettingsType ==
  /\ Default \in [Keys -> Int]
  /\ Allowed \in [Keys -> SUBSET Int]
  /\ \A k \in Keys : Default[k] \in Allowed[k]
  /\ Allowed["leverage"] \subseteq Nat \ {0}
  /\ \A data \in Requests :
       DOMAIN data \subseteq Keys /\ \A k \in DOMAIN data : data[k] \in Int
  /\ \A data \in ConfigRequests :
       DOMAIN data \subseteq Loaded /\ \A k \in DOMAIN data : data[k] \in Int
  /\ NoValue \notin Int

VARIABLES
  live,       \* the settings object all threads read
  stored,     \* table settings
  lost,       \* history: settings a failed write or read has set apart from the table
  unchecked,  \* history: settings last stored without validation
  trade       \* the trade in question

vars == <<live, stored, lost, unchecked, trade>>
settings == <<live, stored, lost, unchecked>>

-----------------------------------------------------------------------------
(* Exact fractions                                                         *)

Frac(n, d) == [num |-> n, den |-> d]
AtMost(a, b) == a.num * b.den <= b.num * a.den
Equal(a, b) == a.num * b.den = b.num * a.den
Smaller(a, b) == IF AtMost(a, b) THEN a ELSE b
Product(a, b) == Frac(a.num * b.num, a.den * b.den)
Quotient(a, b) == Frac(a.num * b.den, a.den * b.num)   \* for b > 0
Distance(x, y) == IF x > y THEN x - y ELSE y - x

-----------------------------------------------------------------------------
(* What the sizers compute                                                 *)

\* fee_estimate for a quantity of one, in parts.
FeeEstimate(entry, exit) == (entry + exit) * (Taker + Slippage)

\* gross_risk + fees for a quantity of one: what a unit loses at the stop.
UnitLoss(plan) ==
  Frac(Distance(plan.entry, plan.stop) * Unit + FeeEstimate(plan.entry, plan.stop), Unit)

\* Seeded fault: the margin is computed without leverage.
FirstUnlevered(budget, equity, leverage, plan) ==
  Smaller(Quotient(budget, Frac(Distance(plan.entry, plan.stop), 1)),
          Frac(equity, plan.entry))

\* The quantity of the risk budget without fees, capped by the margin.
FirstQuantity(budget, equity, leverage, plan) ==
  Smaller(Quotient(budget, Frac(Distance(plan.entry, plan.stop), 1)),
          Frac(equity * leverage, plan.entry))

\* Scaled down once when fees lift its loss over the budget.  The code scales
\* by risk_budget / total_loss with total_loss = qty * UnitLoss, which is the
\* quotient below whatever qty is (Lemma ScalingIsQuotient).
Quantity(budget, equity, leverage, plan) ==
  LET first == FirstQuantity(budget, equity, leverage, plan)
  IN IF AtMost(Product(first, UnitLoss(plan)), budget)
     THEN first
     ELSE Quotient(budget, UnitLoss(plan))

\* Seeded fault: the reward is compared before fees.
RewardGross(plan) ==
  AtMost(Product(MinRR, Frac(Distance(plan.entry, plan.stop), 1)),
         Frac(Distance(plan.target, plan.entry), 1))

\* net_reward / total_loss >= min_reward_to_risk; the quantity cancels out.
\* The fees are the ones of an exit at the stop.
RewardSuffices(plan) ==
  AtMost(Product(MinRR, UnitLoss(plan)),
         Frac(Distance(plan.target, plan.entry) * Unit
                - FeeEstimate(plan.entry, plan.stop), Unit))

\* The early returns both sizers share, in their order.
Verdict(budget, equity, leverage, plan) ==
  LET qty == Quantity(budget, equity, leverage, plan)
  IN IF plan.entry <= 0 \/ plan.stop <= 0 THEN "prices"
     ELSE IF plan.entry = plan.stop THEN "distance"
     ELSE IF FirstQuantity(budget, equity, leverage, plan).num <= 0 THEN "quantity"
     ELSE IF ~ AtMost(Product(qty, UnitLoss(plan)), budget) THEN "budget"
     ELSE IF ~ RewardSuffices(plan) THEN "reward"
     ELSE IF ~ AtMost(Product(qty, Frac(plan.entry, leverage)), Frac(equity, 1))
     THEN "margin"
     ELSE "approved"

\* leverage = min(max_leverage, max_leverage), at least 1.
Leverage == IF live["leverage"] < 1 THEN 1 ELSE live["leverage"]

\* Seeded fault: rounds to the nearest step.
RoundedHalfUp(qty, filter) ==
  Frac((2 * qty.num * filter.step + qty.den) \div (2 * qty.den), filter.step)

\* round_quantity, for a step of 1 / filter.step.
RoundQuantity(qty, filter) ==
  Frac((qty.num * filter.step) \div qty.den, filter.step)

\* validate_order for an order at the plan's entry price.
ValidateOrder(filter, qty, price) ==
  /\ AtMost(Frac(filter.min, filter.step), qty)
  /\ AtMost(qty, Frac(filter.max, filter.step))
  /\ Equal(RoundQuantity(qty, filter), qty)
  /\ price % filter.tick = 0
  /\ AtMost(Frac(filter.notional, 1), Product(qty, Frac(price, 1)))

-----------------------------------------------------------------------------
(* The trade                                                               *)

Phases == {"none", "refused", "sized", "recorded", "open", "closed"}
Verdicts == {"gate", "prices", "distance", "quantity", "budget", "reward", "margin",
             "filter", "approved"}
Zero == Frac(0, 1)

\* A trade that Sizer.calculate or size_position has judged.
Judged(phase, verdict, plan, budget, margin, qty) ==
  [phase |-> phase, verdict |-> verdict, plan |-> plan, budget |-> budget,
   margin |-> margin, qty |-> qty, fill |-> 0, exit |-> 0, result |-> Zero]

NoTrade == Judged("none", "gate", CHOOSE plan \in Plans : TRUE, Zero, 0, Zero)

MayStart == trade.phase = "none"

\* Sizer.calculate for the worker or a handler.  The kill switch, the rug
\* rating and the number of positions may refuse any plan (they are modelled
\* in PaperEngine); the daily limit does when it is not positive, because the
\* loss used is constantly 0.
SizePaper(plan, equity) ==
  LET budget == Frac(equity * live["risk"], Unit)
      verdict == Verdict(budget, equity, Leverage, plan)
      qty == Quantity(budget, equity, Leverage, plan)
  IN /\ MayStart
     /\ \/ trade' = Judged("refused", "gate", plan, budget, 0, Zero)
        \/ /\ 0 < equity * live["daily"]
           /\ IF verdict = "approved"
              THEN trade' = Judged("sized", verdict, plan, budget, equity * Leverage, qty)
              ELSE trade' = Judged("refused", verdict, plan, budget, 0, Zero)
     /\ UNCHANGED settings

\* execute_signal up to the order: size_position against a fixed budget, then
\* the symbol's filters.  What follows is LiveExecution.
SizeLive(plan, equity, filter) ==
  LET verdict == Verdict(PlannedLoss, equity, Leverage, plan)
      qty == RoundQuantity(Quantity(PlannedLoss, equity, Leverage, plan), filter)
      refused(why) == trade' = Judged("refused", why, plan, PlannedLoss, 0, Zero)
  IN /\ MayStart
     /\ \/ verdict # "approved" /\ refused(verdict)
        \/ /\ verdict = "approved"
           /\ IF ValidateOrder(filter, qty, plan.entry)
              THEN trade' = Judged("recorded", verdict, plan, PlannedLoss,
                                   equity * Leverage, qty)
              ELSE refused("filter")
     /\ UNCHANGED settings

\* A judged trade is over, or the duplicate checks or the insert turn it down:
\* the next one is looked at.
Drop ==
  /\ trade.phase \notin {"none", "open"}
  /\ trade' = NoTrade
  /\ UNCHANGED settings

\* PaperTrader.open_position: filled at the ticker's price, or at the plan's
\* when there is none, with the quantity that was sized before.
OpenPosition(price) ==
  /\ trade.phase = "sized"
  /\ trade' = [trade EXCEPT !.phase = "open", !.fill = price]
  /\ UNCHANGED settings

\* Seeded fault: the fees of the entry are charged when it closes, too.
UnitResultFeesTwice(direction, fill, price) ==
  LET side == IF direction = "LONG" THEN 1 ELSE -1
      entry == fill * (Unit + side * Slippage)
      exit == price * (Unit - side * Slippage)
  IN Frac(side * (exit - entry) * Unit - 2 * FeeEstimate(entry, exit), Unit * Unit)

\* close_position for a quantity of one: both fills are worse by the slippage
\* than the ticker, and the fee estimate counts the slippage once more.
UnitResult(direction, fill, price) ==
  LET side == IF direction = "LONG" THEN 1 ELSE -1
      entry == fill * (Unit + side * Slippage)
      exit == price * (Unit - side * Slippage)
  IN Frac(side * (exit - entry) * Unit - FeeEstimate(entry, exit), Unit * Unit)

\* Closed at a price an exit level or the operator calls for.
ClosePosition(price) ==
  /\ trade.phase = "open"
  /\ trade' = [trade EXCEPT !.phase = "closed", !.exit = price,
                 !.result = Product(trade.qty,
                              UnitResult(trade.plan.direction, trade.fill, price))]
  /\ UNCHANGED settings

-----------------------------------------------------------------------------
(* The settings                                                            *)

\* Those of ks that an update sets, because their values are in range.
Accepted(data, ks) == {k \in ks \cap DOMAIN data : data[k] \in Allowed[k]}

\* Seeded fault: a value is stored before its range is looked at.
ValidateAndSetLate(data, n) ==
  LET asked == DOMAIN data \cap {KeyOrder[i] : i \in 1 .. n}
      done == Accepted(data, asked)
  IN /\ live' = [k \in Keys |-> IF k \in done THEN data[k] ELSE live[k]]
     /\ stored' = [k \in Loaded |-> IF k \in asked THEN data[k] ELSE stored[k]]
     /\ lost' = lost \ done
     /\ unchecked' = unchecked \ asked
     /\ UNCHANGED trade

\* SettingsManager.validate_and_set: the first n settings are handled; the next
\* one raises, because its value is none or because it cannot be stored, and
\* then is live all the same.
ValidateAndSet(data, n) ==
  LET done == Accepted(data, {KeyOrder[i] : i \in 1 .. n})
      next == Accepted(data, IF n < 3 THEN {KeyOrder[n + 1]} \cap Loaded ELSE {})
  IN \E torn \in {{}, next} :
       /\ live' = [k \in Keys |-> IF k \in done \cup torn THEN data[k] ELSE live[k]]
       /\ stored' = [k \in Loaded |-> IF k \in done THEN data[k] ELSE stored[k]]
       /\ lost' = (lost \ done) \cup torn
       /\ unchecked' = unchecked \ done
       /\ UNCHANGED trade

\* PUT /api/sizer/config: sets what it is given and stores what is live then;
\* reading the second value or storing either one may raise.
SizerConfig(data) ==
  \E set \in {DOMAIN data, DOMAIN data \cap {"risk"}},
     saved \in {{}, {"risk"}, {"risk", "daily"}} :
       /\ saved # {} => set = DOMAIN data
       /\ live' = [k \in Keys |-> IF k \in set THEN data[k] ELSE live[k]]
       /\ stored' = [k \in Loaded |-> IF k \in saved THEN live'[k] ELSE stored[k]]
       /\ lost' = (lost \cup set) \ saved
       /\ unchecked' = unchecked \cup set
       /\ UNCHANGED trade

\* Seeded fault: the daily limit is not read back.
RestartForgetful ==
  \E failed \in SUBSET Loaded :
    /\ live' = [k \in Keys |-> IF k = "risk" /\ k \notin failed /\ stored[k] # NoValue
                               THEN stored[k] ELSE Default[k]]
    /\ lost' = failed
    /\ trade' = IF trade.phase = "sized" THEN NoTrade ELSE trade
    /\ UNCHANGED <<stored, unchecked>>

\* The process starts again: load_into_settings, where a read that raises is
\* passed over.
Restart ==
  \E failed \in SUBSET Loaded :
    /\ live' = [k \in Keys |-> IF k \in Loaded \ failed /\ stored[k] # NoValue
                               THEN stored[k] ELSE Default[k]]
    /\ lost' = failed
    /\ trade' = IF trade.phase = "sized" THEN NoTrade ELSE trade
    /\ UNCHANGED <<stored, unchecked>>

-----------------------------------------------------------------------------

Init ==
  /\ live = Default
  /\ stored = [k \in Loaded |-> NoValue]
  /\ lost = {} /\ unchecked = {}
  /\ trade = NoTrade

Next ==
  \/ \E plan \in Plans, equity \in Equities : SizePaper(plan, equity)
  \/ \E plan \in Plans, equity \in Equities, filter \in Filters :
       SizeLive(plan, equity, filter)
  \/ Drop
  \/ \E price \in Prices : OpenPosition(price)
  \/ \E price \in Prices : ClosePosition(price)
  \/ \E data \in Requests, n \in 0 .. 3 : ValidateAndSet(data, n)
  \/ \E data \in ConfigRequests : SizerConfig(data)
  \/ Restart

Spec == Init /\ [][Next]_vars

-----------------------------------------------------------------------------
(* Properties                                                              *)

TypeOK ==
  /\ live \in [Keys -> Int]
  /\ stored \in [Loaded -> Int \cup {NoValue}]
  /\ lost \subseteq Loaded /\ unchecked \subseteq Loaded
  /\ trade.phase \in Phases /\ trade.verdict \in Verdicts
  /\ trade.plan \in Plans
  /\ trade.budget \in Fraction /\ trade.qty \in Fraction
  /\ trade.margin \in Int
  /\ trade.fill \in Prices \cup {0} /\ trade.exit \in Prices \cup {0}
  /\ trade.result \in Fraction

Approved == trade.phase \in {"sized", "recorded", "open", "closed"}

\* A trade that was approved loses at most its risk budget at the planned
\* prices, fees included, and fits the margin: whatever the settings were when
\* it was sized, whoever sized it, and after rounding to the exchange's steps.
LossWithinBudget ==
  Approved =>
    /\ trade.qty.num >= 0
    /\ AtMost(Product(trade.qty, UnitLoss(trade.plan)), trade.budget)
    /\ AtMost(Product(trade.qty, Frac(trade.plan.entry, 1)), Frac(trade.margin, 1))

\* A paper quantity is the largest that both limits allow: scaling once for the
\* fees neither falls short of the budget nor needs another round.
LargestAllowed ==
  (Approved /\ trade.phase # "recorded") =>
    Equal(trade.qty, Smaller(Quotient(trade.budget, UnitLoss(trade.plan)),
                             Frac(trade.margin, trade.plan.entry)))

\* The checks after the scaling (sizer.py:77 and :89, risk_engine.py:84 and :97)
\* refuse nothing in exact arithmetic, so that a refusal always has a cause in
\* the plan, the gates or the filters.
LastChecksPass == trade.verdict \notin {"budget", "margin"}

\* A plan whose gross reward is exactly the minimum times its risk, which is
\* what the signal engine makes of the default multiples (1.5 and 3.0 ATR, and
\* a minimum of 2.0), is refused as soon as trading costs anything: by default
\* no engine signal becomes a trade.
BareMinimum(plan) ==
  Distance(plan.target, plan.entry) * MinRR.den = MinRR.num * Distance(plan.entry, plan.stop)

BareMinimumRefused == Approved => ~ BareMinimum(trade.plan)

\* stop and target on the two sides of the entry
Sided(plan) ==
  IF plan.direction = "LONG" THEN plan.stop < plan.entry /\ plan.entry < plan.target
                             ELSE plan.target < plan.entry /\ plan.entry < plan.stop

Unmoved == trade.phase = "closed" /\ Sided(trade.plan) /\ trade.fill = trade.plan.entry

\* How much worse, for this direction, it is to buy in at b than at a, and to get out
\* at a than at b.
Worse(direction, a, b) ==
  LET d == IF direction = "LONG" THEN b - a ELSE a - b IN IF d > 0 THEN d ELSE 0

\* The market moves between the sizing, the fill and the exit, and the quantity stays.
\* What a paper trade loses beyond its budget is at most what its fill was worse than
\* the planned entry and its exit worse than the planned stop, the slippage of the two
\* fills, and the fees on these differences: close_position takes the slippage out of
\* the prices and counts it among the fees again, the sizer only does the latter.
LossTraced ==
  (trade.phase = "closed" /\ Sided(trade.plan)) =>
    LET plan == trade.plan
        worse == Worse(plan.direction, plan.entry, trade.fill)
                   + Worse(plan.direction, trade.exit, plan.stop)
        slipped == (trade.fill + trade.exit) * Slippage
        feesOnThem == (Taker + Slippage)
          * ((Distance(trade.fill, plan.entry) + Distance(trade.exit, plan.stop)) * Unit
               + Distance(trade.fill, trade.exit) * Slippage)
        uncovered == Product(trade.qty, Frac((worse * Unit + slipped) * Unit + feesOnThem,
                                             Unit * Unit))
    IN AtMost(Frac(- (trade.result.num + uncovered.num), trade.result.den), trade.budget)

\* The reward that is asked for covers the costs the reward check leaves out: both
\* fills' slippage, and the fees of an exit at the target.  The settings' defaults
\* (a minimum of 2, 0.05% each for the fee and the slippage) do so by far; a minimum
\* of 1 without a taker fee does not: then slippage alone turns a target that is
\* reached into a loss, and TargetPays is false.
CostsCovered ==
  Taker + Slippage > 0 =>
    MinRR.den * (Taker + 2 * Slippage) * Unit
      < (MinRR.num + MinRR.den) * (Taker + Slippage) * (Unit - (Taker + 2 * Slippage))

\* An approved trade that reaches its target from its planned entry ends with a
\* profit, although its reward was judged with the fees of another exit and
\* without the slippage of its fills: as long as the minimum reward is more than
\* what these take (CostsCovered).
TargetPays ==
  (Unmoved /\ trade.exit = trade.plan.target) => trade.result.num > 0

\* What the table holds is what every thread uses, across restarts and updates
\* that fail half-way, but for the settings whose own write or read was lost.
StoredIsUsed ==
  \A k \in Loaded \ lost :
    live[k] = IF stored[k] = NoValue THEN Default[k] ELSE stored[k]

\* Settings stay in the range validate_and_set enforces; only PUT
\* /api/sizer/config gets around it, and then until the same setting has been
\* validated and stored again.
RangesKept == \A k \in Keys \ unchecked : live[k] \in Allowed[k]
=============================================================================
