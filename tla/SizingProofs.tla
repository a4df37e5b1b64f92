---------------------------- MODULE SizingProofs ----------------------------
(***************************************************************************)
(* Theorems about Sizing, for all prices, rates, budgets and settings.     *)
(* The arithmetic comes first: lemmas about integers, about the quantity   *)
(* the sizers compute and about what a close pays; then the invariants,    *)
(* and what a trade may lose and must earn.                                *)
(***************************************************************************)
EXTENDS Sizing, TLAPS

Positive == Nat \ {0}

-----------------------------------------------------------------------------
(* Integers                                                                *)

\* A positive factor may be cancelled from an inequality.
LEMMA Cancel ==
  ASSUME NEW a \in Int, NEW b \in Int, NEW k \in Positive, a * k <= b * k
  PROVE  a <= b
BY DEF Positive

\* A positive factor may be cancelled from a strict inequality.
LEMMA CancelStrict ==
  ASSUME NEW a \in Int, NEW b \in Int, NEW k \in Positive, a * k < b * k
  PROVE  a < b
BY DEF Positive

\* A factor that is not negative may be multiplied on.
LEMMA Multiply ==
  ASSUME NEW a \in Int, NEW b \in Int, NEW k \in Nat, a <= b
  PROVE  a * k <= b * k
OBVIOUS

\* Integer division rounds down, and not below zero.
LEMMA DivRoundsDown ==
  ASSUME NEW n \in Nat, NEW d \in Positive
  PROVE  n \div d \in Nat /\ (n \div d) * d <= n
BY DEF Positive

\* Scaling a quantity by budget / total loss, where the total loss is the
\* quantity times the loss of a unit, leaves budget / loss of a unit: what
\* Quantity computes is what sizer.py:70-71 computes.
LEMMA ScalingIsQuotient ==
  ASSUME NEW q \in Fraction, NEW budget \in Fraction, NEW unitLoss \in Fraction
  PROVE  Equal(Product(q, Quotient(budget, Product(q, unitLoss))),
               Quotient(budget, unitLoss))
BY DEF Fraction, Equal, Product, Quotient, Frac

-----------------------------------------------------------------------------
(* What the sizers compute                                                 *)

\* What both sizers establish before they look at a quantity: usable prices, a
\* leverage of at least one, and a first quantity above zero.
Sizable(budget, equity, leverage, plan) ==
  /\ budget \in Fraction /\ equity \in Int /\ leverage \in Positive
  /\ plan \in Plan /\ plan.entry > 0 /\ plan.stop > 0 /\ plan.entry # plan.stop
  /\ FirstQuantity(budget, equity, leverage, plan).num > 0

\* A unit loses its distance, and its fees on top.
LEMMA UnitLossType ==
  ASSUME NEW plan \in Plan, plan.entry > 0, plan.stop > 0, plan.entry # plan.stop
  PROVE  /\ Distance(plan.entry, plan.stop) \in Positive
         /\ UnitLoss(plan).den = Unit
         /\ UnitLoss(plan).num \in Positive
         /\ Distance(plan.entry, plan.stop) * Unit <= UnitLoss(plan).num
         /\ UnitLoss(plan) \in Fraction
<1> DEFINE D == Distance(plan.entry, plan.stop)
           F == FeeEstimate(plan.entry, plan.stop)
<1>1. D \in Positive
  BY DEF Distance, Plan, Positive
<1>2. F \in Nat
  BY RatesType DEF FeeEstimate, Plan
<1>3. D * Unit \in Positive
  BY <1>1, RatesType DEF Positive
<1>4. UnitLoss(plan) = [num |-> D * Unit + F, den |-> Unit]
  BY DEF UnitLoss, Frac
<1> HIDE DEF D, F
<1>5. D * Unit + F \in Positive /\ D * Unit <= D * Unit + F
  BY <1>2, <1>3 DEF Positive
<1>6. UnitLoss(plan) \in Fraction
  BY <1>4, <1>5, RatesType DEF Fraction, Positive
<1> QED
  BY <1>1, <1>4, <1>5, <1>6 DEF D

\* The first quantity respects the margin and is positive only if the budget is.
LEMMA FirstFits ==
  ASSUME NEW budget, NEW equity, NEW leverage, NEW plan,
         Sizable(budget, equity, leverage, plan)
  PROVE  LET first == FirstQuantity(budget, equity, leverage, plan)
             D == Distance(plan.entry, plan.stop)
         IN /\ first \in Fraction
            /\ budget.num > 0
            /\ equity * leverage > 0
            /\ first = Frac(budget.num, budget.den * D)
                 \/ first = Frac(equity * leverage, plan.entry)
            /\ first.num * plan.entry <= (equity * leverage) * first.den
<1> DEFINE D == Distance(plan.entry, plan.stop)
           M == equity * leverage
           first == FirstQuantity(budget, equity, leverage, plan)
<1>1. /\ budget \in Fraction /\ equity \in Int /\ leverage \in Positive
      /\ plan \in Plan /\ plan.entry > 0 /\ plan.stop > 0 /\ plan.entry # plan.stop
      /\ first.num > 0
  BY DEF Sizable
<1>2. D \in Positive
  BY <1>1, UnitLossType
<1>3. M \in Int /\ plan.entry \in Positive /\ budget.num \in Int /\ budget.den \in Positive
  BY <1>1 DEF Plan, Fraction, Positive
<1>4. budget.den * D \in Positive
  BY <1>2, <1>3 DEF Positive
<1>5. Quotient(budget, Frac(D, 1)) = Frac(budget.num, budget.den * D)
  BY <1>2, <1>3 DEF Quotient, Frac
<1>6. first = Smaller(Frac(budget.num, budget.den * D), Frac(M, plan.entry))
  BY <1>5 DEF FirstQuantity
<1> HIDE DEF D, M, first
<1>7. CASE budget.num * plan.entry <= M * (budget.den * D)
  <2>1. first = Frac(budget.num, budget.den * D)
    BY <1>6, <1>7 DEF Smaller, AtMost, Frac
  <2>2. budget.num > 0
    BY <2>1, <1>1 DEF Frac
  <2>3. budget.num * plan.entry > 0
    BY <2>2, <1>3 DEF Positive
  <2>4. M * (budget.den * D) > 0
    BY <2>3, <1>7, <1>3, <1>4 DEF Positive
  <2>5. M > 0
    BY <2>4, <1>3, <1>4 DEF Positive
  <2> QED
    BY <2>1, <2>2, <2>5, <1>3, <1>4, <1>7 DEF Frac, Fraction, Positive, D, M, first
<1>8. CASE ~ (budget.num * plan.entry <= M * (budget.den * D))
  <2>1. first = Frac(M, plan.entry)
    BY <1>6, <1>8 DEF Smaller, AtMost, Frac
  <2>2. M > 0
    BY <2>1, <1>1 DEF Frac
  <2>3. M * (budget.den * D) > 0
    BY <2>2, <1>3, <1>4 DEF Positive
  <2>4. budget.num * plan.entry > 0
    BY <2>3, <1>8, <1>3, <1>4 DEF Positive
  <2>5. budget.num > 0
    BY <2>4, <1>3 DEF Positive
  <2> QED
    BY <2>1, <2>2, <2>5, <1>3 DEF Frac, Fraction, Positive, M, first
<1> QED
  BY <1>7, <1>8

\* The quantity, its loss and its margin, multiplied out.
LEMMA QuantityFits ==
  ASSUME NEW budget, NEW equity, NEW leverage, NEW plan,
         Sizable(budget, equity, leverage, plan)
  PROVE  LET qty == Quantity(budget, equity, leverage, plan)
         IN /\ qty \in Fraction /\ qty.num > 0
            /\ AtMost(Product(qty, UnitLoss(plan)), budget)
            /\ qty.num * plan.entry <= (equity * leverage) * qty.den
<1> DEFINE D == Distance(plan.entry, plan.stop)
           M == equity * leverage
           L == UnitLoss(plan).num
           first == FirstQuantity(budget, equity, leverage, plan)
           qty == Quantity(budget, equity, leverage, plan)
<1>1. /\ budget \in Fraction /\ equity \in Int /\ leverage \in Positive
      /\ plan \in Plan /\ plan.entry > 0 /\ plan.stop > 0 /\ plan.entry # plan.stop
      /\ first.num > 0
  BY DEF Sizable
<1>2. /\ D \in Positive /\ L \in Positive /\ D * Unit <= L
      /\ UnitLoss(plan).den = Unit /\ Unit \in Positive
  BY <1>1, UnitLossType, RatesType DEF Positive
<1>3. /\ first \in Fraction /\ budget.num > 0 /\ M > 0
      /\ first = Frac(budget.num, budget.den * D) \/ first = Frac(M, plan.entry)
      /\ first.num * plan.entry <= M * first.den
  BY FirstFits
<1>4. M \in Int /\ plan.entry \in Positive /\ budget.num \in Int /\ budget.den \in Positive
  BY <1>1 DEF Plan, Fraction, Positive
<1>5. CASE AtMost(Product(first, UnitLoss(plan)), budget)
  <2>1. qty = first
    BY <1>5 DEF Quantity
  <2> QED
    BY <2>1, <1>1, <1>3, <1>5
<1>6. CASE ~ AtMost(Product(first, UnitLoss(plan)), budget)
  <2>1. qty = Frac(budget.num * Unit, budget.den * L)
    BY <1>6, <1>2 DEF Quantity, Quotient
  <2> HIDE DEF D, M, L, first, qty
  <2>2. budget.num * Unit > 0 /\ budget.num * Unit \in Int /\ budget.den * L \in Positive
    BY <1>2, <1>3, <1>4 DEF Positive
  <2>3. qty \in Fraction /\ qty.num > 0
    BY <2>1, <2>2 DEF Frac, Fraction, Positive
  <2>4. AtMost(Product(qty, UnitLoss(plan)), budget)
    <3>1. Product(qty, UnitLoss(plan))
            = Frac((budget.num * Unit) * L, (budget.den * L) * Unit)
      BY <2>1, <1>2 DEF Product, Frac, L
    <3>2. ((budget.num * Unit) * L) * budget.den = budget.num * ((budget.den * L) * Unit)
      BY <1>2, <1>4 DEF Positive
    <3>3. ((budget.num * Unit) * L) * budget.den \in Int
      BY <1>2, <1>4 DEF Positive
    <3> QED
      BY <3>1, <3>2, <3>3 DEF AtMost, Frac
  <2>5. (first.num * L) * budget.den > budget.num * (first.den * Unit)
    BY <1>2, <1>3, <1>4, <1>6 DEF AtMost, Product, Frac, L, Fraction, Positive
  <2>6. (budget.num * Unit) * plan.entry <= M * (budget.den * L)
    <3>1. CASE first = Frac(M, plan.entry)
      BY <3>1, <2>5, <1>2, <1>4 DEF Frac, Positive
    <3>2. CASE first = Frac(budget.num, budget.den * D)
      <4>1. budget.num * plan.entry <= M * (budget.den * D)
        BY <3>2, <1>3 DEF Frac
      <4>2. (budget.num * plan.entry) * Unit <= (M * (budget.den * D)) * Unit
        BY <4>1, <1>2, <1>4, Multiply DEF Positive
      <4>3. (D * Unit) * (M * budget.den) <= L * (M * budget.den)
        <5>1. M * budget.den \in Nat /\ D * Unit \in Int /\ L \in Int
          BY <1>2, <1>3, <1>4 DEF Positive
        <5> QED
          BY <5>1, <1>2, Multiply
      <4> QED
        BY <4>2, <4>3, <1>2, <1>4 DEF Positive
    <3> QED
      BY <3>1, <3>2, <1>3
  <2>7. qty.num * plan.entry <= M * qty.den
    BY <2>1, <2>6 DEF Frac
  <2> QED
    BY <2>3, <2>4, <2>7 DEF qty, M
<1> QED
  BY <1>5, <1>6

\* What a paper trade gets is the smaller of its two limits.
LEMMA QuantityLargest ==
  ASSUME NEW budget, NEW equity, NEW leverage, NEW plan,
         Sizable(budget, equity, leverage, plan)
  PROVE  Equal(Quantity(budget, equity, leverage, plan),
               Smaller(Quotient(budget, UnitLoss(plan)),
                       Frac(equity * leverage, plan.entry)))
<1> DEFINE D == Distance(plan.entry, plan.stop)
           M == equity * leverage
           L == UnitLoss(plan).num
           byLoss == Quotient(budget, UnitLoss(plan))
           byMargin == Frac(M, plan.entry)
           first == FirstQuantity(budget, equity, leverage, plan)
           qty == Quantity(budget, equity, leverage, plan)
<1>1. /\ budget \in Fraction /\ equity \in Int /\ leverage \in Positive
      /\ plan \in Plan /\ plan.entry > 0 /\ plan.stop > 0 /\ plan.entry # plan.stop
  BY DEF Sizable
<1>2. /\ D \in Positive /\ L \in Positive /\ D * Unit <= L
      /\ UnitLoss(plan).den = Unit /\ Unit \in Positive
  BY <1>1, UnitLossType, RatesType DEF Positive
<1>3. /\ budget.num > 0 /\ M > 0
      /\ first = Frac(budget.num, budget.den * D) \/ first = byMargin
      /\ first.num * plan.entry <= M * first.den
  BY FirstFits
<1>4. M \in Int /\ plan.entry \in Positive /\ budget.num \in Int /\ budget.den \in Positive
  BY <1>1 DEF Plan, Fraction, Positive
<1>5. byLoss = Frac(budget.num * Unit, budget.den * L)
  BY <1>2 DEF Quotient
<1>6. budget.num * Unit \in Int /\ budget.den * L \in Positive
  BY <1>2, <1>4 DEF Positive
<1>7. CASE ~ AtMost(Product(first, UnitLoss(plan)), budget)
  <2>1. qty = byLoss
    BY <1>7 DEF Quantity
  <2>2. qty.num * plan.entry <= M * qty.den
    BY QuantityFits
  <2>3. AtMost(byLoss, byMargin)
    BY <2>1, <2>2 DEF AtMost, Frac
  <2> QED
    BY <2>1, <2>3 DEF Smaller, Equal
<1>8. CASE AtMost(Product(first, UnitLoss(plan)), budget)
  <2>1. qty = first
    BY <1>8 DEF Quantity
  <2> HIDE DEF D, M, L, byLoss, byMargin, first, qty
  <2>2. (first.num * L) * budget.den <= budget.num * (first.den * Unit)
    BY <1>8, <1>2 DEF AtMost, Product, Frac, L
  <2>3. CASE first = byMargin
    <3>1. first = [num |-> M, den |-> plan.entry]
      BY <2>3 DEF byMargin, Frac
    <3>2. AtMost(byMargin, byLoss)
      BY <2>2, <2>3, <3>1, <1>2, <1>4, <1>5 DEF AtMost, Frac, Positive
    <3>3. CASE AtMost(byLoss, byMargin)
      <4>1. (budget.num * Unit) * plan.entry = M * (budget.den * L)
        BY <3>2, <3>3, <3>1, <2>3, <1>2, <1>4, <1>5, <1>6 DEF AtMost, Frac, Positive
      <4> QED
        BY <4>1, <3>1, <2>1, <2>3, <3>3, <1>5 DEF Smaller, Equal, Frac, byLoss, byMargin, qty, M
    <3>4. CASE ~ AtMost(byLoss, byMargin)
      BY <3>4, <2>1, <2>3 DEF Smaller, Equal, byLoss, byMargin, qty, M
    <3> QED
      BY <3>3, <3>4
  <2>4. CASE first = Frac(budget.num, budget.den * D)
    <3>1. first = [num |-> budget.num, den |-> budget.den * D]
      BY <2>4 DEF Frac
    <3>2. L * (budget.num * budget.den) <= (D * Unit) * (budget.num * budget.den)
      BY <2>2, <3>1, <1>2, <1>4 DEF Positive
    <3>3. budget.num * budget.den \in Positive /\ D * Unit \in Int /\ L \in Int
      BY <1>2, <1>3, <1>4 DEF Positive
    <3>4. L = D * Unit
      <4> DEFINE K == budget.num * budget.den  DU == D * Unit
      <4>1. K \in Positive /\ DU \in Int /\ L \in Int /\ L * K <= DU * K /\ DU <= L
        BY <3>2, <3>3, <1>2
      <4> HIDE DEF K, DU
      <4>2. L <= DU
        BY <4>1, Cancel
      <4> QED
        BY <4>1, <4>2 DEF DU
    <3>5. budget.num * plan.entry <= M * (budget.den * D)
      BY <3>1, <1>3
    <3>6. AtMost(byLoss, byMargin)
      <4>1. (budget.num * plan.entry) * Unit <= (M * (budget.den * D)) * Unit
        BY <3>5, <1>2, <1>4, Multiply DEF Positive
      <4> QED
        BY <4>1, <3>4, <1>2, <1>4, <1>5 DEF AtMost, Frac, byMargin, Positive
    <3>7. budget.num * (budget.den * L) = (budget.num * Unit) * (budget.den * D)
      BY <3>4, <1>2, <1>4 DEF Positive
    <3> QED
      BY <3>6, <3>7, <3>1, <2>1, <1>5 DEF Smaller, Equal, Frac, byLoss, byMargin, qty, M
  <2> QED
    BY <2>3, <2>4, <1>3
<1> QED
  BY <1>7, <1>8

\* Rounding to a step of the exchange only takes away.
LEMMA RoundingReduces ==
  ASSUME NEW qty \in Fraction, qty.num >= 0, NEW filter \in Filters
  PROVE  LET rounded == RoundQuantity(qty, filter)
         IN rounded \in Fraction /\ rounded.num >= 0 /\ AtMost(rounded, qty)
<1> DEFINE n == (qty.num * filter.step) \div qty.den
<1>1. filter.step \in Positive /\ qty.num \in Nat /\ qty.den \in Positive
  BY FiltersType DEF Fraction, Positive
<1>2. qty.num * filter.step \in Nat
  BY <1>1 DEF Positive
<1>3. n \in Nat /\ n * qty.den <= qty.num * filter.step
  BY <1>1, <1>2, DivRoundsDown
<1>4. RoundQuantity(qty, filter) = [num |-> n, den |-> filter.step]
  BY DEF RoundQuantity, Frac
<1> HIDE DEF n
<1> QED
  BY <1>1, <1>3, <1>4 DEF Fraction, AtMost, Positive

\* A smaller quantity loses less and takes less margin.
LEMMA SmallerFits ==
  ASSUME NEW small \in Fraction, NEW large \in Fraction, NEW perUnit \in Fraction,
         NEW limit \in Fraction, perUnit.num >= 0,
         AtMost(small, large), AtMost(Product(large, perUnit), limit)
  PROVE  AtMost(Product(small, perUnit), limit)
<1> DEFINE sn == small.num  sd == small.den  ln == large.num  ld == large.den
           pn == perUnit.num  pd == perUnit.den  mn == limit.num  md == limit.den
<1>1. /\ sn \in Int /\ ln \in Int /\ pn \in Nat /\ mn \in Int
      /\ sd \in Positive /\ ld \in Positive /\ pd \in Positive /\ md \in Positive
  BY DEF Fraction, Positive
<1>2. sn * ld <= ln * sd
  BY DEF AtMost
<1>3. (ln * pn) * md <= mn * (ld * pd)
  BY DEF AtMost, Product, Frac
<1> SUFFICES (sn * pn) * md <= mn * (sd * pd)
  BY DEF AtMost, Product, Frac
<1> HIDE DEF sn, sd, ln, ld, pn, pd, mn, md
<1>4. (sn * ld) * (pn * md) <= (ln * sd) * (pn * md)
  <2>1. pn * md \in Nat /\ sn * ld \in Int /\ ln * sd \in Int
    BY <1>1 DEF Positive
  <2> QED
    BY <2>1, <1>2, Multiply
<1>5. ((ln * pn) * md) * sd <= (mn * (ld * pd)) * sd
  <2>1. (ln * pn) * md \in Int /\ mn * (ld * pd) \in Int /\ sd \in Nat
    BY <1>1 DEF Positive
  <2> QED
    BY <2>1, <1>3, Multiply
<1>6. ((sn * pn) * md) * ld <= (mn * (sd * pd)) * ld
  BY <1>1, <1>4, <1>5 DEF Positive
<1>7. (sn * pn) * md \in Int /\ mn * (sd * pd) \in Int
  BY <1>1 DEF Positive
<1> QED
  BY <1>1, <1>6, <1>7, Cancel

\* An approval implies all that the quantity lemmas assume; the two checks that
\* follow the scaling never decide.
LEMMA VerdictSound ==
  ASSUME NEW budget \in Fraction, NEW equity \in Int, NEW leverage \in Positive,
         NEW plan \in Plan
  PROVE  LET verdict == Verdict(budget, equity, leverage, plan)
         IN /\ verdict \in {"prices", "distance", "quantity", "reward", "approved"}
            /\ verdict = "approved" =>
                 Sizable(budget, equity, leverage, plan) /\ RewardSuffices(plan)
<1> DEFINE verdict == Verdict(budget, equity, leverage, plan)
           first == FirstQuantity(budget, equity, leverage, plan)
           qty == Quantity(budget, equity, leverage, plan)
<1>1. CASE plan.entry <= 0 \/ plan.stop <= 0 \/ plan.entry = plan.stop
  BY <1>1 DEF Verdict
<1>2. CASE ~ (plan.entry <= 0 \/ plan.stop <= 0 \/ plan.entry = plan.stop)
  <2>1. plan.entry > 0 /\ plan.stop > 0 /\ plan.entry # plan.stop
    BY <1>2 DEF Plan
  <2>2. first.num \in Int
    <3>1. Distance(plan.entry, plan.stop) \in Positive
      BY <2>1, UnitLossType
    <3> QED
      BY <3>1, <2>1 DEF FirstQuantity, Smaller, Quotient, Frac, Fraction, Plan, Positive
  <2>3. CASE first.num <= 0
    BY <1>2, <2>3 DEF Verdict
  <2>4. CASE first.num > 0
    <3>1. Sizable(budget, equity, leverage, plan)
      BY <2>1, <2>4 DEF Sizable
    <3>2. /\ qty \in Fraction
          /\ AtMost(Product(qty, UnitLoss(plan)), budget)
          /\ qty.num * plan.entry <= (equity * leverage) * qty.den
      BY <3>1, QuantityFits
    <3>3. AtMost(Product(qty, Frac(plan.entry, leverage)), Frac(equity, 1))
      <4> HIDE DEF qty
      <4> QED
        BY <3>2 DEF AtMost, Product, Frac, Fraction, Plan, Positive
    <3>4. verdict = IF RewardSuffices(plan) THEN "approved" ELSE "reward"
      <4> HIDE DEF qty
      <4>1. ~ (first.num <= 0)
        BY <2>2, <2>4
      <4> QED
        BY <1>2, <3>2, <3>3, <4>1 DEF Verdict, qty
    <3> QED
      BY <3>1, <3>4
  <2> QED
    BY <2>2, <2>3, <2>4
<1> QED
  BY <1>1, <1>2

\* The reward check multiplied out.
LEMMA RewardOpened ==
  ASSUME NEW plan \in Plan, RewardSuffices(plan)
  PROVE  LET D == Distance(plan.entry, plan.stop)
             G == Distance(plan.target, plan.entry)
             F == FeeEstimate(plan.entry, plan.stop)
         IN MinRR.num * (D * Unit + F) <= (G * Unit - F) * MinRR.den
<1> DEFINE D == Distance(plan.entry, plan.stop)
           G == Distance(plan.target, plan.entry)
           F == FeeEstimate(plan.entry, plan.stop)
           mn == MinRR.num
           md == MinRR.den
           a == mn * (D * Unit + F)
           b == (G * Unit - F) * md
<1>1. /\ D \in Nat /\ G \in Nat /\ F \in Int /\ Unit \in Positive
      /\ mn \in Nat /\ md \in Positive
  BY RatesType, MinRRType DEF Distance, FeeEstimate, Plan, Fraction, Positive
<1>2. (mn * (D * Unit + F)) * Unit <= (G * Unit - F) * (md * Unit)
  BY DEF RewardSuffices, AtMost, Product, UnitLoss, Frac
<1> HIDE DEF D, G, F, mn, md
<1>3. a \in Int /\ b \in Int /\ a * Unit <= b * Unit
  BY <1>1, <1>2 DEF Positive
<1> HIDE DEF a, b
<1>4. a <= b
  BY <1>3, <1>1, Cancel
<1> QED
  BY <1>4 DEF a, b, D, G, F, mn, md

\* Net of any cost, a reward of just the minimum is not enough.
LEMMA BareMinimumFails ==
  ASSUME NEW plan \in Plan, plan.entry > 0, plan.stop > 0, plan.entry # plan.stop,
         Taker + Slippage > 0, RewardSuffices(plan)
  PROVE  ~ BareMinimum(plan)
<1> DEFINE D == Distance(plan.entry, plan.stop)
           T == Distance(plan.target, plan.entry)
           F == FeeEstimate(plan.entry, plan.stop)
           mn == MinRR.num
           md == MinRR.den
<1>1. /\ D \in Nat /\ T \in Nat /\ Unit \in Positive
      /\ mn \in Nat /\ md \in Positive
  BY RatesType, MinRRType DEF Distance, Plan, Fraction, Positive
<1>2. F \in Positive
  <2>1. plan.entry + plan.stop \in Positive /\ Taker + Slippage \in Positive
    BY RatesType DEF Plan, Positive
  <2> QED
    BY <2>1 DEF FeeEstimate, Positive
<1>3. mn * (D * Unit + F) <= (T * Unit - F) * md
  BY RewardOpened
<1> SUFFICES ASSUME T * md = mn * D PROVE FALSE
  BY DEF BareMinimum
<1> HIDE DEF D, T, F, mn, md
<1>4. mn * (D * Unit + F) = (mn * D) * Unit + mn * F
  BY <1>1, <1>2 DEF Positive
<1>5. (T * Unit - F) * md = (T * md) * Unit - F * md
  BY <1>1, <1>2 DEF Positive
<1>6. mn * F >= 0 /\ F * md > 0
  BY <1>1, <1>2 DEF Positive
<1>7. (mn * D) * Unit \in Int /\ mn * F \in Int /\ F * md \in Int
  BY <1>1, <1>2 DEF Positive
<1> QED
  BY <1>3, <1>4, <1>5, <1>6, <1>7

-----------------------------------------------------------------------------
(* What close_position pays for a unit                                       *)

\* What CostsCovered says for K, X and U: the fees of a unit price, the costs of it, and
\* the parts of one.
LEMMA CoveredBounds ==
  ASSUME NEW U \in Positive, NEW K \in Nat, NEW X \in Nat, NEW m \in Nat, NEW d \in Positive,
         K > 0, K <= X, (d * X) * U < ((m + d) * K) * (U - X)
  PROVE  /\ X < U
         /\ d * X < (m + d) * K
         /\ (m + d) * K < m * U
<1>1. (d * X) * U \in Nat /\ (m + d) * K \in Positive
  BY DEF Positive
<1>2. U - X > 0
  <2> DEFINE c == (m + d) * K
             l == (d * X) * U
  <2>1. l \in Nat /\ c \in Positive /\ l < c * (U - X)
    BY <1>1
  <2> HIDE DEF c, l
  <2> QED
    BY <2>1 DEF Positive
<1>3. d * X < (m + d) * K
  <2> DEFINE c == (m + d) * K
             l == d * X
  <2>1. c \in Positive /\ l \in Int /\ l * U < c * (U - X)
    BY <1>1 DEF Positive
  <2> HIDE DEF c, l
  <2>2. c * X \in Nat /\ c * (U - X) = c * U - c * X
    BY <2>1 DEF Positive
  <2>3. l * U < c * U
    BY <2>1, <2>2 DEF Positive
  <2>4. l < c
    BY <2>1, <2>3, CancelStrict DEF Positive
  <2> QED
    BY <2>4 DEF c, l
<1>4. (m + d) * X < m * U
  <2>1. ((m + d) * K) * (U - X) <= ((m + d) * X) * (U - X)
    <3>1. (m + d) * K <= (m + d) * X
      BY DEF Positive
    <3>2. (m + d) * K \in Int /\ (m + d) * X \in Int /\ U - X \in Nat
      BY <1>2 DEF Positive
    <3> QED
      BY <3>1, <3>2, Multiply
  <2>2. (d * X) * U < ((m + d) * X) * (U - X)
    BY <2>1, <1>2 DEF Positive
  <2>3. (d * U) * X < ((m + d) * (U - X)) * X
    BY <2>2 DEF Positive
  <2>4. d * U < (m + d) * (U - X)
    <3>1. d * U \in Int /\ (m + d) * (U - X) \in Int /\ X \in Positive
      BY DEF Positive
    <3> QED
      BY <2>3, <3>1, CancelStrict
  <2> QED
    BY <2>4 DEF Positive
<1>5. (m + d) * K <= (m + d) * X
  BY DEF Positive
<1> QED
  BY <1>2, <1>3, <1>4, <1>5 DEF Positive

\* A long: the net gain of a unit that goes from e to e + G, in parts of U * U.
LEMMA LongPays ==
  ASSUME NEW U \in Positive, NEW K \in Nat, NEW X \in Nat, NEW S \in Nat,
         NEW m \in Nat, NEW d \in Positive,
         NEW e \in Positive, NEW D \in Positive, NEW G \in Positive,
         K <= X, K = 0 => X = 0,
         K > 0 => (d * X) * U < ((m + d) * K) * (U - X),
         ((m + d) * K) * (2 * e - D) + (m * U) * D <= (d * U) * G
  PROVE  (G * U) * U + (G * S) * K - ((G + 2 * e) * U) * X > 0
<1>1. CASE K = 0
  <2>1. X = 0 /\ (G * S) * K = 0 /\ ((G + 2 * e) * U) * X = 0
    BY <1>1 DEF Positive
  <2>2. (G * U) * U > 0
    BY DEF Positive
  <2> QED
    BY <2>1, <2>2 DEF Positive
<1>2. CASE K > 0
  <2> DEFINE c == (m + d) * K
             V == U - X
  <2>1. /\ X < U /\ c < m * U /\ (d * X) * U < c * V
    BY <1>2, CoveredBounds
  <2>2. c \in Int /\ V \in Positive /\ m * U \in Int
    BY <2>1 DEF Positive
  <2>3. c * (2 * e - D) + (m * U) * D <= (d * U) * G
    OBVIOUS
  <2> HIDE DEF c, V
  <2>4. (m * U - c) * D > 0
    BY <2>1, <2>2 DEF Positive
  <2>5. c * (2 * e) < (d * U) * G
    <3>1. c * (2 * e - D) + (m * U) * D = c * (2 * e) + (m * U - c) * D
      BY <2>2 DEF Positive
    <3>2. c * (2 * e) \in Int /\ (m * U - c) * D \in Int /\ (d * U) * G \in Int
      BY <2>2 DEF Positive
    <3> QED
      BY <2>3, <2>4, <3>1, <3>2
  <2>6. (c * (2 * e)) * V < ((d * U) * G) * V
    <3>1. c * (2 * e) \in Int /\ (d * U) * G \in Int
      BY <2>2 DEF Positive
    <3> HIDE DEF c
    <3> QED
      BY <3>1, <2>5, <2>2 DEF Positive
  <2>7. ((d * X) * U) * (2 * e) < (c * V) * (2 * e)
    <3>1. (d * X) * U \in Int /\ c * V \in Int /\ 2 * e \in Positive
      BY <2>2 DEF Positive
    <3> QED
      BY <3>1, <2>1 DEF Positive
  <2>8. ((2 * e) * X) * (d * U) < (G * V) * (d * U)
    <3>1. ((d * X) * U) * (2 * e) = ((2 * e) * X) * (d * U)
      BY DEF Positive
    <3>2. (c * V) * (2 * e) = (c * (2 * e)) * V
      BY <2>2 DEF Positive
    <3>3. ((d * U) * G) * V = (G * V) * (d * U)
      BY <2>2 DEF Positive
    <3>4. ((2 * e) * X) * (d * U) \in Int /\ (c * V) * (2 * e) \in Int /\ (G * V) * (d * U) \in Int
      BY <2>2 DEF Positive
    <3> QED
      BY <2>6, <2>7, <3>1, <3>2, <3>3, <3>4
  <2>9. (2 * e) * X < G * V
    <3>1. (2 * e) * X \in Int /\ G * V \in Int /\ d * U \in Positive
      BY <2>2 DEF Positive
    <3> QED
      BY <3>1, <2>8, CancelStrict
  <2>10. (G * V - (2 * e) * X) * U > 0
    <3>1. (2 * e) * X \in Int /\ G * V \in Int
      BY <2>2 DEF Positive
    <3> QED
      BY <3>1, <2>9 DEF Positive
  <2>11. (G * U) * U - ((G + 2 * e) * U) * X = (G * V - (2 * e) * X) * U
    BY DEF Positive, V
  <2>12. (G * S) * K \in Nat
    BY DEF Positive
  <2>13. (G * U) * U \in Int /\ ((G + 2 * e) * U) * X \in Int
    BY DEF Positive
  <2> QED
    BY <2>10, <2>11, <2>12, <2>13
<1> QED
  BY <1>1, <1>2

\* A short: the net gain of a unit that goes from e to e - G.
LEMMA ShortPays ==
  ASSUME NEW U \in Positive, NEW K \in Nat, NEW X \in Nat, NEW S \in Nat,
         NEW m \in Nat, NEW d \in Positive,
         NEW e \in Positive, NEW D \in Positive, NEW G \in Positive,
         K <= X, K = 0 => X = 0,
         K > 0 => (d * X) * U < ((m + d) * K) * (U - X),
         ((m + d) * K) * (2 * e + D) + (m * U) * D <= (d * U) * G
  PROVE  (G * U) * U + (G * S) * K - ((2 * e - G) * U) * X > 0
<1>1. CASE K = 0
  <2>1. X = 0 /\ (G * S) * K = 0 /\ ((2 * e - G) * U) * X = 0
    BY <1>1 DEF Positive
  <2>2. (G * U) * U > 0
    BY DEF Positive
  <2> QED
    BY <2>1, <2>2 DEF Positive
<1>2. CASE K > 0
  <2> DEFINE c == (m + d) * K
  <2>1. d * X < c
    BY <1>2, CoveredBounds
  <2>2. c \in Nat /\ (m * U) * D \in Nat /\ c * D \in Nat
    BY DEF Positive
  <2>3. c * (2 * e + D) + (m * U) * D <= (d * U) * G
    OBVIOUS
  <2> HIDE DEF c
  <2>4. c * (2 * e) <= (d * U) * G
    <3>1. c * (2 * e + D) = c * (2 * e) + c * D
      BY <2>2 DEF Positive
    <3>2. c * (2 * e) \in Int /\ (d * U) * G \in Int
      BY <2>2 DEF Positive
    <3> QED
      BY <2>2, <2>3, <3>1, <3>2
  <2>5. (d * X) * (2 * e) <= c * (2 * e)
    <3>1. d * X \in Int /\ 2 * e \in Nat
      BY DEF Positive
    <3> QED
      BY <3>1, <2>1, <2>2, Multiply
  <2>6. ((2 * e) * X) * d <= (G * U) * d
    <3>1. (d * X) * (2 * e) = ((2 * e) * X) * d /\ (d * U) * G = (G * U) * d
      BY DEF Positive
    <3>2. ((2 * e) * X) * d \in Int /\ (G * U) * d \in Int /\ c * (2 * e) \in Int
      BY <2>2 DEF Positive
    <3> QED
      BY <2>4, <2>5, <3>1, <3>2
  <2>7. (2 * e) * X <= G * U
    <3>1. (2 * e) * X \in Int /\ G * U \in Int
      BY DEF Positive
    <3> QED
      BY <3>1, <2>6, Cancel
  <2>8. ((2 * e) * X) * U <= (G * U) * U
    <3>1. (2 * e) * X \in Int /\ G * U \in Int /\ U \in Nat
      BY DEF Positive
    <3> QED
      BY <3>1, <2>7, Multiply
  <2>9. (G * U) * X > 0
    BY <1>2 DEF Positive
  <2>10. ((2 * e - G) * U) * X = ((2 * e) * X) * U - (G * U) * X
    BY DEF Positive
  <2>11. (G * S) * K \in Nat /\ (G * U) * X \in Int
    BY DEF Positive
  <2>12. (G * U) * U \in Int /\ ((2 * e) * X) * U \in Int
    BY DEF Positive
  <2> QED
    BY <2>8, <2>9, <2>10, <2>11, <2>12
<1> QED
  BY <1>1, <1>2

\* How far the price went in the trade's direction from fill to exit.
Gain(direction, fill, exit) == IF direction = "LONG" THEN exit - fill ELSE fill - exit

\* What close_position gives a unit, multiplied out: the gain, less the slippage of both
\* fills and the fees on them.
LEMMA ResultOpened ==
  ASSUME NEW direction, NEW fill \in Int, NEW exit \in Int
  PROVE  LET G == Gain(direction, fill, exit)
             K == Taker + Slippage
             X == Taker + 2 * Slippage
         IN UnitResult(direction, fill, exit)
              = Frac((G * Unit) * Unit + (G * Slippage) * K - ((fill + exit) * Unit) * X,
                     Unit * Unit)
<1> USE RatesType
<1>1. CASE direction = "LONG"
  <2> DEFINE a == fill * (Unit + Slippage)
             b == exit * (Unit - Slippage)
  <2>1. UnitResult(direction, fill, exit)
          = Frac((b - a) * Unit - (a + b) * (Taker + Slippage), Unit * Unit)
    <3>1. 1 * Slippage = Slippage
      OBVIOUS
    <3>2. 1 * (b - a) * Unit = (b - a) * Unit
      OBVIOUS
    <3> QED
      BY <1>1, <3>1, <3>2 DEF UnitResult, FeeEstimate
  <2>2. (b - a) * Unit - (a + b) * (Taker + Slippage)
          = ((exit - fill) * Unit) * Unit + ((exit - fill) * Slippage) * (Taker + Slippage)
              - ((fill + exit) * Unit) * (Taker + 2 * Slippage)
    OBVIOUS
  <2> QED
    BY <1>1, <2>1, <2>2 DEF Gain
<1>2. CASE direction # "LONG"
  <2> DEFINE a == fill * (Unit - Slippage)
             b == exit * (Unit + Slippage)
  <2>1. UnitResult(direction, fill, exit)
          = Frac((a - b) * Unit - (a + b) * (Taker + Slippage), Unit * Unit)
    <3>1. Unit + (-1) * Slippage = Unit - Slippage /\ Unit - (-1) * Slippage = Unit + Slippage
      OBVIOUS
    <3>2. a \in Int /\ b \in Int
      OBVIOUS
    <3>3. (-1) * (b - a) * Unit = (a - b) * Unit
      <4> HIDE DEF a, b
      <4> QED
        BY <3>2
    <3> QED
      BY <1>2, <3>1, <3>3 DEF UnitResult, FeeEstimate
  <2>2. (a - b) * Unit - (a + b) * (Taker + Slippage)
          = ((fill - exit) * Unit) * Unit + ((fill - exit) * Slippage) * (Taker + Slippage)
              - ((fill + exit) * Unit) * (Taker + 2 * Slippage)
    OBVIOUS
  <2> QED
    BY <1>2, <2>1, <2>2 DEF Gain
<1> QED
  BY <1>1, <1>2

\* A unit that is entered as planned and reaches its target gains more than it costs.
LEMMA TargetPaysUnit ==
  ASSUME NEW plan \in Plan, plan.entry > 0, plan.stop > 0, Sided(plan),
         RewardSuffices(plan), CostsCovered
  PROVE  UnitResult(plan.direction, plan.entry, plan.target).num > 0
<1> DEFINE e == plan.entry
           G == Gain(plan.direction, e, plan.target)
           D == Distance(e, plan.stop)
           F == FeeEstimate(e, plan.stop)
           K == Taker + Slippage
           X == Taker + 2 * Slippage
           mn == MinRR.num
           md == MinRR.den
           num == (G * Unit) * Unit + (G * Slippage) * K - ((e + plan.target) * Unit) * X
<1>1. /\ e \in Positive /\ G \in Positive /\ D \in Positive
      /\ G = Distance(plan.target, e)
  BY DEF Plan, Positive, Sided, Gain, Distance
<1>2. /\ K \in Nat /\ X \in Nat /\ K <= X /\ (K = 0 => X = 0)
      /\ mn \in Nat /\ md \in Positive /\ Unit \in Positive /\ Slippage \in Nat
  BY RatesType, MinRRType DEF Fraction, Positive
<1>3. K > 0 => (md * X) * Unit < ((mn + md) * K) * (Unit - X)
  BY DEF CostsCovered
<1>4. mn * (D * Unit + F) <= (G * Unit - F) * md
  BY <1>1, RewardOpened
<1>5. UnitResult(plan.direction, e, plan.target).num = num
  <2>1. e \in Int /\ plan.target \in Int
    BY DEF Plan
  <2> QED
    BY <2>1, ResultOpened DEF Frac
<1>6. CASE plan.direction = "LONG"
  <2>1. F = (2 * e - D) * K /\ e + plan.target = G + 2 * e
    BY <1>6 DEF FeeEstimate, Plan, Sided, Gain, Distance
  <2> HIDE DEF e, G, D, F, K, X, mn, md
  <2>2. ((mn + md) * K) * (2 * e - D) + (mn * Unit) * D <= (md * Unit) * G
    BY <1>1, <1>2, <1>4, <2>1 DEF Positive
  <2>3. (G * Unit) * Unit + (G * Slippage) * K - ((G + 2 * e) * Unit) * X > 0
    BY <1>1, <1>2, <1>3, <2>2, LongPays
  <2> QED
    BY <1>5, <2>1, <2>3 DEF e
<1>7. CASE plan.direction # "LONG"
  <2>1. F = (2 * e + D) * K /\ e + plan.target = 2 * e - G
    BY <1>7 DEF FeeEstimate, Plan, Sided, Gain, Distance
  <2> HIDE DEF e, G, D, F, K, X, mn, md
  <2>2. ((mn + md) * K) * (2 * e + D) + (mn * Unit) * D <= (md * Unit) * G
    BY <1>1, <1>2, <1>4, <2>1 DEF Positive
  <2>3. (G * Unit) * Unit + (G * Slippage) * K - ((2 * e - G) * Unit) * X > 0
    BY <1>1, <1>2, <1>3, <2>2, ShortPays
  <2> QED
    BY <1>5, <2>1, <2>3 DEF e
<1> QED
  BY <1>6, <1>7

\* What a unit loses beyond the loss at its stop, as LossTraced counts it, in parts of
\* Unit * Unit.
Uncovered(plan, fill, exit) ==
  LET worse == Worse(plan.direction, plan.entry, fill)
                 + Worse(plan.direction, exit, plan.stop)
      slipped == (fill + exit) * Slippage
      feesOnThem == (Taker + Slippage)
        * ((Distance(fill, plan.entry) + Distance(exit, plan.stop)) * Unit
             + Distance(fill, exit) * Slippage)
  IN (worse * Unit + slipped) * Unit + feesOnThem

\* A unit loses no more than the loss at its stop and what Uncovered counts.
LEMMA LossOfUnit ==
  ASSUME NEW plan \in Plan, Sided(plan), NEW fill \in Int, NEW exit \in Int
  PROVE  - (UnitResult(plan.direction, fill, exit).num + Uncovered(plan, fill, exit))
           <= UnitLoss(plan).num * Unit
<1> DEFINE G == Gain(plan.direction, fill, exit)
           P == Distance(fill, exit)
           W == Worse(plan.direction, plan.entry, fill)
                  + Worse(plan.direction, exit, plan.stop)
           A == Distance(fill, plan.entry) + Distance(exit, plan.stop)
           D == Distance(plan.entry, plan.stop)
           q == plan.entry + plan.stop
           p == fill + exit
           K == Taker + Slippage
           X == Taker + 2 * Slippage
           R == (G * Unit) * Unit + (G * Slippage) * K - (p * Unit) * X
           V == (W * Unit + p * Slippage) * Unit + K * (A * Unit + P * Slippage)
           L == D * Unit + q * K
<1>1. /\ G \in Int /\ P \in Int /\ W \in Int /\ A \in Int /\ D \in Int /\ q \in Int /\ p \in Int
      /\ K \in Nat /\ X = K + Slippage /\ Unit \in Nat /\ Slippage \in Nat
  BY RatesType DEF Gain, Distance, Worse, Plan
<1>2. G + W + D \in Nat /\ G + P \in Nat /\ A + q - p \in Nat
  BY DEF Gain, Distance, Worse, Plan, Sided
<1>3. UnitResult(plan.direction, fill, exit).num = R
  BY ResultOpened DEF Frac
<1>4. Uncovered(plan, fill, exit) = V
  BY DEF Uncovered
<1>5. UnitLoss(plan).num = L
  BY DEF UnitLoss, FeeEstimate, Frac
<1> HIDE DEF G, P, W, A, D, q, p, K, X
<1>6. R + V + L * Unit
        = ((G + W + D) * Unit) * Unit + ((G + P) * Slippage) * K + ((A + q - p) * Unit) * K
  BY <1>1
<1>7. /\ ((G + W + D) * Unit) * Unit \in Nat /\ ((G + P) * Slippage) * K \in Nat
      /\ ((A + q - p) * Unit) * K \in Nat
  <2>1. \A a, b, c \in Nat : (a * b) * c \in Nat
    OBVIOUS
  <2> QED
    BY <1>1, <1>2, <2>1
<1>8. R \in Int /\ V \in Int /\ L * Unit \in Int
  BY <1>1
<1> HIDE DEF R, V, L
<1> QED
  BY <1>3, <1>4, <1>5, <1>6, <1>7, <1>8

-----------------------------------------------------------------------------
(* The settings                                                            *)

\* Settings not written around the validation are in range in the table, too:
\* without this a restart could bring an unchecked value back.
SettingsInv ==
  /\ live \in [Keys -> Int]
  /\ stored \in [Loaded -> Int \cup {NoValue}]
  /\ lost \subseteq Loaded /\ unchecked \subseteq Loaded
  /\ StoredIsUsed
  /\ RangesKept
  /\ \A k \in Loaded \ unchecked : stored[k] = NoValue \/ stored[k] \in Allowed[k]

\* A trade leaves the settings alone.
LEMMA TradesKeepSettings ==
  ASSUME Next
  PROVE  \/ UNCHANGED settings
         \/ \E data \in Requests, n \in 0 .. 3 : ValidateAndSet(data, n)
         \/ \E data \in ConfigRequests : SizerConfig(data)
         \/ Restart
BY DEF Next, SizePaper, SizeLive, Drop, OpenPosition, ClosePosition

\* What an update accepts are settings whose new values are in range.
LEMMA AcceptedInRange ==
  ASSUME NEW data \in Requests, NEW ks
  PROVE  \A k \in Accepted(data, ks) :
           /\ k \in ks /\ k \in Keys
           /\ data[k] \in Int /\ data[k] \in Allowed[k]
BY SettingsType DEF Accepted

\* The settings invariant is inductive.
LEMMA SettingsStep ==
  ASSUME SettingsInv, [Next]_vars
  PROVE  SettingsInv'
<1> USE DEF SettingsInv
<1>1. CASE UNCHANGED settings
  BY <1>1 DEF settings, StoredIsUsed, RangesKept
<1>2. ASSUME NEW data \in Requests, NEW n \in 0 .. 3, ValidateAndSet(data, n)
      PROVE  SettingsInv'
  <2> DEFINE done == Accepted(data, {KeyOrder[i] : i \in 1 .. n})
             next == Accepted(data, IF n < 3 THEN {KeyOrder[n + 1]} \cap Loaded ELSE {})
  <2>1. PICK torn \in {{}, next} :
          /\ live' = [k \in Keys |-> IF k \in done \cup torn THEN data[k] ELSE live[k]]
          /\ stored' = [k \in Loaded |-> IF k \in done THEN data[k] ELSE stored[k]]
          /\ lost' = (lost \ done) \cup torn
          /\ unchecked' = unchecked \ done
    BY <1>2 DEF ValidateAndSet
  <2>2. \A k \in done \cup torn : data[k] \in Int /\ data[k] \in Allowed[k]
    BY <2>1, AcceptedInRange
  <2>3. torn \subseteq Loaded
    BY <2>1, AcceptedInRange
  <2> HIDE DEF done, next
  <2>4. Loaded \subseteq Keys
    BY DEF Loaded, Keys
  <2>5. live' \in [Keys -> Int] /\ stored' \in [Loaded -> Int \cup {NoValue}]
    BY <2>1, <2>2
  <2>6. StoredIsUsed'
    BY <2>1, <2>2, <2>4, SettingsType DEF StoredIsUsed
  <2>7. RangesKept'
    BY <2>1, <2>2 DEF RangesKept
  <2> QED
    BY <2>1, <2>2, <2>3, <2>5, <2>6, <2>7
<1>3. ASSUME NEW data \in ConfigRequests, SizerConfig(data)
      PROVE  SettingsInv'
  <2>1. PICK set \in {DOMAIN data, DOMAIN data \cap {"risk"}},
             saved \in {{}, {"risk"}, {"risk", "daily"}} :
          /\ live' = [k \in Keys |-> IF k \in set THEN data[k] ELSE live[k]]
          /\ stored' = [k \in Loaded |-> IF k \in saved THEN live'[k] ELSE stored[k]]
          /\ lost' = (lost \cup set) \ saved
          /\ unchecked' = unchecked \cup set
    BY <1>3 DEF SizerConfig
  <2>2. set \subseteq Loaded /\ \A k \in set : data[k] \in Int
    BY <2>1, SettingsType
  <2>3. Loaded \subseteq Keys
    BY DEF Loaded, Keys
  <2>4. live' \in [Keys -> Int]
    BY <2>1, <2>2
  <2>5. stored' \in [Loaded -> Int \cup {NoValue}]
    BY <2>1, <2>3, <2>4
  <2>6. StoredIsUsed'
    BY <2>1, <2>3, <2>4, SettingsType DEF StoredIsUsed
  <2>7. RangesKept'
    BY <2>1 DEF RangesKept
  <2>8. \A k \in Loaded \ unchecked' : stored'[k] = NoValue \/ stored'[k] \in Allowed[k]
    BY <2>1, <2>3 DEF RangesKept
  <2> QED
    BY <2>1, <2>2, <2>4, <2>5, <2>6, <2>7, <2>8
<1>4. CASE Restart
  <2>1. PICK failed \in SUBSET Loaded :
          /\ live' = [k \in Keys |-> IF k \in Loaded \ failed /\ stored[k] # NoValue
                                     THEN stored[k] ELSE Default[k]]
          /\ lost' = failed
          /\ UNCHANGED <<stored, unchecked>>
    BY <1>4 DEF Restart
  <2>2. Loaded \subseteq Keys
    BY DEF Loaded, Keys
  <2>3. live' \in [Keys -> Int]
    BY <2>1, SettingsType
  <2>4. StoredIsUsed'
    BY <2>1, <2>2 DEF StoredIsUsed
  <2>5. RangesKept'
    BY <2>1, SettingsType DEF RangesKept
  <2> QED
    BY <2>1, <2>3, <2>4, <2>5
<1> QED
  BY <1>1, <1>2, <1>3, <1>4, TradesKeepSettings DEF vars, settings

\* The settings invariant holds throughout.
THEOREM SettingsKept == Spec => []SettingsInv
<1>1. Init => SettingsInv
  BY SettingsType DEF Init, SettingsInv, StoredIsUsed, RangesKept, Loaded, Keys
<1> QED
  BY <1>1, SettingsStep, PTL DEF Spec

\* What is stored is what is used, whatever writes and reads fail and whenever
\* the process restarts, for every setting not itself hit by the failure.
THEOREM StoredUsed == Spec => []StoredIsUsed
<1>1. SettingsInv => StoredIsUsed
  BY DEF SettingsInv
<1> QED
  BY <1>1, SettingsKept, PTL

\* Only PUT /api/sizer/config takes a setting out of its range.
THEOREM InRange == Spec => []RangesKept
<1>1. SettingsInv => RangesKept
  BY DEF SettingsInv
<1> QED
  BY <1>1, SettingsKept, PTL

-----------------------------------------------------------------------------
(* The trade                                                               *)

TradeType ==
  trade \in [phase : Phases, verdict : Verdicts, plan : Plans, budget : Fraction,
             margin : Int, qty : Fraction, fill : Prices \cup {0},
             exit : Prices \cup {0}, result : Fraction]

\* What an approval rests on stays with the trade until it is closed: the
\* properties of the quantity, and the checks of the plan.
TradeInv ==
  /\ TradeType
  /\ LossWithinBudget
  /\ LargestAllowed
  /\ LastChecksPass
  /\ Approved => /\ trade.plan.entry > 0 /\ trade.plan.stop > 0
                 /\ trade.plan.entry # trade.plan.stop
                 /\ RewardSuffices(trade.plan)

\* The leverage both sizers work with is at least one, whatever is set.
LEMMA LeverageType ==
  ASSUME live \in [Keys -> Int]
  PROVE  Leverage \in Positive
BY DEF Leverage, Keys, Positive

\* A trade that nothing was approved for keeps the invariant.
LEMMA RefusedOK ==
  ASSUME NEW phase \in {"none", "refused"}, NEW verdict \in Verdicts \ {"budget", "margin"},
         NEW plan \in Plans, NEW budget \in Fraction,
         trade' = Judged(phase, verdict, plan, budget, 0, Zero)
  PROVE  TradeInv'
<1>1. Zero \in Fraction
  BY DEF Zero, Frac, Fraction
<1>2. trade' = [phase |-> phase, verdict |-> verdict, plan |-> plan, budget |-> budget,
                margin |-> 0, qty |-> Zero, fill |-> 0, exit |-> 0, result |-> Zero]
  BY DEF Judged
<1>3. TradeType'
  BY <1>1, <1>2 DEF TradeType, Phases
<1>4. ~ Approved' /\ trade'.verdict \notin {"budget", "margin"}
  BY <1>2 DEF Approved
<1> QED
  BY <1>3, <1>4 DEF TradeInv, LossWithinBudget, LargestAllowed, LastChecksPass

\* The trade that is not yet there keeps the invariant.
LEMMA NoTradeOK ==
  ASSUME trade' = NoTrade
  PROVE  TradeInv'
<1> DEFINE plan == CHOOSE p \in Plans : TRUE
<1>1. plan \in Plans
  BY PlansType
<1>2. Zero \in Fraction /\ "gate" \in Verdicts \ {"budget", "margin"}
  BY DEF Zero, Frac, Fraction, Verdicts
<1>3. trade' = Judged("none", "gate", plan, Zero, 0, Zero)
  BY DEF NoTrade
<1> HIDE DEF plan
<1> QED
  BY <1>1, <1>2, <1>3, RefusedOK

\* An approval within both limits keeps the invariant.
LEMMA ApprovedOK ==
  ASSUME NEW phase \in {"sized", "recorded"}, NEW plan \in Plans,
         NEW budget \in Fraction, NEW margin \in Int, NEW qty \in Fraction,
         plan.entry > 0, plan.stop > 0, plan.entry # plan.stop, RewardSuffices(plan),
         qty.num >= 0, AtMost(Product(qty, UnitLoss(plan)), budget),
         AtMost(Product(qty, Frac(plan.entry, 1)), Frac(margin, 1)),
         phase = "sized" =>
           Equal(qty, Smaller(Quotient(budget, UnitLoss(plan)), Frac(margin, plan.entry))),
         trade' = Judged(phase, "approved", plan, budget, margin, qty)
  PROVE  TradeInv'
<1>1. Zero \in Fraction
  BY DEF Zero, Frac, Fraction
<1>2. trade' = [phase |-> phase, verdict |-> "approved", plan |-> plan, budget |-> budget,
                margin |-> margin, qty |-> qty, fill |-> 0, exit |-> 0, result |-> Zero]
  BY DEF Judged
<1>3. TradeType'
  BY <1>1, <1>2 DEF TradeType, Phases, Verdicts
<1>4. LossWithinBudget'
  BY <1>2 DEF LossWithinBudget
<1>5. LargestAllowed'
  BY <1>2 DEF LargestAllowed
<1> QED
  BY <1>2, <1>3, <1>4, <1>5 DEF TradeInv, LastChecksPass

\* Sizer.calculate keeps the invariant: its quantity is the largest allowed.
LEMMA SizePaperStep ==
  ASSUME live \in [Keys -> Int], NEW plan \in Plans, NEW equity \in Equities,
         SizePaper(plan, equity)
  PROVE  TradeInv'
<1> DEFINE budget == Frac(equity * live["risk"], Unit)
           verdict == Verdict(budget, equity, Leverage, plan)
           qty == Quantity(budget, equity, Leverage, plan)
           margin == equity * Leverage
<1>1. Leverage \in Positive /\ plan \in Plan /\ equity \in Int /\ margin \in Int
  BY LeverageType, PlansType, EquitiesType DEF Positive
<1>2. budget \in Fraction
  BY <1>1, RatesType DEF Frac, Fraction, Keys
<1>3. /\ verdict \in {"prices", "distance", "quantity", "reward", "approved"}
      /\ verdict = "approved" =>
           Sizable(budget, equity, Leverage, plan) /\ RewardSuffices(plan)
  BY <1>1, <1>2, VerdictSound
<1>4. \/ \E why \in {"gate", verdict} :
           /\ why # "approved"
           /\ trade' = Judged("refused", why, plan, budget, 0, Zero)
      \/ /\ verdict = "approved"
         /\ trade' = Judged("sized", "approved", plan, budget, margin, qty)
  BY DEF SizePaper
<1> HIDE DEF budget, verdict
<1>5. CASE \E why \in {"gate", verdict} :
             /\ why # "approved"
             /\ trade' = Judged("refused", why, plan, budget, 0, Zero)
  BY <1>5, <1>2, <1>3, RefusedOK DEF Verdicts
<1>6. CASE /\ verdict = "approved"
           /\ trade' = Judged("sized", "approved", plan, budget, margin, qty)
  <2>1. Sizable(budget, equity, Leverage, plan) /\ RewardSuffices(plan)
    BY <1>3, <1>6
  <2>2. plan.entry > 0 /\ plan.stop > 0 /\ plan.entry # plan.stop
    BY <2>1 DEF Sizable
  <2>3. /\ qty \in Fraction /\ qty.num > 0
        /\ AtMost(Product(qty, UnitLoss(plan)), budget)
        /\ qty.num * plan.entry <= margin * qty.den
    BY <2>1, QuantityFits
  <2>4. Equal(qty, Smaller(Quotient(budget, UnitLoss(plan)), Frac(margin, plan.entry)))
    BY <2>1, QuantityLargest
  <2> HIDE DEF qty, margin
  <2>5. AtMost(Product(qty, Frac(plan.entry, 1)), Frac(margin, 1))
    BY <2>3, <1>1 DEF AtMost, Product, Frac, Fraction, Plan
  <2>6. qty.num >= 0
    BY <2>3 DEF Fraction
  <2> QED
    BY <1>1, <1>2, <1>6, <2>1, <2>2, <2>3, <2>4, <2>5, <2>6, ApprovedOK
<1> QED
  BY <1>4, <1>5, <1>6

\* size_position and the rounding keep it: rounding takes away, and a smaller
\* quantity stays within both limits.
LEMMA SizeLiveStep ==
  ASSUME live \in [Keys -> Int], NEW plan \in Plans, NEW equity \in Equities,
         NEW filter \in Filters, SizeLive(plan, equity, filter)
  PROVE  TradeInv'
<1> DEFINE verdict == Verdict(PlannedLoss, equity, Leverage, plan)
           full == Quantity(PlannedLoss, equity, Leverage, plan)
           qty == RoundQuantity(full, filter)
           margin == equity * Leverage
<1>1. Leverage \in Positive /\ plan \in Plan /\ equity \in Int /\ margin \in Int
  BY LeverageType, PlansType, EquitiesType DEF Positive
<1>2. PlannedLoss \in Fraction
  BY PlannedLossType
<1>3. /\ verdict \in {"prices", "distance", "quantity", "reward", "approved"}
      /\ verdict = "approved" =>
           Sizable(PlannedLoss, equity, Leverage, plan) /\ RewardSuffices(plan)
  BY <1>1, <1>2, VerdictSound
<1>4. \/ \E why \in {"filter", verdict} :
           /\ why # "approved"
           /\ trade' = Judged("refused", why, plan, PlannedLoss, 0, Zero)
      \/ /\ verdict = "approved"
         /\ trade' = Judged("recorded", "approved", plan, PlannedLoss, margin, qty)
  BY DEF SizeLive
<1> HIDE DEF verdict
<1>5. CASE \E why \in {"filter", verdict} :
             /\ why # "approved"
             /\ trade' = Judged("refused", why, plan, PlannedLoss, 0, Zero)
  BY <1>5, <1>2, <1>3, RefusedOK DEF Verdicts
<1>6. CASE /\ verdict = "approved"
           /\ trade' = Judged("recorded", "approved", plan, PlannedLoss, margin, qty)
  <2>1. Sizable(PlannedLoss, equity, Leverage, plan) /\ RewardSuffices(plan)
    BY <1>3, <1>6
  <2>2. plan.entry > 0 /\ plan.stop > 0 /\ plan.entry # plan.stop
    BY <2>1 DEF Sizable
  <2>3. /\ full \in Fraction /\ full.num > 0
        /\ AtMost(Product(full, UnitLoss(plan)), PlannedLoss)
        /\ full.num * plan.entry <= margin * full.den
    BY <2>1, QuantityFits
  <2> HIDE DEF full, margin
  <2>4. AtMost(Product(full, Frac(plan.entry, 1)), Frac(margin, 1))
    BY <2>3, <1>1 DEF AtMost, Product, Frac, Fraction, Plan
  <2>5. full.num >= 0
    BY <2>3 DEF Fraction
  <2>6. qty \in Fraction /\ qty.num >= 0 /\ AtMost(qty, full)
    BY <2>3, <2>5, RoundingReduces
  <2> HIDE DEF qty
  <2>7. UnitLoss(plan) \in Fraction /\ UnitLoss(plan).num >= 0
    BY <2>2, <1>1, UnitLossType DEF Positive
  <2>8. AtMost(Product(qty, UnitLoss(plan)), PlannedLoss)
    BY <1>2, <2>3, <2>6, <2>7, SmallerFits
  <2>9. Frac(plan.entry, 1) \in Fraction /\ Frac(plan.entry, 1).num >= 0
          /\ Frac(margin, 1) \in Fraction
    BY <1>1, <2>2 DEF Frac, Fraction, Plan
  <2>10. AtMost(Product(qty, Frac(plan.entry, 1)), Frac(margin, 1))
    BY <2>3, <2>4, <2>6, <2>9, SmallerFits
  <2> QED
    BY <1>1, <1>2, <1>6, <2>1, <2>2, <2>6, <2>8, <2>10, ApprovedOK
<1> QED
  BY <1>4, <1>5, <1>6

\* What a unit of a trade ends with is a fraction.
LEMMA UnitResultType ==
  ASSUME NEW direction, NEW fill \in Int, NEW price \in Int
  PROVE  UnitResult(direction, fill, price) \in Fraction
<1> DEFINE side == IF direction = "LONG" THEN 1 ELSE -1
           entry == fill * (Unit + side * Slippage)
           exit == price * (Unit - side * Slippage)
           net == side * (exit - entry) * Unit - FeeEstimate(entry, exit)
<1>1. side \in Int /\ side * Slippage \in Int
  BY RatesType
<1>2. entry \in Int /\ exit \in Int
  <2> HIDE DEF side
  <2> QED
    BY <1>1, RatesType
<1>3. net \in Int
  <2> HIDE DEF side, entry, exit
  <2> QED
    BY <1>1, <1>2, RatesType DEF FeeEstimate
<1>4. Unit * Unit \in Nat \ {0}
  BY RatesType
<1>5. UnitResult(direction, fill, price) = [num |-> net, den |-> Unit * Unit]
  BY DEF UnitResult, Frac
<1> HIDE DEF net
<1> QED
  BY <1>3, <1>4, <1>5 DEF Fraction

\* Every step keeps the trade's invariant.
LEMMA TradeStep ==
  ASSUME SettingsInv, TradeInv, [Next]_vars
  PROVE  TradeInv'
<1>1. live \in [Keys -> Int]
  BY DEF SettingsInv
<1>2. CASE UNCHANGED trade
  BY <1>2 DEF TradeInv, TradeType, LossWithinBudget, LargestAllowed, LastChecksPass, Approved
<1>3. CASE trade' = NoTrade
  BY <1>3, NoTradeOK
<1>4. ASSUME NEW plan \in Plans, NEW equity \in Equities, SizePaper(plan, equity)
      PROVE  TradeInv'
  BY <1>1, <1>4, SizePaperStep
<1>5. ASSUME NEW plan \in Plans, NEW equity \in Equities, NEW filter \in Filters,
             SizeLive(plan, equity, filter)
      PROVE  TradeInv'
  BY <1>1, <1>5, SizeLiveStep
<1>6. ASSUME NEW price \in Prices, OpenPosition(price)
      PROVE  TradeInv'
  <2>1. /\ trade.phase = "sized"
        /\ trade' = [trade EXCEPT !.phase = "open", !.fill = price]
    BY <1>6 DEF OpenPosition
  <2>2. TradeType'
    BY <2>1 DEF TradeInv, TradeType, Phases
  <2>3. /\ trade'.verdict = trade.verdict /\ trade'.plan = trade.plan
        /\ trade'.budget = trade.budget
        /\ trade'.margin = trade.margin /\ trade'.qty = trade.qty
        /\ trade'.phase = "open"
    BY <2>1 DEF TradeInv, TradeType
  <2> QED
    BY <2>1, <2>2, <2>3
       DEF TradeInv, LossWithinBudget, LargestAllowed, LastChecksPass, Approved
<1>7. ASSUME NEW price \in Prices, ClosePosition(price)
      PROVE  TradeInv'
  <2> DEFINE unit == UnitResult(trade.plan.direction, trade.fill, price)
  <2>1. /\ trade.phase = "open"
        /\ trade' = [trade EXCEPT !.phase = "closed", !.exit = price,
                       !.result = Product(trade.qty, unit)]
    BY <1>7 DEF ClosePosition
  <2>2. trade.qty \in Fraction /\ trade.fill \in Int /\ price \in Int
    <3>1. price \in Int /\ \A p \in Prices \cup {0} : p \in Int
      BY PricesType
    <3>2. TradeType
      BY DEF TradeInv
    <3>3. trade.qty \in Fraction /\ trade.fill \in Prices \cup {0}
      BY <3>2, Zenon DEF TradeType
    <3> QED
      BY <3>1, <3>3
  <2>3. unit \in Fraction
    BY <2>2, UnitResultType
  <2> HIDE DEF unit
  <2>4. Product(trade.qty, unit) \in Fraction
    BY <2>2, <2>3 DEF Product, Frac, Fraction
  <2>5. TradeType'
    BY <2>1, <2>4 DEF TradeInv, TradeType, Phases
  <2>6. /\ trade'.verdict = trade.verdict /\ trade'.plan = trade.plan
        /\ trade'.budget = trade.budget
        /\ trade'.margin = trade.margin /\ trade'.qty = trade.qty
        /\ trade'.phase = "closed"
    BY <2>1 DEF TradeInv, TradeType
  <2> QED
    BY <2>1, <2>5, <2>6
       DEF TradeInv, LossWithinBudget, LargestAllowed, LastChecksPass, Approved
<1>8. CASE Drop
  BY <1>3, <1>8 DEF Drop
<1>9. ASSUME NEW data \in Requests, NEW n \in 0 .. 3, ValidateAndSet(data, n)
      PROVE  TradeInv'
  BY <1>2, <1>9 DEF ValidateAndSet
<1>10. ASSUME NEW data \in ConfigRequests, SizerConfig(data)
       PROVE  TradeInv'
  BY <1>2, <1>10 DEF SizerConfig
<1>11. CASE Restart
  BY <1>2, <1>3, <1>11 DEF Restart
<1> QED
  BY <1>2, <1>4, <1>5, <1>6, <1>7, <1>8, <1>9, <1>10, <1>11 DEF Next, vars

\* Both invariants hold throughout.
THEOREM TradeKept == Spec => [](SettingsInv /\ TradeInv)
<1>1. Init => TradeInv
  <2>1. ASSUME Init PROVE TradeInv
    <3> DEFINE plan == CHOOSE p \in Plans : TRUE
    <3>1. plan \in Plans
      BY PlansType
    <3>2. trade = [phase |-> "none", verdict |-> "gate", plan |-> plan, budget |-> Zero,
                   margin |-> 0, qty |-> Zero, fill |-> 0, exit |-> 0, result |-> Zero]
      BY <2>1 DEF Init, NoTrade, Judged
    <3>3. Zero \in Fraction
      BY DEF Zero, Frac, Fraction
    <3> HIDE DEF plan
    <3>4. TradeType /\ ~ Approved
      BY <3>1, <3>2, <3>3 DEF TradeType, Phases, Verdicts, Approved
    <3> QED
      BY <3>2, <3>4 DEF TradeInv, LossWithinBudget, LargestAllowed, LastChecksPass
  <2> QED
    BY <2>1
<1>2. SettingsInv /\ TradeInv /\ [Next]_vars => TradeInv'
  BY TradeStep
<1> QED
  BY <1>1, <1>2, SettingsKept, PTL DEF Spec

\* Types, for all settings, plans and prices.
THEOREM TypeCorrect == Spec => []TypeOK
<1>1. SettingsInv /\ TradeInv => TypeOK
  BY DEF SettingsInv, TradeInv, TradeType, TypeOK
<1> QED
  BY <1>1, TradeKept, PTL

\* No approved trade risks more than its budget at the planned prices.
THEOREM RiskBounded == Spec => []LossWithinBudget
<1>1. TradeInv => LossWithinBudget
  BY DEF TradeInv
<1> QED
  BY <1>1, TradeKept, PTL

\* A paper trade is never sized below what its limits allow.
THEOREM RiskUsed == Spec => []LargestAllowed
<1>1. TradeInv => LargestAllowed
  BY DEF TradeInv
<1> QED
  BY <1>1, TradeKept, PTL

\* In exact arithmetic the checks after the scaling are dead code.
THEOREM LastChecksDead == Spec => []LastChecksPass
<1>1. TradeInv => LastChecksPass
  BY DEF TradeInv
<1> QED
  BY <1>1, TradeKept, PTL

\* As soon as trading costs anything, a bare minimum of reward is never traded.
THEOREM BareMinimumNeverTraded ==
  ASSUME Taker + Slippage > 0
  PROVE  Spec => []BareMinimumRefused
<1>1. TradeInv => BareMinimumRefused
  <2> SUFFICES ASSUME TradeInv, Approved PROVE ~ BareMinimum(trade.plan)
    BY DEF BareMinimumRefused
  <2>1. trade.plan \in Plan
    BY PlansType DEF TradeInv, TradeType
  <2> QED
    BY <2>1, BareMinimumFails DEF TradeInv
<1> QED
  BY <1>1, TradeKept, PTL

-----------------------------------------------------------------------------
(* How a trade ends                                                        *)

\* A paper trade has a quantity, and its result is the quantity's share of what
\* close_position gives for its fill and its exit.
Settled ==
  /\ trade.phase \in {"sized", "open", "closed"} => trade.qty.num > 0
  /\ trade.phase = "closed" =>
       /\ trade.fill \in Int /\ trade.exit \in Int
       /\ trade.result = Product(trade.qty,
                           UnitResult(trade.plan.direction, trade.fill, trade.exit))

\* Sizer.calculate approves no quantity of zero.
LEMMA SizedSettled ==
  ASSUME live \in [Keys -> Int], NEW plan \in Plans, NEW equity \in Equities,
         SizePaper(plan, equity)
  PROVE  Settled'
<1> DEFINE budget == Frac(equity * live["risk"], Unit)
           verdict == Verdict(budget, equity, Leverage, plan)
           qty == Quantity(budget, equity, Leverage, plan)
<1>1. Leverage \in Positive /\ plan \in Plan /\ equity \in Int
  BY LeverageType, PlansType, EquitiesType
<1>2. budget \in Fraction
  BY <1>1, RatesType DEF Frac, Fraction, Keys
<1>3. verdict = "approved" => qty.num > 0
  <2>1. verdict = "approved" => Sizable(budget, equity, Leverage, plan)
    BY <1>1, <1>2, VerdictSound
  <2> QED
    BY <2>1, QuantityFits
<1>4. \/ trade'.phase = "refused"
      \/ trade'.phase = "sized" /\ verdict = "approved" /\ trade'.qty = qty
  BY DEF SizePaper, Judged
<1> HIDE DEF verdict, qty
<1> QED
  BY <1>3, <1>4 DEF Settled

\* Every step leaves a trade settled.
LEMMA SettledStep ==
  ASSUME SettingsInv, TradeInv, Settled, [Next]_vars
  PROVE  Settled'
<1>1. live \in [Keys -> Int] /\ TradeType
  BY DEF SettingsInv, TradeInv
<1>2. CASE UNCHANGED trade
  BY <1>2 DEF Settled
<1>3. CASE trade'.phase \in {"none", "refused", "recorded"}
  BY <1>3 DEF Settled
<1>4. CASE trade' = NoTrade
  BY <1>3, <1>4 DEF NoTrade, Judged
<1>5. ASSUME NEW plan \in Plans, NEW equity \in Equities, SizePaper(plan, equity)
      PROVE  Settled'
  BY <1>1, <1>5, SizedSettled
<1>6. ASSUME NEW plan \in Plans, NEW equity \in Equities, NEW filter \in Filters,
             SizeLive(plan, equity, filter)
      PROVE  Settled'
  BY <1>3, <1>6 DEF SizeLive, Judged
<1>7. ASSUME NEW price \in Prices, OpenPosition(price)
      PROVE  Settled'
  <2>1. trade'.phase = "open" /\ trade'.qty = trade.qty /\ trade.phase = "sized"
    BY <1>1, <1>7 DEF OpenPosition, TradeType
  <2> QED
    BY <2>1 DEF Settled
<1>8. ASSUME NEW price \in Prices, ClosePosition(price)
      PROVE  Settled'
  <2>1. /\ trade'.phase = "closed" /\ trade'.qty = trade.qty /\ trade.phase = "open"
        /\ trade'.plan = trade.plan /\ trade'.fill = trade.fill /\ trade'.exit = price
        /\ trade'.result = Product(trade.qty,
                             UnitResult(trade.plan.direction, trade.fill, price))
    BY <1>1, <1>8 DEF ClosePosition, TradeType
  <2>2. trade.fill \in Int /\ price \in Int
    <3>1. trade.fill \in Prices \cup {0}
      BY <1>1, Zenon DEF TradeType
    <3>2. price \in Int /\ \A p \in Prices \cup {0} : p \in Int
      BY PricesType
    <3> QED
      BY <3>1, <3>2
  <2> QED
    BY <2>1, <2>2 DEF Settled
<1>9. CASE Drop
  BY <1>4, <1>9 DEF Drop
<1>10. ASSUME NEW data \in Requests, NEW n \in 0 .. 3, ValidateAndSet(data, n)
       PROVE  Settled'
  BY <1>2, <1>10 DEF ValidateAndSet
<1>11. ASSUME NEW data \in ConfigRequests, SizerConfig(data)
       PROVE  Settled'
  BY <1>2, <1>11 DEF SizerConfig
<1>12. CASE Restart
  BY <1>2, <1>4, <1>12 DEF Restart
<1> QED
  BY <1>2, <1>5, <1>6, <1>7, <1>8, <1>9, <1>10, <1>11, <1>12 DEF Next, vars

\* A trade is settled at all times.
THEOREM TradeSettled == Spec => [](TradeInv /\ Settled)
<1>1. Init => Settled
  BY DEF Init, NoTrade, Judged, Settled
<1>2. SettingsInv /\ TradeInv /\ Settled /\ [Next]_vars => Settled'
  BY SettledStep
<1> QED
  BY <1>1, <1>2, TradeKept, PTL DEF Spec

\* Whatever a trade loses beyond its budget has a cause that LossTraced names: a worse
\* fill, a worse exit, the slippage, or the fees on these.
THEOREM LossExplained == Spec => []LossTraced
<1>1. TradeInv /\ Settled => LossTraced
  <2> DEFINE plan == trade.plan
             unit == UnitResult(plan.direction, trade.fill, trade.exit).num
             extra == Uncovered(plan, trade.fill, trade.exit)
             loss == UnitLoss(plan).num
             qn == trade.qty.num
             qd == trade.qty.den
             bn == trade.budget.num
             bd == trade.budget.den
             sq == Unit * Unit
  <2> SUFFICES ASSUME TradeInv, Settled, trade.phase = "closed", Sided(plan)
               PROVE  AtMost(Frac(- (trade.result.num + Product(trade.qty,
                                       Frac(extra, sq)).num),
                                  trade.result.den),
                             trade.budget)
    BY DEF LossTraced, Uncovered
  <2>1. trade.fill \in Int /\ trade.exit \in Int /\ plan \in Plan /\ Approved
    BY PlansType DEF Settled, TradeInv, TradeType, Approved
  <2>2. /\ qn \in Nat /\ qd \in Positive /\ bn \in Int /\ bd \in Positive
        /\ (qn * loss) * bd <= bn * (qd * Unit)
    <3>1. trade.qty \in Fraction /\ trade.budget \in Fraction
      BY DEF TradeInv, TradeType
    <3>2. trade.qty.num >= 0 /\ AtMost(Product(trade.qty, UnitLoss(plan)), trade.budget)
      BY <2>1 DEF TradeInv, LossWithinBudget
    <3>3. UnitLoss(plan).den = Unit
      BY DEF UnitLoss, Frac
    <3> QED
      BY <3>1, <3>2, <3>3 DEF Fraction, AtMost, Product, Frac, Positive
  <2>3. - (unit + extra) <= loss * Unit
    BY <2>1, LossOfUnit
  <2>4. /\ unit \in Int /\ extra \in Int /\ loss \in Int /\ Unit \in Positive /\ sq \in Positive
    <3>1. unit \in Int
      BY <2>1, UnitResultType DEF Fraction
    <3>2. extra \in Int
      <4>1. /\ Distance(trade.fill, plan.entry) \in Int /\ Distance(trade.exit, plan.stop) \in Int
            /\ Distance(trade.fill, trade.exit) \in Int
            /\ Worse(plan.direction, plan.entry, trade.fill) \in Int
            /\ Worse(plan.direction, trade.exit, plan.stop) \in Int
        BY <2>1 DEF Distance, Worse, Plan
      <4> QED
        BY <2>1, <4>1, RatesType DEF Uncovered
    <3>3. loss \in Int
      BY <2>1, UnitLossType DEF TradeInv, Positive
    <3> QED
      BY <3>1, <3>2, <3>3, RatesType DEF Positive
  <2>5. trade.result = Frac(qn * unit, qd * sq)
    <3>1. UnitResult(plan.direction, trade.fill, trade.exit).den = sq
      BY DEF UnitResult, Frac
    <3> QED
      BY <3>1 DEF Settled, Product
  <2>6. Product(trade.qty, Frac(extra, sq)).num = qn * extra
    BY DEF Product, Frac
  <2> HIDE DEF plan, unit, extra, loss, qn, qd, bn, bd, sq
  <2>7. (- (qn * unit + qn * extra)) * bd <= bn * (qd * sq)
    <3>1. qn * bd \in Nat /\ - (unit + extra) \in Int /\ loss * Unit \in Int
      BY <2>2, <2>4 DEF Positive
    <3>2. (- (unit + extra)) * (qn * bd) <= (loss * Unit) * (qn * bd)
      BY <2>3, <3>1, Multiply
    <3>3. ((qn * loss) * bd) * Unit <= (bn * (qd * Unit)) * Unit
      <4>1. (qn * loss) * bd \in Int /\ bn * (qd * Unit) \in Int /\ Unit \in Nat
        BY <2>2, <2>4 DEF Positive
      <4> QED
        BY <4>1, <2>2, Multiply
    <3>4. (- (unit + extra)) * (qn * bd) = (- (qn * unit + qn * extra)) * bd
      BY <2>2, <2>4 DEF Positive
    <3>5. (loss * Unit) * (qn * bd) = ((qn * loss) * bd) * Unit
      BY <2>2, <2>4 DEF Positive
    <3>6. (bn * (qd * Unit)) * Unit = bn * (qd * sq)
      BY <2>2, <2>4 DEF Positive, sq
    <3>7. /\ (- (qn * unit + qn * extra)) * bd \in Int /\ bn * (qd * sq) \in Int
          /\ ((qn * loss) * bd) * Unit \in Int
      BY <2>2, <2>4 DEF Positive
    <3> QED
      BY <3>2, <3>3, <3>4, <3>5, <3>6, <3>7
  <2> QED
    BY <2>5, <2>6, <2>7 DEF AtMost, Frac, bn, bd
<1> QED
  BY <1>1, TradeSettled, PTL

\* Where the minimum reward covers the costs its check leaves out, a trade that reaches
\* its target from its planned entry ends with a profit, however small.
THEOREM TargetsPay ==
  ASSUME CostsCovered
  PROVE  Spec => []TargetPays
<1>1. TradeInv /\ Settled => TargetPays
  <2> SUFFICES ASSUME TradeInv, Settled, Unmoved, trade.exit = trade.plan.target
               PROVE  trade.result.num > 0
    BY DEF TargetPays
  <2> DEFINE plan == trade.plan
             unit == UnitResult(plan.direction, plan.entry, plan.target)
  <2>1. plan \in Plan /\ Approved /\ trade.qty \in Fraction
    BY PlansType DEF Unmoved, TradeInv, TradeType, Approved
  <2>2. plan.entry > 0 /\ plan.stop > 0 /\ RewardSuffices(plan) /\ Sided(plan)
    BY <2>1 DEF TradeInv, Unmoved
  <2>3. unit.num > 0
    BY <2>1, <2>2, TargetPaysUnit
  <2>4. unit.num \in Int
    <3>1. plan.entry \in Int /\ plan.target \in Int
      BY <2>1 DEF Plan
    <3> QED
      BY <3>1, UnitResultType DEF Fraction
  <2>5. trade.qty.num \in Positive /\ trade.result = Product(trade.qty, unit)
    BY <2>1 DEF Settled, Unmoved, Fraction, Positive
  <2> HIDE DEF unit
  <2> QED
    BY <2>3, <2>4, <2>5 DEF Product, Frac, Positive
<1> QED
  BY <1>1, TradeSettled, PTL
=============================================================================
