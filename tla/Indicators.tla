----------------------------- MODULE Indicators -----------------------------
(***************************************************************************)
(* indicators.py: functions of a series of completed candles, oldest       *)
(* first.  Values are exact fractions, where the code rounds each Decimal  *)
(* to 28 digits; RSI, ADX and percentages are of one, where the code says  *)
(* of a hundred.  A function that answers None answers Missing.            *)
(***************************************************************************)
EXTENDS Integers, SequencesExt

Missing == [num |-> 0, den |-> 0]   \* not a fraction

-----------------------------------------------------------------------------
(* Fractions in lowest terms                                               *)

Abs(n) == IF n < 0 THEN -n ELSE n
Gcd[p \in Nat \X Nat] == IF p[2] = 0 THEN p[1] ELSE Gcd[<<p[2], p[1] % p[2]>>]
Frac(n, d) == LET g == Gcd[<<Abs(n), d>>] IN [num |-> n \div g, den |-> d \div g]
Whole(n) == Frac(n, 1)
Zero == Whole(0)
Plus(x, y) ==
  LET g == Gcd[<<x.den, y.den>>]
  IN Frac(x.num * (y.den \div g) + y.num * (x.den \div g), x.den * (y.den \div g))
Neg(x) == [x EXCEPT !.num = - @]
Less(x, y) == Plus(x, Neg(y))
Times(x, y) == Frac(x.num * y.num, x.den * y.den)
Over(x, y) ==
  IF y.num > 0 THEN Frac(x.num * y.den, x.den * y.num) ELSE Frac(- x.num * y.den, - x.den * y.num)
AtMost(x, y) == Less(x, y).num <= 0
Total(xs) == FoldLeft(Plus, Zero, xs)
Mean(xs) == Over(Total(xs), Whole(Len(xs)))
Fractions(ns) == [i \in DOMAIN ns |-> Whole(ns[i])]

\* The last n of a sequence, xs[-n:].
LastOf(xs, n) == SubSeq(xs, Len(xs) - n + 1, Len(xs))

\* The members of a set of indices in order, by how many come before.
Nth(S, k) == CHOOSE i \in S : Cardinality({j \in S : j < i}) = k - 1
InOrder(S) == [k \in 1 .. Cardinality(S) |-> Nth(S, k)]

-----------------------------------------------------------------------------
(* Averages                                                                *)

\* ema
Ema(xs, period) ==
  LET k == Frac(2, period + 1)
      out[i \in 1 .. Len(xs)] ==
        IF i = 1 THEN xs[1] ELSE Plus(Times(xs[i], k), Times(out[i - 1], Less(Whole(1), k)))
  IN out

\* Seeded fault: the average keeps all of what it was.
WilderKeepsAll(xs, period) ==
  LET next(avg, x) == Over(Plus(Times(avg, Whole(period)), x), Whole(period))
  IN FoldLeft(next, Mean(SubSeq(xs, 1, period)), SubSeq(xs, period + 1, Len(xs)))

\* Wilder's average: the mean of the first values, then a share of each later one.
Wilder(xs, period) ==
  LET next(avg, x) == Over(Plus(Times(avg, Whole(period - 1)), x), Whole(period))
  IN FoldLeft(next, Mean(SubSeq(xs, 1, period)), SubSeq(xs, period + 1, Len(xs)))

\* ema_slope
EmaSlope(xs, lookback) ==
  LET prev == xs[Len(xs) - lookback]
  IN IF Len(xs) < lookback + 1 \/ prev = Zero THEN Missing
     ELSE Over(Less(Last(xs), prev), prev)

\* macd: line, signal and histogram.
Macd(xs, fast, slow, signal) ==
  IF Len(xs) < slow + signal THEN Missing
  ELSE LET ef == Ema(xs, fast)
           es == Ema(xs, slow)
           line == [i \in DOMAIN xs |-> Less(ef[i], es[i])]
           sig == Last(Ema(line, signal))
       IN [line |-> Last(line), sig |-> sig, hist |-> Less(Last(line), sig)]

-----------------------------------------------------------------------------
(* RSI                                                                     *)

Move(xs, i) == Less(xs[i + 1], xs[i])
Up(x) == IF x.num > 0 THEN x ELSE Zero

\* rsi
Rsi(xs, period) ==
  LET gains == [i \in 1 .. Len(xs) - 1 |-> Up(Move(xs, i))]
      losses == [i \in 1 .. Len(xs) - 1 |-> Up(Neg(Move(xs, i)))]
      gain == Wilder(gains, period)
      loss == Wilder(losses, period)
  IN IF Len(xs) < period + 1 THEN Missing
     ELSE IF loss = Zero THEN Whole(1)
     ELSE Less(Whole(1), Over(Whole(1), Plus(Whole(1), Over(gain, loss))))

-----------------------------------------------------------------------------
(* Ranges: candles are [high, low, close, volume], in whole prices         *)

TrueRange(cs, i) ==
  Max({cs[i].high - cs[i].low, Abs(cs[i].high - cs[i - 1].close),
           Abs(cs[i].low - cs[i - 1].close)})
TrueRanges(cs) == [i \in 1 .. Len(cs) - 1 |-> Whole(TrueRange(cs, i + 1))]

\* atr, atr_wilder
Atr(cs, period) == IF Len(cs) < period + 1 THEN Missing ELSE Mean(LastOf(TrueRanges(cs), period))
AtrWilder(cs, period) == IF Len(cs) < period + 1 THEN Missing ELSE Wilder(TrueRanges(cs), period)

\* Seeded fault: a candle that grows on both sides alike counts as rising.
MovesEvenUp(cs, i) ==
  LET up == cs[i].high - cs[i - 1].high
      down == cs[i - 1].low - cs[i].low
  IN [plus |-> IF up >= down /\ up > 0 THEN up ELSE 0,
      minus |-> IF down > up /\ down > 0 THEN down ELSE 0]

\* The directional movement from one candle to the next.
Moves(cs, i) ==
  LET up == cs[i].high - cs[i - 1].high
      down == cs[i - 1].low - cs[i].low
  IN [plus |-> IF up > down /\ up > 0 THEN up ELSE 0,
      minus |-> IF down > up /\ down > 0 THEN down ELSE 0]

\* wilder_smooth
WilderSums(xs, period) ==
  LET out[i \in 0 .. Len(xs) - period] ==
        IF i = 0 THEN Total(SubSeq(xs, 1, period))
        ELSE Plus(Less(out[i - 1], Over(out[i - 1], Whole(period))), xs[period + i])
  IN [i \in 1 .. Len(xs) - period + 1 |-> out[i - 1]]

\* The directional indices of the windows in which there is a range and a movement.
DirectionalIndices(cs, period) ==
  LET moves == [i \in 1 .. Len(cs) - 1 |-> Moves(cs, i + 1)]
      range == WilderSums(TrueRanges(cs), period)
      plus == WilderSums([i \in DOMAIN moves |-> Whole(moves[i].plus)], period)
      minus == WilderSums([i \in DOMAIN moves |-> Whole(moves[i].minus)], period)
      some == InOrder({i \in DOMAIN range : range[i] # Zero /\ Plus(plus[i], minus[i]) # Zero})
      index(i) ==
        LET pdi == Over(plus[i], range[i])
            mdi == Over(minus[i], range[i])
            gap == Less(pdi, mdi)
        IN Over(IF gap.num < 0 THEN Neg(gap) ELSE gap, Plus(pdi, mdi))
  IN [k \in DOMAIN some |-> index(some[k])]

\* adx
Adx(cs, period) ==
  LET dxs == DirectionalIndices(cs, period)
  IN IF Len(cs) < 2 * period + 1 \/ Len(dxs) < period THEN Missing ELSE Wilder(dxs, period)

-----------------------------------------------------------------------------
(* Volume                                                                  *)

Volumes(cs) == [i \in DOMAIN cs |-> Whole(cs[i].volume)]

\* volume_ratio: the last candle against the mean of those before it.
VolumeRatio(cs, period) ==
  LET before == SubSeq(Volumes(cs), Len(cs) - period, Len(cs) - 1)
  IN IF Len(cs) < period + 1 \/ Total(before) = Zero THEN Missing
     ELSE Over(Last(Volumes(cs)), Mean(before))

\* vwap
Vwap(cs) ==
  LET typical(c) == Frac(c.high + c.low + c.close, 3)
      worth == [i \in DOMAIN cs |-> Times(typical(cs[i]), Whole(cs[i].volume))]
  IN IF Total(Volumes(cs)) = Zero THEN Missing ELSE Over(Total(worth), Total(Volumes(cs)))

\* rolling_vwap
RollingVwap(cs, period) == IF Len(cs) < period THEN Missing ELSE Vwap(LastOf(cs, period))

-----------------------------------------------------------------------------
(* Swing levels                                                            *)

\* Seeded fault: a level is not awaited, the last candles are compared with what is there.
CandidatesEarly(cs, left, right) == left + 1 .. Len(cs)

\* Where a candle has left and right neighbours, and those whose price is extreme.
SwingCandidates(cs, left, right) == left + 1 .. Len(cs) - right
Around(i, left, right) == i - left .. i + right

Highs(cs, left, right) ==
  {i \in SwingCandidates(cs, left, right) :
     \A j \in Around(i, left, right) \cap DOMAIN cs : cs[j].high <= cs[i].high}
Lows(cs, left, right) ==
  {i \in SwingCandidates(cs, left, right) :
     \A j \in Around(i, left, right) \cap DOMAIN cs : cs[j].low >= cs[i].low}

Latest(xs, n) == SubSeq(xs, Max({0, Len(xs) - n}) + 1, Len(xs))

\* swing_levels
SwingLevels(cs, left, right, max) ==
  LET res == InOrder(Highs(cs, left, right))
      sup == InOrder(Lows(cs, left, right))
  IN [res |-> Latest([k \in DOMAIN res |-> cs[res[k]].high], max),
      sup |-> Latest([k \in DOMAIN sup |-> cs[sup[k]].low], max)]

\* nearest_level: the level under a price above it, or the one over a price below.
NearestLevel(levels, price, direction) ==
  LET under == {l \in ToSet(levels) : l < price}
      over == {l \in ToSet(levels) : l > price}
  IN IF direction = "above" THEN IF under = {} THEN Missing ELSE Whole(Max(under))
     ELSE IF over = {} THEN Missing ELSE Whole(Min(over))
=============================================================================
