--------------------------- MODULE BacktestProofs ---------------------------
(***************************************************************************)
(* Theorems about Backtest, for histories, slices and days of any length:  *)
(* the times of a run stay within its data and in order, no trade is lost, *)
(* its cooldowns keep trades apart; the books balance, the                 *)
(* guard ends a day in time, the drawdown is that of the trades, and a     *)
(* backtest has only so many steps.                                        *)
(***************************************************************************)
EXTENDS Backtest, FiniteSetTheorems, WellFoundedInduction, TLAPS

-----------------------------------------------------------------------------
(* The invariant                                                           *)

Trade == [decided : Times, seen : Times, trend : Times, entry : Times, exit : Times,
          pnl : Pnls \cup {0}]

Types ==
  /\ ltf \in BOOLEAN /\ direct \in BOOLEAN /\ ready \in BOOLEAN
  /\ split \in 1 .. LastSplit + 1 /\ htfLen \in 0 .. HtfTotal /\ i \in Nat /\ rests \in Nat
  /\ position \in Trade /\ trades \in Seq(Trade)
  /\ equity \in Int /\ dayStart \in Int /\ last \in Int
  /\ curve \in [peak : Int, fall : Nat]

\* A run is one of those there are.
InRun == i > 0 => split <= LastSplit

\* An open trade was entered at a candle that is not over yet.
Entered == position # NoTrade => i > 0 /\ i <= Total /\ position.entry <= Open(i)

Decided(t) ==
  /\ t.trend <= t.decided /\ t.decided < t.trend + Ratio
  /\ t.seen <= t.decided /\ t.decided <= t.seen + Ratio
  /\ t.decided < t.entry

\* Open and closed trades were decided on what had closed, and entered before they left.
InOrder ==
  /\ position # NoTrade => Decided(position)
  /\ \A k \in DOMAIN trades : Decided(trades[k]) /\ trades[k].entry <= trades[k].exit

\* Trades are a cooldown apart by their candles, and the last was decided no later than
\* the last signal.
Apart(ts, t) ==
  \A k \in DOMAIN ts :
    /\ ts[k].decided <= t
    /\ \A j \in 1 .. k - 1 : ts[k].decided - ts[j].decided >= Cooldown

Spaced ==
  /\ Apart(trades, last)
  /\ position # NoTrade =>
       /\ position.decided <= last
       /\ \A k \in DOMAIN trades : position.decided - trades[k].decided >= Cooldown

Opened == IF position = NoTrade THEN 0 ELSE 1
Waiting == IF ready THEN 0 ELSE 1

\* Each trade but the first has had a cooldown of the engine pass; while the engine has not
\* signalled there is none.
Rested ==
  ~ direct /\ Cooldown > 0 => Len(trades) + Opened <= rests + Waiting

IInv == Types /\ InRun /\ Entered /\ InOrder /\ Spaced /\ Rested

-----------------------------------------------------------------------------
(* Times                                                                   *)

\* A product with a natural number keeps the order.
LEMMA Grows ==
  ASSUME NEW a \in Int, NEW b \in Int, NEW c \in Nat, a <= b
  PROVE  a * c <= b * c
OBVIOUS

\* One more on both sides.
LEMMA OneMore ==
  ASSUME NEW a \in Nat, NEW b \in Nat, NEW r \in Nat, NEW w \in Nat, a + b <= r + w,
         NEW r2 \in Nat, NEW w2 \in Nat, r2 + w2 >= r + w + 1
  PROVE  a + b + 1 <= r2 + w2
OBVIOUS

\* No slice is longer than the data.
LEMMA SliceWithin ==
  ASSUME NEW s \in 1 .. LastSplit
  PROVE  HEnd(s) \in 0 .. HtfTotal
<1>1. CASE Single
  BY <1>1, CandlesType DEF HEnd
<1>2. CASE ~ Single
  <2> DEFINE d == HtfTotal \div Splits
  <2>1. Splits \in Nat /\ Splits > 0 /\ s + 1 \in 0 .. Splits
    BY <1>2, SplitsType DEF LastSplit, Single
  <2>2. d \in Nat /\ Splits * d <= HtfTotal
    BY <2>1, CandlesType
  <2>3. (s + 1) * d <= Splits * d
    BY <2>1, <2>2, Grows
  <2>4. (s + 1) * d \in Nat
    BY <2>1, <2>2
  <2>5. HEnd(s) = (s + 1) * d
    BY <1>2 DEF HEnd
  <2> HIDE DEF d
  <2> QED
    BY <2>1, <2>2, <2>3, <2>4, <2>5, CandlesType
<1> QED
  BY <1>1, <1>2

\* The candles of a slice open, and the last one closes, within the data.
LEMMA OpenTimes ==
  ASSUME Types, NEW k \in Nat, k <= Total
  PROVE  Open(k) \in Times /\ Open(k) \in Nat
<1>1. /\ htfLen \in Nat /\ HtfTotal \in Nat /\ htfLen <= HtfTotal /\ Ratio \in Nat /\ Ratio > 0
  BY CandlesType DEF Types
<1>2. htfLen * Ratio <= HtfTotal * Ratio /\ htfLen * Ratio \in Nat /\ HtfTotal * Ratio \in Nat
  BY <1>1, Grows
<1>3. CASE ltf
  <2>1. Open(k) = k
    BY <1>1, <1>3 DEF Open, Step
  <2>2. Total <= htfLen * Ratio /\ Total \in Int
    BY <1>1, <1>3 DEF Total
  <2> QED
    BY <1>1, <1>2, <2>1, <2>2 DEF Times
<1>4. CASE ~ ltf
  <2>1. Open(k) = k * Ratio
    BY <1>4 DEF Open, Step
  <2>2. k <= htfLen
    BY <1>1, <1>4 DEF Total
  <2>3. k * Ratio <= htfLen * Ratio /\ k * Ratio \in Nat
    BY <1>1, <2>2, Grows
  <2> QED
    BY <1>1, <1>2, <2>1, <2>3 DEF Times
<1> QED
  BY <1>3, <1>4

\* The total of a slice is a number.
LEMMA TotalInt == Types => Total \in Int
BY CandlesType DEF Types, Total

\* A candle opens before the next one.
LEMMA CandleTimes ==
  ASSUME Types, i > 0, i < Total
  PROVE  /\ Open(i) \in Times /\ Open(i + 1) \in Times
         /\ Open(i) \in Nat /\ Open(i + 1) \in Nat /\ Open(i) < Open(i + 1)
<1>1. i \in Nat /\ i + 1 \in Nat /\ i <= Total /\ i + 1 <= Total
  BY TotalInt DEF Types
<1>2. Open(i) \in Times /\ Open(i + 1) \in Times /\ Open(i) \in Nat /\ Open(i + 1) \in Nat
  BY <1>1, OpenTimes
<1>3. Open(i + 1) = Open(i) + Step /\ Step \in Nat /\ Step > 0
  BY <1>1, CandlesType DEF Open, Step
<1> QED
  BY <1>2, <1>3

\* The trend candles given are those that had closed when the candle at hand opened, and
\* what the engine looks at had closed by then as well.
LEMMA SeenBefore ==
  ASSUME Types, i > 0, i < Total, HtfClosed >= MinHistory + 1
  PROVE  /\ Seen \in Times /\ Seen <= Open(i) /\ Open(i) <= Seen + Ratio
         /\ TrendGiven \in Times /\ TrendGiven <= Open(i) /\ Open(i) < TrendGiven + Ratio
<1>1. Open(i) \in Times /\ Open(i) \in Nat
  BY CandleTimes
<1>2. /\ Ratio \in Nat /\ Ratio > 0 /\ MinHistory \in Nat /\ i \in Nat /\ htfLen \in Nat
      /\ HtfTotal * Ratio \in Nat /\ htfLen * Ratio \in Nat
  BY CandlesType, ConfigType DEF Types
<1>3. Open(i) <= HtfTotal * Ratio
  BY <1>1, <1>2 DEF Times
<1> DEFINE n == Open(i) \div Ratio
<1>4. n \in Nat /\ n * Ratio <= Open(i) /\ Open(i) < n * Ratio + Ratio /\ n * Ratio \in Nat
  BY <1>1, <1>2
<1>5. HtfClosed = IF n < htfLen THEN n ELSE htfLen
  BY DEF HtfClosed
<1>6. Open(i) < htfLen * Ratio + Ratio
  <2>1. CASE ltf
    <3>1. Total <= htfLen * Ratio + 1 /\ Total \in Int
      BY <1>2, <2>1 DEF Total
    <3>2. Open(i) = i
      BY <1>2, <2>1 DEF Open, Step
    <3> QED
      BY <1>2, <3>1, <3>2
  <2>2. CASE ~ ltf
    <3>1. i < htfLen
      BY <2>2 DEF Total
    <3>2. Open(i) = i * Ratio /\ i * Ratio <= htfLen * Ratio
      BY <1>2, <2>2, <3>1, Grows DEF Open, Step
    <3> QED
      BY <1>2, <3>2
  <2> QED
    BY <2>1, <2>2
<1> HIDE DEF n
<1>7. HtfClosed \in Nat /\ HtfClosed >= 1 /\ HtfClosed <= n
  BY <1>2, <1>4, <1>5
<1>8. /\ HtfClosed * Ratio <= Open(i) /\ HtfClosed * Ratio \in Nat
      /\ Open(i) < HtfClosed * Ratio + Ratio
  <2>1. CASE n < htfLen
    BY <1>4, <1>5, <2>1
  <2>2. CASE ~ (n < htfLen)
    <3>1. HtfClosed = htfLen /\ htfLen * Ratio <= n * Ratio
      BY <1>2, <1>4, <1>5, <2>2, Grows
    <3> QED
      BY <1>1, <1>2, <1>4, <1>6, <3>1
  <2> QED
    BY <2>1, <2>2
<1>9. TrendGiven \in Times /\ TrendGiven <= Open(i) /\ Open(i) < TrendGiven + Ratio
  BY <1>1, <1>2, <1>3, <1>8 DEF TrendGiven, Times
<1> DEFINE trend == (HtfClosed - 1) * Ratio
<1>10. trend = HtfClosed * Ratio - Ratio /\ trend >= 0
  <2>1. 1 * Ratio <= HtfClosed * Ratio
    BY <1>2, <1>7, Grows
  <2> QED
    BY <1>2, <1>7, <2>1
<1> HIDE DEF trend
<1>11. Seen = IF ltf /\ i * Step > trend THEN i * Step ELSE trend
  BY DEF Seen, trend
<1>12. ltf => i * Step = Open(i)
  BY DEF Open
<1>13. CASE Seen = trend
  <2> DEFINE p == HtfClosed * Ratio
             h == HtfTotal * Ratio
  <2>1. /\ p \in Nat /\ h \in Nat /\ p <= Open(i) /\ Open(i) < p + Ratio /\ Open(i) <= h
        /\ Seen = p - Ratio /\ Seen >= 0 /\ Times = -1 .. h
    BY <1>2, <1>3, <1>8, <1>10, <1>13 DEF Times
  <2>2. ~ ltf
    <3>1. ltf => trend < Open(i)
      BY <1>1, <1>2, <1>8, <1>10
    <3>2. trend \in Int /\ Open(i) \in Int
      BY <1>1, <1>2, <1>8, <1>10
    <3> QED
      BY <1>11, <1>12, <1>13, <3>1, <3>2
  <2>3. Open(i) = i * Ratio /\ i * Ratio \in Nat
    BY <1>2, <2>2 DEF Open, Step
  <2>4. Open(i) <= p
    <3>1. CASE i <= HtfClosed
      BY <1>2, <1>7, <2>3, <3>1, Grows
    <3>2. CASE HtfClosed + 1 <= i
      <4>1. (HtfClosed + 1) * Ratio <= i * Ratio
        BY <1>2, <1>7, <3>2, Grows
      <4>2. (HtfClosed + 1) * Ratio = p + Ratio
        BY <1>2, <1>7
      <4> QED
        BY <1>2, <1>8, <2>3, <4>1, <4>2
    <3> QED
      BY <1>2, <1>7, <3>1, <3>2
  <2> HIDE DEF p, h
  <2> QED
    BY <1>1, <1>2, <1>9, <2>1, <2>4
<1>14. CASE ltf /\ Seen = i * Step
  <2>1. Seen = Open(i)
    BY <1>12, <1>14
  <2> QED
    BY <1>1, <1>2, <1>9, <2>1
<1> QED
  BY <1>11, <1>13, <1>14

-----------------------------------------------------------------------------
(* What a step does to the trades                                          *)

Ended(t, pnl) == [position EXCEPT !.exit = t, !.pnl = pnl]

\* A candle leaves the open trade alone or closes it.
LEMMA ManagedIs ==
  ASSUME NEW now \in Managed
  PROVE  \/ now.position = position /\ now.equity = equity /\ now.trades = trades
         \/ /\ position # NoTrade
            /\ \E pnl \in Pnls : /\ now.position = NoTrade /\ now.equity = equity + pnl
                                 /\ now.trades = Append(trades, Ended(Open(i), pnl))
<1>1. CASE now = [position |-> position, equity |-> equity, trades |-> trades]
  BY <1>1
<1>2. ASSUME position # NoTrade, NEW pnl \in Pnls, now = Close(Open(i), pnl)
      PROVE  /\ now.position = NoTrade /\ now.equity = equity + pnl
             /\ now.trades = Append(trades, Ended(Open(i), pnl))
  BY <1>2 DEF Close, Ended
<1>3. \/ now = [position |-> position, equity |-> equity, trades |-> trades]
      \/ position # NoTrade /\ \E pnl \in Pnls : now = Close(Open(i), pnl)
  BY DEF Managed
<1> QED
  BY <1>1, <1>2, <1>3

\* A trade that ends after it was entered is closed in order.
LEMMA EndedOK ==
  ASSUME IInv, position # NoTrade, NEW t \in Times, position.entry <= t, NEW pnl \in Pnls
  PROVE  /\ Append(trades, Ended(t, pnl)) \in Seq(Trade)
         /\ \A k \in DOMAIN Append(trades, Ended(t, pnl)) :
              LET x == Append(trades, Ended(t, pnl))[k] IN Decided(x) /\ x.entry <= x.exit
         /\ Len(Append(trades, Ended(t, pnl))) = Len(trades) + 1
         /\ Apart(Append(trades, Ended(t, pnl)), last)
<1> DEFINE e == Ended(t, pnl)
<1>1. e \in Trade
  BY DEF IInv, Types, Ended, Trade
<1>2. e.entry = position.entry /\ e.seen = position.seen /\ e.decided = position.decided
      /\ e.trend = position.trend /\ e.exit = t
  BY DEF IInv, Types, Ended, Trade
<1>3. Decided(e) /\ e.entry <= e.exit
  BY <1>2 DEF IInv, InOrder, Decided
<1>4. trades \in Seq(Trade)
  BY DEF IInv, Types
<1> HIDE DEF e
<1>5. /\ Append(trades, e) \in Seq(Trade) /\ Len(Append(trades, e)) = Len(trades) + 1
      /\ DOMAIN Append(trades, e) = 1 .. Len(trades) + 1
      /\ \A k \in 1 .. Len(trades) : Append(trades, e)[k] = trades[k]
      /\ Append(trades, e)[Len(trades) + 1] = e
      /\ Len(trades) \in Nat /\ DOMAIN trades = 1 .. Len(trades)
  BY <1>1, <1>4
<1>6. ASSUME NEW k \in 1 .. Len(trades) + 1
      PROVE  Decided(Append(trades, e)[k]) /\ Append(trades, e)[k].entry <= Append(trades, e)[k].exit
  <2>1. CASE k \in 1 .. Len(trades)
    BY <1>5, <2>1 DEF IInv, InOrder
  <2>2. CASE k = Len(trades) + 1
    BY <1>3, <1>5, <2>2
  <2> QED
    BY <1>5, <2>1, <2>2
<1>7. ASSUME NEW k \in 1 .. Len(trades) + 1
      PROVE  /\ Append(trades, e)[k].decided <= last
             /\ \A j \in 1 .. k - 1 :
                  Append(trades, e)[k].decided - Append(trades, e)[j].decided >= Cooldown
  <2>1. \A j \in 1 .. k - 1 : j \in 1 .. Len(trades)
    BY <1>5
  <2>2. CASE k \in 1 .. Len(trades)
    BY <1>5, <2>1, <2>2 DEF IInv, Spaced, Apart
  <2>3. CASE k = Len(trades) + 1
    BY <1>2, <1>5, <2>1, <2>3 DEF IInv, Spaced
  <2> QED
    BY <1>5, <2>2, <2>3
<1> QED
  BY <1>5, <1>6, <1>7 DEF e, Apart

\* What a candle can leave: all as it was, or the open trade closed.
Left(now) ==
  /\ now.equity \in Int /\ now.trades \in Seq(Trade) /\ now.position \in {NoTrade, position}
  /\ \A k \in DOMAIN now.trades :
       Decided(now.trades[k]) /\ now.trades[k].entry <= now.trades[k].exit
  /\ Apart(now.trades, last)
  /\ \/ now.position = position /\ now.trades = trades
     \/ /\ position # NoTrade /\ now.position = NoTrade
        /\ Len(now.trades) = Len(trades) + 1
        /\ \E pnl \in Pnls : now.trades = Append(trades, Ended(Open(i), pnl))

\* A candle leaves one of these.
LEMMA ManagedOK ==
  ASSUME IInv, i > 0, i < Total, NEW now \in Managed
  PROVE  Left(now)
<1>1. CASE now.position = position /\ now.equity = equity /\ now.trades = trades
  BY <1>1 DEF Left, IInv, Types, InOrder, Spaced
<1>2. ASSUME position # NoTrade, NEW pnl \in Pnls,
             now.position = NoTrade, now.equity = equity + pnl,
             now.trades = Append(trades, Ended(Open(i), pnl))
      PROVE  Left(now)
  <2>1. position.entry <= Open(i) /\ Open(i) \in Times
    BY <1>2, CandleTimes DEF IInv, Entered
  <2>2. /\ now.trades \in Seq(Trade) /\ Len(now.trades) = Len(trades) + 1
        /\ \A k \in DOMAIN now.trades :
             Decided(now.trades[k]) /\ now.trades[k].entry <= now.trades[k].exit
        /\ Apart(now.trades, last)
    BY <1>2, <2>1, EndedOK
  <2>3. now.equity \in Int
    BY <1>2, ConfigType DEF IInv, Types
  <2> QED
    BY <1>2, <2>2, <2>3 DEF Left
<1> QED
  BY <1>1, <1>2, ManagedIs

-----------------------------------------------------------------------------
(* The invariant is inductive                                              *)

\* No trade is a trade at no time.
LEMMA NoTradeIs == NoTrade \in Trade /\ NoTrade.exit = -1
<1>1. HtfTotal * Ratio \in Nat
  BY CandlesType
<1>2. -1 \in Times
  BY <1>1 DEF Times
<1> QED
  BY <1>2 DEF NoTrade, Trade

\* There is at least one run.
LEMMA SomeSplit == LastSplit \in Nat /\ LastSplit >= 1
BY SplitsType DEF LastSplit, Single

\* The backtester begins in the invariant.
LEMMA InitInv == Init => IInv
<1> SUFFICES ASSUME Init PROVE IInv
  OBVIOUS
<1>1. Types
  BY NoTradeIs, SomeSplit, CandlesType, ConfigType DEF Init, Types, FlatCurve
<1> QED
  BY <1>1 DEF Init, IInv, InRun, Entered, InOrder, Spaced, Apart, Rested, Opened, Waiting

\* A run begins in the invariant.
LEMMA StartRunInv == ASSUME IInv, StartRun PROVE IInv'
<1>1. split \in 1 .. LastSplit
  BY SomeSplit DEF StartRun, IInv, Types
<1>2. HEnd(split) \in 0 .. HtfTotal
  BY <1>1, SliceWithin
<1>3. Types'
  BY <1>2, NoTradeIs, ConfigType DEF StartRun, IInv, Types, FlatCurve, Single, LastSplit
<1>4. InRun'
  BY <1>1 DEF StartRun, InRun, Single, LastSplit
<1> QED
  BY <1>3, <1>4 DEF StartRun, IInv, Entered, InOrder, Spaced, Apart, Rested, Opened, Waiting

\* A run ends in the invariant.
LEMMA EndRunInv == ASSUME IInv, EndRun PROVE IInv'
<1>1. split + 1 \in 1 .. LastSplit + 1
  BY SomeSplit DEF EndRun, IInv, Types, InRun
<1>2. CASE position = NoTrade
  <2>1. Types'
    BY <1>1, <1>2 DEF EndRun, IInv, Types, Single, LastSplit
  <2> QED
    BY <1>2, <2>1 DEF EndRun, IInv, InRun, Entered, InOrder, Spaced, Apart, Rested, Opened, Waiting, Decided
<1>3. CASE position # NoTrade
  <2>1. PICK pnl \in Pnls : /\ position' = NoTrade /\ equity' = equity + pnl
                           /\ trades' = Append(trades, Ended(Open(Total), pnl))
    BY <1>3 DEF EndRun, Close, Ended
  <2>2. i = Total /\ i \in Nat /\ i > 0
    BY <1>3, TotalInt DEF EndRun, IInv, Types, Entered
  <2>3. Open(Total) \in Times /\ position.entry <= Open(Total)
    <3>1. position.entry <= Open(Total)
      BY <1>3, <2>2 DEF IInv, Entered
    <3>2. Open(Total) \in Times
      BY <2>2, OpenTimes DEF IInv
    <3> QED
      BY <3>1, <3>2
  <2>4. /\ trades' \in Seq(Trade) /\ Len(trades') = Len(trades) + 1
        /\ \A k \in DOMAIN trades' : Decided(trades'[k]) /\ trades'[k].entry <= trades'[k].exit
        /\ Apart(trades', last)
    BY <1>3, <2>1, <2>3, EndedOK
  <2>5. equity' \in Int
    BY <2>1, ConfigType DEF IInv, Types
  <2>6. Types'
    BY <1>1, <2>1, <2>4, <2>5, NoTradeIs DEF EndRun, IInv, Types, Single, LastSplit
  <2>7. Rested'
    BY <1>3, <2>1, <2>4 DEF EndRun, IInv, Rested, Opened, Waiting
  <2>8. Spaced'
    BY <1>3, <2>1, <2>4 DEF EndRun, Spaced, Apart
  <2> QED
    BY <2>1, <2>4, <2>6, <2>7, <2>8 DEF EndRun, IInv, InRun, Entered, InOrder, Decided
<1> QED
  BY <1>2, <1>3

\* One candle keeps the invariant, and does to the open trade what TradesReported says.
LEMMA CandleInv ==
  ASSUME IInv, Candle
  PROVE  IInv' /\ (position \notin {NoTrade, position'} =>
                    \E pnl \in Pnls : trades' = Append(trades, Ended(Open(i), pnl)))
<1> DEFINE start == dayStart'
<1>1. PICK now \in Managed, accepted \in BOOLEAN :
        /\ dayStart' \in {equity, dayStart} /\ equity' = now.equity /\ trades' = now.trades
        /\ i' = i + 1
        /\ IF MayEvaluate(now, start) THEN Engine(accepted)
             ELSE ~ accepted /\ UNCHANGED <<ready, rests>>
        /\ IF accepted /\ i + 1 < Total
           THEN /\ position' = [NoTrade EXCEPT !.decided = Open(i), !.seen = Seen,
                                               !.trend = TrendGiven, !.entry = Open(i + 1)]
                /\ last' = Open(i)
           ELSE position' = now.position /\ UNCHANGED last
        /\ curve' \in {curve, Extended(now.equity)}
  BY DEF Candle
<1>2. /\ i \in Nat /\ i > 0 /\ i < Total
      /\ UNCHANGED <<ltf, direct, split, htfLen>>
  BY DEF Candle, IInv, Types
<1>3. /\ Open(i) \in Times /\ Open(i + 1) \in Times
      /\ Open(i) \in Nat /\ Open(i + 1) \in Nat /\ Open(i) < Open(i + 1)
  BY <1>2, CandleTimes DEF IInv
<1>4. Total' = Total /\ Open(i)' = Open(i + 1) /\ LastSplit' = LastSplit
  BY <1>1, <1>2 DEF Total, Open, Step, Single, LastSplit
<1>5. Total \in Int
  BY TotalInt DEF IInv
<1>6. ready' \in BOOLEAN /\ rests' \in Nat
  BY <1>1 DEF Engine, IInv, Types
<1>14. /\ rests' \in Nat /\ Waiting \in Nat /\ Waiting' \in Nat /\ rests \in Nat
      /\ rests' + Waiting' >= rests + Waiting
  BY <1>1 DEF Engine, IInv, Types, Waiting
<1>7. accepted => /\ MayEvaluate(now, start)
                  /\ ~ direct /\ Cooldown > 0 =>
                       rests' + Waiting' >= rests + Waiting + 1
  BY <1>1, ConfigType DEF Engine, IInv, Types, Waiting
<1>8. accepted => /\ now.position = NoTrade /\ HtfClosed >= MinHistory + 1
                  /\ Open(i) - last >= Cooldown
  BY <1>7 DEF MayEvaluate
<1>9. Left(now)
  BY <1>2, ManagedOK
<1>13. /\ Len(trades) \in Nat /\ Len(now.trades) \in Nat
       /\ Len(now.trades) + (IF now.position = NoTrade THEN 0 ELSE 1) = Len(trades) + Opened
  <2>1. Len(trades) \in Nat /\ Len(now.trades) \in Nat
    BY <1>9 DEF IInv, Types, Left
  <2>2. CASE now.position = position /\ now.trades = trades
    BY <2>1, <2>2 DEF Opened
  <2>3. CASE position # NoTrade /\ now.position = NoTrade /\ Len(now.trades) = Len(trades) + 1
    BY <2>1, <2>3 DEF Opened
  <2> QED
    BY <1>9, <2>1, <2>2, <2>3 DEF Left
<1>10. curve' \in [peak : Int, fall : Nat]
  BY <1>1, <1>9 DEF Left, Extended, IInv, Types
<1>11. CASE accepted /\ i + 1 < Total
  <2>1. /\ position' = [NoTrade EXCEPT !.decided = Open(i), !.seen = Seen, !.trend = TrendGiven,
                                          !.entry = Open(i + 1)]
        /\ last' = Open(i)
    BY <1>1, <1>11
  <2>2. /\ Seen \in Times /\ Seen <= Open(i) /\ Open(i) <= Seen + Ratio
        /\ TrendGiven \in Times /\ TrendGiven <= Open(i) /\ Open(i) < TrendGiven + Ratio
    BY <1>2, <1>8, <1>11, SeenBefore DEF IInv
  <2>3. position' \in Trade /\ Decided(position') /\ position'.entry = Open(i + 1)
    BY <1>3, <2>1, <2>2, NoTradeIs DEF Trade, Decided
  <2>4. Types'
    <3>1. trades' \in Seq(Trade) /\ equity' \in Int /\ dayStart' \in Int /\ last' \in Int
      BY <1>1, <1>3, <1>9, <2>1 DEF IInv, Types, Left
    <3> QED
      BY <1>1, <1>2, <1>4, <1>6, <1>10, <2>3, <3>1 DEF IInv, Types
  <2>5. Entered' /\ InRun'
    BY <1>1, <1>2, <1>3, <1>4, <1>5, <2>3 DEF IInv, Entered, InRun
  <2>6. InOrder'
    BY <1>1, <1>9, <2>3 DEF InOrder, Decided, Left
  <2>7. Rested'
    <3>1. NoTrade.entry = -1
      BY DEF NoTrade
    <3>2. Opened' = 1
      BY <1>3, <2>3, <3>1 DEF Opened
    <3>3. Len(trades') = Len(trades) + Opened /\ Opened \in Nat
      <4>1. trades' = now.trades /\ now.position = NoTrade
        BY <1>1, <1>8, <1>11
      <4> QED
        BY <1>13, <4>1 DEF Opened
    <3>4. ~ direct /\ Cooldown > 0 => Len(trades) + Opened <= rests + Waiting
      BY DEF IInv, Rested
    <3>5. ~ direct /\ Cooldown > 0 => Len(trades') + Opened' <= rests' + Waiting'
      <4> SUFFICES ASSUME ~ direct, Cooldown > 0
                   PROVE  Len(trades') + Opened' <= rests' + Waiting'
        OBVIOUS
      <4>1. rests' + Waiting' >= rests + Waiting + 1
        BY <1>7, <1>11
      <4>2. Len(trades) + Opened <= rests + Waiting
        BY <3>4
      <4>3. Len(trades) \in Nat
        BY <1>13
      <4>4. /\ Opened \in Nat /\ rests \in Nat /\ Waiting \in Nat
            /\ rests' \in Nat /\ Waiting' \in Nat
        BY <1>14, <3>3
      <4>5. Len(trades) + Opened + 1 <= rests' + Waiting'
        BY <4>1, <4>2, <4>3, <4>4, OneMore
      <4> QED
        BY <3>2, <3>3, <4>5
    <3> QED
      BY <1>2, <3>5 DEF Rested
  <2>9. Spaced'
    <3>1. position'.decided = Open(i)
      BY <2>1 DEF NoTrade
    <3>2. \A k \in DOMAIN now.trades : now.trades[k].decided \in Int
      <4>1. \A k \in DOMAIN now.trades : now.trades[k] \in Trade
        BY <1>9 DEF Left
      <4> QED
        BY <4>1 DEF Trade, Times
    <3>3. last <= Open(i) /\ last \in Int /\ Cooldown \in Nat
      BY <1>3, <1>8, <1>11, ConfigType DEF IInv, Types
    <3> QED
      BY <1>1, <1>3, <1>8, <1>9, <1>11, <2>1, <3>1, <3>2, <3>3 DEF Spaced, Apart, Left
  <2>8. position # NoTrade => \E pnl \in Pnls : trades' = Append(trades, Ended(Open(i), pnl))
    BY <1>1, <1>8, <1>9, <1>11 DEF Left
  <2> QED
    BY <2>4, <2>5, <2>6, <2>7, <2>8, <2>9 DEF IInv
<1>12. CASE ~ (accepted /\ i + 1 < Total)
  <2>1. position' = now.position /\ UNCHANGED last
    BY <1>1, <1>12
  <2>2. Types'
    <3>1. /\ trades' \in Seq(Trade) /\ equity' \in Int /\ dayStart' \in Int /\ last' \in Int
          /\ position' \in Trade
      BY <1>1, <1>9, <2>1, NoTradeIs DEF IInv, Types, Left
    <3>2. i' \in Nat /\ split' \in 1 .. LastSplit' + 1 /\ htfLen' \in 0 .. HtfTotal
      BY <1>1, <1>2, <1>4 DEF IInv, Types
    <3>3. ltf' \in BOOLEAN /\ direct' \in BOOLEAN
      BY <1>2 DEF IInv, Types
    <3> QED
      BY <1>6, <1>10, <3>1, <3>2, <3>3 DEF Types
  <2>3. Entered' /\ InRun'
    <3>1. InRun'
      BY <1>2, <1>4 DEF IInv, InRun
    <3>2. position' \in {NoTrade, position}
      BY <1>9, <2>1 DEF Left
    <3>3. CASE position' = NoTrade
      BY <3>1, <3>3 DEF Entered, NoTrade
    <3>4. CASE position' = position /\ position # NoTrade
      <4>1. position.entry <= Open(i) /\ position.entry \in Int
        BY <1>2, <3>4 DEF IInv, Entered, Types, Trade, Times
      <4>2. i' > 0 /\ i' <= Total'
        BY <1>1, <1>2, <1>4, <1>5
      <4>3. position'.entry <= Open(i)'
        BY <1>3, <1>4, <3>4, <4>1
      <4> QED
        BY <3>1, <4>2, <4>3 DEF Entered
    <3> QED
      BY <3>1, <3>2, <3>3, <3>4
  <2>4. InOrder'
    BY <1>1, <1>9, <2>1 DEF IInv, InOrder, Decided, Left
  <2>5. Rested'
    <3>1. Len(trades') + Opened' = Len(trades) + Opened /\ Opened \in Nat /\ Opened' \in Nat
      BY <1>1, <1>13, <2>1 DEF Opened
    <3> QED
      BY <1>1, <1>2, <1>14, <1>13, <3>1 DEF IInv, Rested
  <2>7. Spaced'
    <3>1. CASE position' = NoTrade
      BY <1>1, <1>9, <2>1, <3>1 DEF Spaced, Left, Apart
    <3>2. CASE position' # NoTrade
      <4>1. position' = position /\ trades' = trades
        BY <1>1, <1>9, <2>1, <3>2 DEF Left
      <4> QED
        BY <2>1, <4>1 DEF IInv, Spaced, Apart
    <3> QED
      BY <3>1, <3>2
  <2>6. position \notin {NoTrade, position'} =>
          \E pnl \in Pnls : trades' = Append(trades, Ended(Open(i), pnl))
    BY <1>1, <1>9, <2>1 DEF Left
  <2> QED
    BY <2>2, <2>3, <2>4, <2>5, <2>6, <2>7 DEF IInv
<1> QED
  BY <1>11, <1>12

\* Every step keeps the invariant.
LEMMA InvStep == ASSUME IInv, [Next]_vars PROVE IInv'
<1>1. CASE UNCHANGED vars
  BY <1>1 DEF vars, loop, IInv, Types, InRun, Entered, InOrder, Spaced, Apart,
              Rested, Opened, Waiting, Decided,
              Single, LastSplit, Total, Open, Step
<1> QED
  BY <1>1, StartRunInv, CandleInv, EndRunInv DEF Next

\* The invariant is one.
LEMMA Invariant == Spec => []IInv
<1> QED
  BY InitInv, InvStep, PTL DEF Spec

-----------------------------------------------------------------------------
(* Sums of the results of trades                                           *)

\* The results of the trades of ts that kept names, as Booked sums them.
Sum(ts, kept) == MapThenSumSet(LAMBDA k : ts[k].pnl, kept)

Pick(S) == CHOOSE x \in S : TRUE

\* The table of all sums over subsets of S that the fold is defined by.
Tabulates(g, ts, S) ==
  g = [s \in SUBSET S |-> IF s = {} THEN 0 ELSE ts[Pick(s)].pnl + g[s \ {Pick(s)}]]

\* Induction over the subsets of a finite set, with a set in place of the predicate.
LEMMA SubsetInduction ==
  ASSUME NEW U, IsFiniteSet(U), NEW G,
         \A S \in SUBSET U : (\A T \in SUBSET S : T # S => T \in G) => S \in G
  PROVE  SUBSET U \subseteq G
<1> DEFINE Bad == (SUBSET U) \ G
<1> SUFFICES ASSUME Bad # {} PROVE FALSE
  OBVIOUS
<1>1. IsWellFoundedOn(StrictSubsetOrdering(U), SUBSET U)
  <2>1. IsWellFoundedOn(StrictSubsetOrdering(U), FiniteSubsetsOf(U))
    BY FS_StrictSubsetOrderingWellFounded
  <2>2. FiniteSubsetsOf(U) = SUBSET U
    BY FS_FiniteSubsetsOfFinite
  <2> QED
    BY <2>1, <2>2
<1>2. PICK S \in Bad : \A T \in Bad : ~ (<<T, S>> \in StrictSubsetOrdering(U))
  <2> HIDE DEF Bad
  <2>1. Bad \subseteq SUBSET U
    BY DEF Bad
  <2> QED
    BY <1>1, <2>1, WFMin
<1>3. ASSUME NEW T \in SUBSET S, T # S PROVE T \in G
  BY <1>2, <1>3 DEF StrictSubsetOrdering
<1> QED
  BY <1>2, <1>3

\* A finite set has an element to pick, and fewer without it.
LEMMA PickOne ==
  ASSUME NEW S, S # {}
  PROVE  Pick(S) \in S /\ S \ {Pick(S)} \subseteq S /\ S \ {Pick(S)} # S
BY DEF Pick

\* There is one table at most.
LEMMA TablesAgree ==
  ASSUME NEW U, IsFiniteSet(U), NEW ts, NEW g, NEW h, Tabulates(g, ts, U), Tabulates(h, ts, U)
  PROVE  g = h
<1> DEFINE G == {S \in SUBSET U : g[S] = h[S]}
<1>1. ASSUME NEW S \in SUBSET U, \A T \in SUBSET S : T # S => T \in G
      PROVE  S \in G
  <2>1. CASE S = {}
    BY <2>1 DEF Tabulates
  <2>2. CASE S # {}
    <3>1. g[S \ {Pick(S)}] = h[S \ {Pick(S)}]
      BY <1>1, <2>2, PickOne
    <3>2. g[S] = ts[Pick(S)].pnl + g[S \ {Pick(S)}]
      BY <2>2 DEF Tabulates
    <3>3. h[S] = ts[Pick(S)].pnl + h[S \ {Pick(S)}]
      BY <2>2 DEF Tabulates
    <3> QED
      BY <3>1, <3>2, <3>3
  <2> QED
    BY <2>1, <2>2
<1>2. SUBSET U \subseteq G
  <2> HIDE DEF G
  <2> QED
    BY <1>1, SubsetInduction
<1>3. \A S \in SUBSET U : g[S] = h[S]
  BY <1>2
<1> QED
  BY <1>3 DEF Tabulates

\* The sum is the entry for the whole set in its table.
LEMMA SumInTable ==
  ASSUME NEW ts, NEW S
  PROVE  Sum(ts, S) = (CHOOSE g : Tabulates(g, ts, S))[S]
BY DEF Sum, Tabulates, Pick, MapThenSumSet, MapThenFoldSet

\* The equation of the sum: one result and the sum of the others.
LEMMA SumEquation ==
  ASSUME NEW U, IsFiniteSet(U), NEW ts
  PROVE  Sum(ts, U) = IF U = {} THEN 0 ELSE ts[Pick(U)].pnl + Sum(ts, U \ {Pick(U)})
<1> DEFINE Equation(S) ==
             Sum(ts, S) = IF S = {} THEN 0 ELSE ts[Pick(S)].pnl + Sum(ts, S \ {Pick(S)})
           G == {S \in SUBSET U : Equation(S)}
<1>1. ASSUME NEW S \in SUBSET U, \A T \in SUBSET S : T # S => T \in G
      PROVE  S \in G
  <2> DEFINE g == [s \in SUBSET S |-> IF s = {} THEN 0
                                      ELSE ts[Pick(s)].pnl + Sum(ts, s \ {Pick(s)})]
  <2>1. ASSUME NEW T \in SUBSET S, T # S PROVE g[T] = Sum(ts, T)
    BY <1>1, <2>1
  <2>2. Tabulates(g, ts, S)
    <3>1. ASSUME NEW s \in SUBSET S, s # {}
          PROVE  g[s \ {Pick(s)}] = Sum(ts, s \ {Pick(s)})
      <4> HIDE DEF g
      <4> QED
        BY <2>1, <3>1, PickOne
    <3>2. ASSUME NEW s \in SUBSET S
          PROVE  g[s] = IF s = {} THEN 0 ELSE ts[Pick(s)].pnl + g[s \ {Pick(s)}]
      BY <3>1
    <3>3. DOMAIN g = SUBSET S /\ g = [s \in SUBSET S |-> g[s]]
      OBVIOUS
    <3> HIDE DEF g
    <3> QED
      BY <3>2, <3>3 DEF Tabulates
  <2>3. IsFiniteSet(S)
    BY FS_Subset
  <2>4. (CHOOSE h : Tabulates(h, ts, S)) = g
    <3> HIDE DEF g
    <3> QED
      BY <2>2, <2>3, TablesAgree
  <2>5. Sum(ts, S) = g[S]
    BY <2>4, SumInTable
  <2> QED
    BY <2>5
<1>2. SUBSET U \subseteq G
  <2> HIDE DEF G
  <2> QED
    BY <1>1, SubsetInduction
<1> QED
  BY <1>2

\* The sum over no trade.
LEMMA SumNone == ASSUME NEW ts PROVE Sum(ts, {}) = 0
BY SumEquation, FS_EmptySet

\* Sums of integers are integers, and any trade can be the one taken out.
LEMMA SumTakesOut ==
  ASSUME NEW U, IsFiniteSet(U), NEW ts, \A k \in U : ts[k].pnl \in Int
  PROVE  Sum(ts, U) \in Int /\ \A k \in U : Sum(ts, U) = ts[k].pnl + Sum(ts, U \ {k})
<1> DEFINE TakesOut(S) == \A k \in S : Sum(ts, S) = ts[k].pnl + Sum(ts, S \ {k})
           G == {S \in SUBSET U : Sum(ts, S) \in Int /\ TakesOut(S)}
<1>1. ASSUME NEW S \in SUBSET U, \A T \in SUBSET S : T # S => T \in G
      PROVE  S \in G
  <2>1. CASE S = {}
    BY <2>1, SumNone
  <2>2. CASE S # {}
    <3> DEFINE p == Pick(S)
    <3>1. p \in S /\ IsFiniteSet(S)
      BY <2>2, PickOne, FS_Subset
    <3>2. Sum(ts, S) = ts[p].pnl + Sum(ts, S \ {p})
      BY <2>2, <3>1, SumEquation
    <3> HIDE DEF p
    <3>3. S \ {p} \in G
      BY <1>1, <3>1
    <3>4. Sum(ts, S) \in Int
      BY <3>1, <3>2, <3>3
    <3>5. ASSUME NEW k \in S, k # p
          PROVE  Sum(ts, S) = ts[k].pnl + Sum(ts, S \ {k})
      <4>1. S \ {k} \in G
        BY <1>1, <3>5
      <4>2. S \ {p, k} \in G
        BY <1>1, <3>5
      <4>3. Sum(ts, S \ {p}) = ts[k].pnl + Sum(ts, S \ {p, k})
        <5>1. k \in S \ {p} /\ (S \ {p}) \ {k} = S \ {p, k}
          BY <3>5
        <5> QED
          BY <3>3, <5>1
      <4>4. Sum(ts, S \ {k}) = ts[p].pnl + Sum(ts, S \ {p, k})
        <5>1. p \in S \ {k} /\ (S \ {k}) \ {p} = S \ {p, k}
          BY <3>1, <3>5
        <5> QED
          BY <4>1, <5>1
      <4>5. /\ ts[p].pnl \in Int /\ ts[k].pnl \in Int /\ Sum(ts, S \ {p, k}) \in Int
        BY <3>1, <3>5, <4>2
      <4> HIDE DEF G
      <4> QED
        BY <3>2, <4>3, <4>4, <4>5
    <3> QED
      BY <3>2, <3>4, <3>5
  <2> QED
    BY <2>1, <2>2
<1>2. SUBSET U \subseteq G
  <2> HIDE DEF G
  <2> QED
    BY <1>1, SubsetInduction
<1> QED
  BY <1>2

\* Trades with the same results have the same sum.
LEMMA SumSame ==
  ASSUME NEW U, IsFiniteSet(U), NEW ts, NEW us, \A k \in U : ts[k].pnl = us[k].pnl
  PROVE  Sum(ts, U) = Sum(us, U)
<1> DEFINE G == {S \in SUBSET U : Sum(ts, S) = Sum(us, S)}
<1>1. ASSUME NEW S \in SUBSET U, \A T \in SUBSET S : T # S => T \in G
      PROVE  S \in G
  <2>1. CASE S = {}
    BY <2>1, SumNone
  <2>2. CASE S # {}
    <3>1. IsFiniteSet(S) /\ Pick(S) \in S /\ Sum(ts, S \ {Pick(S)}) = Sum(us, S \ {Pick(S)})
      BY <1>1, <2>2, PickOne, FS_Subset
    <3>2. /\ Sum(ts, S) = ts[Pick(S)].pnl + Sum(ts, S \ {Pick(S)})
          /\ Sum(us, S) = us[Pick(S)].pnl + Sum(us, S \ {Pick(S)})
      BY <2>2, <3>1, SumEquation
    <3> QED
      BY <3>1, <3>2
  <2> QED
    BY <2>1, <2>2
<1>2. SUBSET U \subseteq G
  <2> HIDE DEF G
  <2> QED
    BY <1>1, SubsetInduction
<1> QED
  BY <1>2

\* The sums of two sets of trades without a common one add up.
LEMMA SumUnion ==
  ASSUME NEW U, IsFiniteSet(U), NEW A, IsFiniteSet(A), A \cap U = {}, NEW ts,
         \A k \in A \cup U : ts[k].pnl \in Int
  PROVE  Sum(ts, A \cup U) = Sum(ts, A) + Sum(ts, U)
<1> DEFINE G == {S \in SUBSET U : Sum(ts, A \cup S) = Sum(ts, A) + Sum(ts, S)}
<1>1. ASSUME NEW S \in SUBSET U, \A T \in SUBSET S : T # S => T \in G
      PROVE  S \in G
  <2>1. Sum(ts, A) \in Int
    BY SumTakesOut
  <2>2. CASE S = {}
    <3>1. A \cup S = A
      BY <2>2
    <3> QED
      BY <2>1, <2>2, <3>1, SumNone
  <2>3. CASE S # {}
    <3>1. PICK k \in S : TRUE
      BY <2>3
    <3>2. Sum(ts, A \cup (S \ {k})) = Sum(ts, A) + Sum(ts, S \ {k})
      BY <1>1, <3>1
    <3>3. IsFiniteSet(S) /\ IsFiniteSet(A \cup S)
      BY FS_Subset, FS_Union
    <3>4. Sum(ts, S) = ts[k].pnl + Sum(ts, S \ {k})
      BY <3>1, <3>3, SumTakesOut
    <3>5. Sum(ts, A \cup S) = ts[k].pnl + Sum(ts, A \cup (S \ {k}))
      <4>1. k \in A \cup S /\ (A \cup S) \ {k} = A \cup (S \ {k})
        BY <3>1
      <4> DEFINE W == A \cup S
      <4>2. (\A l \in W : ts[l].pnl \in Int) /\ IsFiniteSet(W) /\ k \in W
        BY <3>3, <4>1
      <4> HIDE DEF W, G
      <4>3. Sum(ts, W) = ts[k].pnl + Sum(ts, W \ {k})
        BY <4>2, SumTakesOut
      <4> QED
        BY <4>1, <4>3 DEF W
    <3>6. Sum(ts, S \ {k}) \in Int /\ ts[k].pnl \in Int
      <4>1. IsFiniteSet(S \ {k}) /\ \A l \in S \ {k} : ts[l].pnl \in Int
        BY <3>3, FS_RemoveElement
      <4> QED
        BY <3>1, <4>1, SumTakesOut
    <3> QED
      BY <2>1, <3>2, <3>4, <3>5, <3>6
  <2> QED
    BY <2>2, <2>3
<1>2. SUBSET U \subseteq G
  <2> HIDE DEF G
  <2> QED
    BY <1>1, SubsetInduction
<1> QED
  BY <1>2

-----------------------------------------------------------------------------
(* The ledger: equity, the day's losses and the curve, from the trades     *)

\* The equity after the first n trades of ts.
EquityAfter(ts, n) == StartBalance + Sum(ts, 1 .. n)

\* The trades that left before a day, and those that left on the day of t up to t.
LeftBefore(ts, day) == {k \in DOMAIN ts : Day(ts[k].exit) < day}
LeftToday(ts, t) ==
  {k \in DOMAIN ts : Day(ts[k].exit) = Day(t) /\ ts[k].exit <= t /\ ts[k].decided < t}

\* A decision at t was taken within the limit of its day.
WithinLimit(ts, t) ==
  - Sum(ts, LeftToday(ts, t)) * 100
    < (StartBalance + Sum(ts, LeftBefore(ts, Day(t)))) * DailyLossPct

\* The peak and the largest fall of the equity over the first m trades.
Follows(c, ts, m) ==
  /\ \A n \in 0 .. m : EquityAfter(ts, n) <= c.peak
  /\ \E n \in 0 .. m : EquityAfter(ts, n) = c.peak
  /\ \A n \in 0 .. m : \A l \in 0 .. n - 1 : EquityAfter(ts, l) - EquityAfter(ts, n) <= c.fall
  /\ c.fall # 0 =>
       \E n \in 0 .. m : \E l \in 0 .. n - 1 :
         EquityAfter(ts, l) - EquityAfter(ts, n) = c.fall

\* All exits are behind the candle at hand, and the day's first equity is what the
\* exits of earlier days left.
InDay ==
  i > 0 =>
    /\ i >= MinHistory + 1
    /\ i = MinHistory + 1 => trades = <<>> /\ position = NoTrade
    /\ i > MinHistory + 1 =>
         /\ \A k \in DOMAIN trades : trades[k].exit <= Open(i - 1)
         /\ dayStart = StartBalance + Sum(trades, LeftBefore(trades, Day(Open(i - 1))))

\* Every decision was taken within the limit of its day.
Guarded ==
  /\ position # NoTrade => WithinLimit(trades, position.decided)
  /\ \A k \in DOMAIN trades : WithinLimit(trades, trades[k].decided)

\* The curve misses no trade but the last one, and none while a position is open.
CurveFollows ==
  \/ Follows(curve, trades, Len(trades))
  \/ position = NoTrade /\ Len(trades) > 0 /\ Follows(curve, trades, Len(trades) - 1)

Ledger ==
  /\ equity = EquityAfter(trades, Len(trades))
  /\ InDay /\ Guarded /\ CurveFollows

\* Trades that ran have times and a result.
LEMMA TradeTypes ==
  ASSUME NEW t \in Trade
  PROVE  t.decided \in Int /\ t.exit \in Int /\ t.entry \in Int /\ t.pnl \in Int
<1>1. HtfTotal * Ratio \in Int
  BY CandlesType
<1>2. Times \subseteq Int /\ Pnls \cup {0} \subseteq Int
  BY <1>1, ConfigType DEF Times
<1> QED
  BY <1>2 DEF Trade

\* Sums over closed trades are integers, also over those of one more trade.
LEMMA SumTypes ==
  ASSUME NEW ts \in Seq(Trade), NEW kept \in SUBSET DOMAIN ts
  PROVE  IsFiniteSet(kept) /\ (\A k \in kept : ts[k].pnl \in Int) /\ Sum(ts, kept) \in Int
<1>1. DOMAIN ts = 1 .. Len(ts) /\ Len(ts) \in Nat
  OBVIOUS
<1>2. IsFiniteSet(kept)
  <2>1. IsFiniteSet(DOMAIN ts)
    BY <1>1, FS_Interval
  <2> QED
    BY <2>1, FS_Subset
<1>3. \A k \in kept : ts[k].pnl \in Int
  <2> TAKE k \in kept
  <2>1. ts[k] \in Trade
    BY <1>1
  <2> QED
    BY <2>1, TradeTypes
<1> QED
  BY <1>2, <1>3, SumTakesOut

\* One more trade does not change the sums over the others.
LEMMA SumAppend ==
  ASSUME NEW ts \in Seq(Trade), NEW e, NEW kept \in SUBSET DOMAIN ts
  PROVE  Sum(Append(ts, e), kept) = Sum(ts, kept)
<1>1. \A k \in kept : Append(ts, e)[k].pnl = ts[k].pnl
  OBVIOUS
<1> QED
  BY <1>1, SumTypes, SumSame

\* The equity after each number of trades, when there is one more.
LEMMA EquityAppend ==
  ASSUME NEW ts \in Seq(Trade), NEW e \in Trade
  PROVE  /\ \A n \in 0 .. Len(ts) : EquityAfter(Append(ts, e), n) = EquityAfter(ts, n)
         /\ EquityAfter(Append(ts, e), Len(ts) + 1) = EquityAfter(ts, Len(ts)) + e.pnl
<1> DEFINE us == Append(ts, e)  m == Len(ts)
<1>1. /\ m \in Nat /\ DOMAIN ts = 1 .. m /\ DOMAIN us = 1 .. m + 1 /\ us \in Seq(Trade)
      /\ us[m + 1] = e
  OBVIOUS
<1>2. \A n \in 0 .. m : EquityAfter(us, n) = EquityAfter(ts, n)
  <2> TAKE n \in 0 .. m
  <2>1. 1 .. n \subseteq DOMAIN ts
    BY <1>1
  <2> QED
    BY <2>1, SumAppend DEF EquityAfter
<1>3. EquityAfter(us, m + 1) = EquityAfter(ts, m) + e.pnl
  <2>1. IsFiniteSet(1 .. m + 1) /\ (\A k \in 1 .. m + 1 : us[k].pnl \in Int)
    BY <1>1, SumTypes
  <2>2. Sum(us, 1 .. m + 1) = e.pnl + Sum(us, 1 .. m)
    <3>1. m + 1 \in 1 .. m + 1 /\ (1 .. m + 1) \ {m + 1} = 1 .. m
      BY <1>1
    <3> HIDE DEF us, m
    <3> QED
      BY <1>1, <2>1, <3>1, SumTakesOut
  <2>3. Sum(us, 1 .. m) = Sum(ts, 1 .. m) /\ Sum(ts, 1 .. m) \in Int
    BY <1>1, SumAppend, SumTypes
  <2>4. e.pnl \in Int
    BY TradeTypes
  <2> HIDE DEF us, m
  <2> QED
    BY <2>2, <2>3, <2>4, ConfigType DEF EquityAfter
<1> QED
  BY <1>2, <1>3

\* The equity is a number.
LEMMA EquityInt ==
  ASSUME NEW ts \in Seq(Trade), NEW n \in 0 .. Len(ts)
  PROVE  EquityAfter(ts, n) \in Int
<1>1. 1 .. n \subseteq DOMAIN ts
  OBVIOUS
<1> QED
  BY <1>1, SumTypes, ConfigType DEF EquityAfter

\* Days follow each other as times do.
LEMMA DaysInOrder ==
  ASSUME NEW s \in Int, NEW t \in Int, s <= t
  PROVE  Day(s) \in Int /\ Day(t) \in Int /\ Day(s) <= Day(t)
<1> DEFINE d == DayLength  p == s \div d  q == t \div d
<1>1. d \in Int /\ d > 0
  BY ConfigType
<1>2. /\ p \in Int /\ d * p <= s /\ s < d * (p + 1)
      /\ q \in Int /\ d * q <= t /\ t < d * (q + 1)
  BY <1>1
<1> HIDE DEF p, q
<1>3. ASSUME p > q PROVE FALSE
  <2>1. q + 1 <= p
    BY <1>2, <1>3
  <2>2. (q + 1) * d <= p * d
    BY <1>1, <1>2, <2>1, Grows
  <2>3. d * (q + 1) <= d * p
    BY <1>1, <1>2, <2>2
  <2>4. d * (q + 1) \in Int /\ d * p \in Int
    BY <1>1, <1>2
  <2> QED
    BY <1>2, <2>3, <2>4
<1>4. Day(s) = p /\ Day(t) = q
  BY DEF Day, p, q
<1> QED
  BY <1>2, <1>3, <1>4

\* What a later exit leaves of the sums of a decision.
LEMMA LaterExit ==
  ASSUME NEW ts \in Seq(Trade), NEW e \in Trade, NEW t \in Int, e.exit > t
  PROVE  WithinLimit(ts, t) <=> WithinLimit(Append(ts, e), t)
<1> DEFINE us == Append(ts, e)
<1>1. /\ Len(ts) \in Nat /\ DOMAIN ts = 1 .. Len(ts) /\ DOMAIN us = 1 .. Len(ts) + 1
      /\ us[Len(ts) + 1] = e /\ \A k \in DOMAIN ts : us[k] = ts[k]
  OBVIOUS
<1>2. e.exit \in Int /\ Day(t) <= Day(e.exit) /\ Day(t) \in Int /\ Day(e.exit) \in Int
  BY TradeTypes, DaysInOrder
<1>3. LeftBefore(us, Day(t)) = LeftBefore(ts, Day(t))
  BY <1>1, <1>2 DEF LeftBefore
<1>4. LeftToday(us, t) = LeftToday(ts, t)
  BY <1>1, <1>2 DEF LeftToday
<1>5. /\ LeftBefore(ts, Day(t)) \subseteq DOMAIN ts
      /\ LeftToday(ts, t) \subseteq DOMAIN ts
  BY DEF LeftBefore, LeftToday
<1>6. /\ Sum(us, LeftBefore(ts, Day(t))) = Sum(ts, LeftBefore(ts, Day(t)))
      /\ Sum(us, LeftToday(ts, t)) = Sum(ts, LeftToday(ts, t))
  BY <1>5, SumAppend
<1> QED
  BY <1>3, <1>4, <1>6 DEF WithinLimit

\* The state of the ledger when an open trade is closed at a time behind all others.
LEMMA CloseKeeps ==
  ASSUME IInv, Ledger, position # NoTrade, NEW t \in Times, position.entry <= t,
         NEW pnl \in Pnls, \A k \in DOMAIN trades : trades[k].exit <= t
  PROVE  LET us == Append(trades, Ended(t, pnl))
         IN  /\ us \in Seq(Trade) /\ Len(us) = Len(trades) + 1
             /\ us[Len(us)].exit = t /\ us[Len(us)].decided < t
             /\ \A k \in DOMAIN trades : us[k] = trades[k]
             /\ equity + pnl = EquityAfter(us, Len(us))
             /\ \A k \in DOMAIN us : WithinLimit(us, us[k].decided)
             /\ Follows(curve, us, Len(us) - 1)
<1> DEFINE e == Ended(t, pnl)  us == Append(trades, e)  m == Len(trades)
<1>1. trades \in Seq(Trade) /\ position \in Trade /\ equity \in Int
  BY DEF IInv, Types
<1>2. /\ e \in Trade /\ e.exit = t /\ e.pnl = pnl /\ e.entry = position.entry
      /\ e.decided = position.decided
  BY <1>1 DEF Ended, Trade
<1>3. e.decided < t /\ t \in Int /\ e.decided \in Int
  BY <1>2, TradeTypes DEF IInv, InOrder, Decided
<1> HIDE DEF e
<1>4. /\ m \in Nat /\ DOMAIN trades = 1 .. m /\ DOMAIN us = 1 .. m + 1
      /\ us \in Seq(Trade) /\ Len(us) = m + 1
      /\ us[m + 1] = e /\ \A k \in DOMAIN trades : us[k] = trades[k]
  BY <1>1, <1>2
<1>5. /\ \A n \in 0 .. m : EquityAfter(us, n) = EquityAfter(trades, n)
      /\ EquityAfter(us, m + 1) = EquityAfter(trades, m) + pnl
  BY <1>1, <1>2, EquityAppend
<1>6. equity + pnl = EquityAfter(us, m + 1)
  BY <1>5 DEF Ledger
<1>7. ASSUME NEW k \in DOMAIN us PROVE WithinLimit(us, us[k].decided)
  <2>1. CASE k = m + 1
    <3>1. WithinLimit(trades, e.decided)
      BY <1>2 DEF Ledger, Guarded
    <3>2. WithinLimit(us, e.decided)
      BY <1>1, <1>2, <1>3, <3>1, LaterExit
    <3> QED
      BY <1>4, <2>1, <3>2
  <2>2. CASE k \in 1 .. m
    <3>1. trades[k] \in Trade
      BY <1>1, <2>2
    <3>2. trades[k].decided \in Int /\ trades[k].decided < t
      <4>1. /\ trades[k].decided < trades[k].entry /\ trades[k].entry <= trades[k].exit
            /\ trades[k].exit <= t
        BY <1>4, <2>2 DEF IInv, InOrder, Decided
      <4> QED
        BY <1>3, <3>1, <4>1, TradeTypes
    <3>3. WithinLimit(trades, trades[k].decided)
      BY <1>4, <2>2 DEF Ledger, Guarded
    <3>4. WithinLimit(us, trades[k].decided)
      BY <1>1, <1>2, <3>2, <3>3, LaterExit
    <3> QED
      BY <1>4, <2>2, <3>4
  <2> QED
    BY <1>4, <2>1, <2>2
<1>8. Follows(curve, us, m)
  <2>1. Follows(curve, trades, m)
    BY DEF Ledger, CurveFollows
  <2>2. \A n \in 0 .. m : n \in 0 .. m /\ \A l \in 0 .. n - 1 : l \in 0 .. m
    BY <1>4
  <2> HIDE DEF us, m
  <2> QED
    BY <1>5, <2>1, <2>2 DEF Follows
<1> HIDE DEF us
<1>9. Len(us) - 1 = m /\ Len(us) = m + 1
  BY <1>4
<1> QED
  BY <1>2, <1>3, <1>4, <1>6, <1>7, <1>8, <1>9 DEF us, e

\* A run begins with an empty ledger.
LEMMA EmptyLedger == EquityAfter(<<>>, 0) = StartBalance /\ Follows(FlatCurve, <<>>, 0)
<1>1. EquityAfter(<<>>, 0) = StartBalance
  <2>1. 1 .. 0 = {}
    OBVIOUS
  <2> QED
    BY <2>1, SumNone, ConfigType DEF EquityAfter
<1>2. FlatCurve.peak = StartBalance /\ FlatCurve.fall = 0 /\ StartBalance \in Int
  BY ConfigType DEF FlatCurve
<1>3. \A n \in 0 .. 0 : n = 0 /\ \A l \in 0 .. n - 1 : FALSE
  OBVIOUS
<1> QED
  BY <1>1, <1>2, <1>3 DEF Follows

\* The trades before the candle at hand left before it opens.
LEMMA ExitsBehind ==
  ASSUME IInv, Ledger, i > 0, NEW k \in DOMAIN trades
  PROVE  /\ i > MinHistory + 1 /\ trades[k].exit <= Open(i - 1)
         /\ Open(i - 1) \in Int /\ Open(i) \in Int /\ Open(i - 1) < Open(i)
<1>1. i > MinHistory + 1 /\ i \in Nat /\ trades[k].exit <= Open(i - 1)
  BY ConfigType DEF Ledger, InDay, IInv, Types
<1>2. Step \in Nat /\ Step > 0
  BY CandlesType DEF IInv, Types, Step
<1>3. Open(i) = Open(i - 1) + Step /\ Open(i - 1) \in Int
  BY <1>1, <1>2 DEF Open
<1> QED
  BY <1>1, <1>2, <1>3

\* The first equity of the day of the candle at hand, whether the day began with it or not,
\* is what earlier days left.
LEMMA DayBegins ==
  ASSUME IInv, Ledger, i > 0, i < Total, NEW start,
         start = IF i = MinHistory + 1 \/ Day(Open(i)) # Day(Open(i - 1))
                 THEN equity ELSE dayStart
  PROVE  start = StartBalance + Sum(trades, LeftBefore(trades, Day(Open(i))))
<1>1. /\ trades \in Seq(Trade) /\ Len(trades) \in Nat /\ DOMAIN trades = 1 .. Len(trades)
      /\ equity = StartBalance + Sum(trades, DOMAIN trades)
  BY DEF IInv, Types, Ledger, EquityAfter
<1>2. CASE i = MinHistory + 1
  <2>1. DOMAIN trades = {} /\ LeftBefore(trades, Day(Open(i))) = {}
    BY <1>2 DEF Ledger, InDay, LeftBefore
  <2> QED
    BY <1>1, <1>2, <2>1
<1>3. CASE i # MinHistory + 1 /\ Day(Open(i)) # Day(Open(i - 1))
  <2>1. \A k \in DOMAIN trades : Day(trades[k].exit) < Day(Open(i))
    <3> TAKE k \in DOMAIN trades
    <3>1. /\ trades[k].exit <= Open(i - 1) /\ Open(i - 1) <= Open(i)
          /\ Open(i - 1) \in Int /\ Open(i) \in Int
      BY ExitsBehind
    <3>2. trades[k].exit \in Int
      BY <1>1, TradeTypes
    <3>3. /\ Day(trades[k].exit) <= Day(Open(i - 1)) /\ Day(Open(i - 1)) <= Day(Open(i))
          /\ Day(trades[k].exit) \in Int /\ Day(Open(i)) \in Int /\ Day(Open(i - 1)) \in Int
      BY <3>1, <3>2, DaysInOrder
    <3> QED
      BY <1>3, <3>3
  <2>2. LeftBefore(trades, Day(Open(i))) = DOMAIN trades
    BY <2>1 DEF LeftBefore
  <2> QED
    BY <1>1, <1>3, <2>2
<1>4. CASE i # MinHistory + 1 /\ Day(Open(i)) = Day(Open(i - 1))
  <2>1. i > MinHistory + 1
    BY <1>4, ConfigType DEF Ledger, InDay, IInv, Types
  <2>2. start = dayStart
    BY <1>4
  <2> QED
    BY <1>4, <2>1, <2>2 DEF Ledger, InDay
<1> QED
  BY <1>2, <1>3, <1>4

\* What a candle leaves of the ledger before the guards look at it.
LeftLedger(now, start) ==
  /\ now.trades \in Seq(Trade) /\ now.position \in {NoTrade, position}
  /\ now.equity = EquityAfter(now.trades, Len(now.trades))
  /\ start = StartBalance + Sum(now.trades, LeftBefore(now.trades, Day(Open(i))))
  /\ \A k \in DOMAIN now.trades :
       /\ now.trades[k].exit <= Open(i) /\ now.trades[k].decided < Open(i)
       /\ WithinLimit(now.trades, now.trades[k].decided)
  /\ now.position # NoTrade => WithinLimit(now.trades, now.position.decided)
  /\ \/ Follows(curve, now.trades, Len(now.trades))
     \/ /\ now.position = NoTrade /\ Len(now.trades) > 0
        /\ Follows(curve, now.trades, Len(now.trades) - 1)

\* A candle leaves the ledger so.
LEMMA LedgerLeft ==
  ASSUME IInv, Ledger, i > 0, i < Total, NEW now \in Managed, NEW start,
         start = IF i = MinHistory + 1 \/ Day(Open(i)) # Day(Open(i - 1))
                 THEN equity ELSE dayStart
  PROVE  LeftLedger(now, start)
<1>1. trades \in Seq(Trade) /\ Open(i) \in Times /\ Open(i) \in Int
  BY CandleTimes DEF IInv, Types
<1>2. start = StartBalance + Sum(trades, LeftBefore(trades, Day(Open(i))))
  BY DayBegins
<1>3. \A k \in DOMAIN trades : trades[k].exit <= Open(i) /\ trades[k].decided < Open(i)
  <2> TAKE k \in DOMAIN trades
  <2>1. trades[k].decided < trades[k].entry /\ trades[k].entry <= trades[k].exit
    BY DEF IInv, InOrder, Decided
  <2>2. /\ trades[k].exit <= Open(i - 1) /\ Open(i - 1) < Open(i)
        /\ Open(i - 1) \in Int /\ Open(i) \in Int
    BY ExitsBehind
  <2>3. trades[k].decided \in Int /\ trades[k].entry \in Int /\ trades[k].exit \in Int
    BY <1>1, TradeTypes
  <2> QED
    BY <2>1, <2>2, <2>3
<1>4. CASE now.position = position /\ now.equity = equity /\ now.trades = trades
  <2>1. /\ now.position # NoTrade => WithinLimit(now.trades, now.position.decided)
        /\ \A k \in DOMAIN now.trades : WithinLimit(now.trades, now.trades[k].decided)
    BY <1>4 DEF Ledger, Guarded
  <2>2. \/ Follows(curve, now.trades, Len(now.trades))
        \/ /\ now.position = NoTrade /\ Len(now.trades) > 0
           /\ Follows(curve, now.trades, Len(now.trades) - 1)
    BY <1>4 DEF Ledger, CurveFollows
  <2>3. now.equity = EquityAfter(now.trades, Len(now.trades))
    BY <1>4 DEF Ledger
  <2> QED
    BY <1>1, <1>2, <1>3, <1>4, <2>1, <2>2, <2>3 DEF LeftLedger
<1>5. ASSUME position # NoTrade, NEW pnl \in Pnls,
             now.position = NoTrade, now.equity = equity + pnl,
             now.trades = Append(trades, Ended(Open(i), pnl))
      PROVE  LeftLedger(now, start)
  <2> DEFINE us == Append(trades, Ended(Open(i), pnl))
  <2>1. position.entry <= Open(i)
    BY <1>5 DEF IInv, Entered
  <2>2. /\ us \in Seq(Trade) /\ Len(us) = Len(trades) + 1
        /\ us[Len(us)].exit = Open(i) /\ us[Len(us)].decided < Open(i)
        /\ \A k \in DOMAIN trades : us[k] = trades[k]
        /\ equity + pnl = EquityAfter(us, Len(us))
        /\ \A k \in DOMAIN us : WithinLimit(us, us[k].decided)
        /\ Follows(curve, us, Len(us) - 1)
    BY <1>1, <1>3, <1>5, <2>1, CloseKeeps
  <2>3. Sum(us, LeftBefore(us, Day(Open(i)))) = Sum(trades, LeftBefore(trades, Day(Open(i))))
    <3>1. Day(Open(i)) \in Int
      BY <1>1, DaysInOrder
    <3>2. /\ DOMAIN us = DOMAIN trades \cup {Len(us)} /\ Len(us) \notin DOMAIN trades
          /\ Len(us) \in DOMAIN us
      BY <1>1, <2>2
    <3>3. LeftBefore(us, Day(Open(i))) = LeftBefore(trades, Day(Open(i)))
      <4> HIDE DEF us
      <4> QED
        BY <2>2, <3>1, <3>2 DEF LeftBefore
    <3>4. LeftBefore(trades, Day(Open(i))) \subseteq DOMAIN trades
      BY DEF LeftBefore
    <3> QED
      BY <1>1, <3>3, <3>4, SumAppend
  <2>4. \A k \in DOMAIN us : us[k].exit <= Open(i) /\ us[k].decided < Open(i)
    <3>1. DOMAIN us = DOMAIN trades \cup {Len(us)}
      BY <1>1, <2>2
    <3> HIDE DEF us
    <3> QED
      BY <1>1, <1>3, <2>2, <3>1
  <2>5. Len(us) > 0
    BY <1>1, <2>2
  <2>6. now.trades = us
    BY <1>5
  <2> HIDE DEF us
  <2> QED
    BY <1>2, <1>5, <2>2, <2>3, <2>4, <2>5, <2>6 DEF LeftLedger
<1> QED
  BY <1>4, <1>5, ManagedIs

\* Who may enter on a candle does so within the limit of its day.
LEMMA EntersWithin ==
  ASSUME IInv, i > 0, i < Total, NEW now, NEW start, LeftLedger(now, start),
         MayEvaluate(now, start)
  PROVE  WithinLimit(now.trades, Open(i))
<1> DEFINE ts == now.trades
           before == LeftBefore(ts, Day(Open(i)))
           today == LeftToday(ts, Open(i))
<1>1. ts \in Seq(Trade) /\ DOMAIN ts = 1 .. Len(ts) /\ Open(i) \in Int
  <2>1. Open(i) \in Int
    BY CandleTimes DEF IInv
  <2>2. ts \in Seq(Trade)
    BY DEF LeftLedger
  <2> HIDE DEF ts
  <2> QED
    BY <2>1, <2>2
<1>2. before \cap today = {} /\ before \in SUBSET DOMAIN ts /\ today \in SUBSET DOMAIN ts
  <2>1. Day(Open(i)) \in Int
    BY <1>1, DaysInOrder
  <2> QED
    BY <2>1 DEF LeftBefore, LeftToday
<1>3. before \cup today = DOMAIN ts
  <2> SUFFICES ASSUME NEW k \in DOMAIN ts PROVE k \in before \cup today
    BY <1>2
  <2>1. ts[k].exit <= Open(i) /\ ts[k].decided < Open(i)
    BY DEF LeftLedger
  <2>2. ts[k].exit \in Int
    <3>1. ts[k] \in Trade
      BY <1>1
    <3> QED
      BY <3>1, TradeTypes
  <2>3. /\ Day(ts[k].exit) <= Day(Open(i))
        /\ Day(ts[k].exit) \in Int /\ Day(Open(i)) \in Int
    BY <1>1, <2>1, <2>2, DaysInOrder
  <2> QED
    BY <2>1, <2>3 DEF LeftBefore, LeftToday
<1>4. /\ IsFiniteSet(before) /\ IsFiniteSet(today)
      /\ Sum(ts, before) \in Int /\ Sum(ts, today) \in Int
      /\ \A k \in DOMAIN ts : ts[k].pnl \in Int
  BY <1>1, <1>2, SumTypes
<1>5. Sum(ts, DOMAIN ts) = Sum(ts, before) + Sum(ts, today)
  <2> HIDE DEF ts, before, today
  <2>1. \A k \in before \cup today : ts[k].pnl \in Int
    BY <1>3, <1>4
  <2>2. Sum(ts, before \cup today) = Sum(ts, before) + Sum(ts, today)
    BY <1>2, <1>4, <2>1, SumUnion
  <2> QED
    BY <1>3, <2>2
<1>6. /\ now.equity = StartBalance + Sum(ts, DOMAIN ts)
      /\ start = StartBalance + Sum(ts, before)
  BY <1>1 DEF LeftLedger, EquityAfter
<1>7. (start - now.equity) * 100 < start * DailyLossPct
  BY DEF MayEvaluate, DayWithinLimit
<1>8. start - now.equity = - Sum(ts, today)
  <2> HIDE DEF ts, before, today
  <2> QED
    BY <1>4, <1>5, <1>6, ConfigType
<1>9. - Sum(ts, today) * 100 < start * DailyLossPct
  BY <1>4, <1>7, <1>8
<1> QED
  BY <1>6, <1>9 DEF WithinLimit

\* A curve that follows the first m trades still does with another entry for the same
\* equity, and follows one more with an entry for the next.
LEMMA CurveExtends ==
  ASSUME IInv, NEW ts \in Seq(Trade), NEW m \in 0 .. Len(ts), Follows(curve, ts, m)
  PROVE  /\ Follows(Extended(EquityAfter(ts, m)), ts, m)
         /\ m < Len(ts) => Follows(Extended(EquityAfter(ts, m + 1)), ts, m + 1)
<1>1. curve.peak \in Int /\ curve.fall \in Nat /\ curve = [peak |-> curve.peak, fall |-> curve.fall]
  BY DEF IInv, Types
<1>2. m \in Nat /\ Len(ts) \in Nat /\ m <= Len(ts)
  OBVIOUS
<1>3. \A n \in 0 .. Len(ts) : EquityAfter(ts, n) \in Int
  BY EquityInt
<1>4. PICK top \in 0 .. m : EquityAfter(ts, top) = curve.peak
  BY DEF Follows
<1>5. Extended(EquityAfter(ts, m)) = curve
  <2>1. EquityAfter(ts, m) <= curve.peak /\ EquityAfter(ts, m) \in Int
    BY <1>2, <1>3 DEF Follows
  <2>2. curve.peak - EquityAfter(ts, m) <= curve.fall
    <3>1. CASE top = m
      BY <1>1, <1>4, <2>1, <3>1
    <3>2. CASE top # m
      <4>1. m \in 0 .. m /\ top \in 0 .. m - 1
        BY <1>2, <3>2
      <4> QED
        BY <1>4, <4>1 DEF Follows
    <3> QED
      BY <3>1, <3>2
  <2>3. ~ (EquityAfter(ts, m) > curve.peak) /\ ~ (curve.peak - EquityAfter(ts, m) > curve.fall)
    BY <1>1, <2>1, <2>2
  <2> QED
    BY <1>1, <2>3 DEF Extended
<1>6. ASSUME m < Len(ts) PROVE Follows(Extended(EquityAfter(ts, m + 1)), ts, m + 1)
  <2> DEFINE eq == EquityAfter(ts, m + 1)  c == Extended(eq)
  <2>1. eq \in Int
    BY <1>2, <1>3, <1>6
  <2>2. /\ c.peak = IF eq > curve.peak THEN eq ELSE curve.peak
        /\ c.fall = IF c.peak - eq > curve.fall THEN c.peak - eq ELSE curve.fall
    BY DEF Extended
  <2>3. 0 .. m + 1 = (0 .. m) \cup {m + 1}
    BY <1>2
  <2> DEFINE E(n) == EquityAfter(ts, n)
  <2>4. \A n \in 0 .. m : E(n) \in Int /\ E(n) <= curve.peak
    BY <1>2, <1>3 DEF Follows
  <2>5. E(m + 1) = eq
    OBVIOUS
  <2>6. \A n \in 0 .. m : \A l \in 0 .. n - 1 : E(l) - E(n) <= curve.fall
    BY DEF Follows
  <2>7. curve.fall # 0 =>
          \E n \in 0 .. m : \E l \in 0 .. n - 1 : E(l) - E(n) = curve.fall
    BY DEF Follows
  <2>8. E(top) = curve.peak
    BY <1>4
  <2> HIDE DEF c, eq, E
  <2>9. c.peak \in Int /\ c.fall \in Int /\ c.peak - eq <= c.fall /\ curve.fall <= c.fall
        /\ curve.peak <= c.peak /\ eq <= c.peak
    BY <1>1, <2>1, <2>2
  <2>10. \A n \in 0 .. m + 1 : E(n) <= c.peak
    BY <1>1, <2>1, <2>3, <2>4, <2>5, <2>9
  <2>11. \E n \in 0 .. m + 1 : E(n) = c.peak
    BY <1>4, <2>2, <2>3, <2>5, <2>8
  <2>12. \A n \in 0 .. m + 1 : \A l \in 0 .. n - 1 : E(l) - E(n) <= c.fall
    <3> TAKE n \in 0 .. m + 1
    <3> TAKE l \in 0 .. n - 1
    <3>1. CASE n \in 0 .. m
      <4>1. l \in 0 .. m /\ E(l) - E(n) <= curve.fall
        BY <1>2, <2>6, <3>1
      <4> QED
        BY <1>1, <2>4, <2>9, <3>1, <4>1
    <3>2. CASE n = m + 1
      <4>1. l \in 0 .. m
        BY <1>2, <3>2
      <4> QED
        BY <1>1, <2>1, <2>4, <2>5, <2>9, <3>2, <4>1
    <3> QED
      BY <2>3, <3>1, <3>2
  <2>13. ASSUME c.fall # 0
         PROVE  \E n \in 0 .. m + 1 : \E l \in 0 .. n - 1 : E(l) - E(n) = c.fall
    <3>1. CASE c.fall = curve.fall
      BY <2>3, <2>7, <2>13, <3>1
    <3>2. CASE c.fall # curve.fall
      <4>1. c.fall = c.peak - eq
        BY <2>2, <3>2
      <4>2. c.peak # eq
        BY <2>1, <2>13, <4>1
      <4>3. c.peak = curve.peak
        BY <2>2, <4>2
      <4>4. E(top) - E(m + 1) = c.fall
        BY <2>5, <2>8, <4>1, <4>3
      <4>5. m + 1 \in 0 .. m + 1 /\ top \in 0 .. (m + 1) - 1
        BY <1>2, <1>4
      <4> QED
        BY <4>4, <4>5
    <3> QED
      BY <3>1, <3>2
  <2> QED
    BY <2>10, <2>11, <2>12, <2>13 DEF Follows, E, c, eq
<1> QED
  BY <1>5, <1>6

\* The backtester begins with an empty ledger.
LEMMA LedgerInit == Init => Ledger
<1> SUFFICES ASSUME Init PROVE Ledger
  OBVIOUS
<1>1. Len(<<>>) = 0 /\ DOMAIN <<>> = {}
  OBVIOUS
<1> QED
  BY <1>1, EmptyLedger DEF Init, Ledger, InDay, Guarded, CurveFollows

\* So does each run.
LEMMA LedgerStart == ASSUME StartRun PROVE Ledger'
<1>1. trades' = <<>> /\ position' = NoTrade /\ equity' = StartBalance /\ curve' = FlatCurve
      /\ i' = MinHistory + 1
  BY DEF StartRun
<1>2. Len(<<>>) = 0 /\ DOMAIN <<>> = {}
  OBVIOUS
<1>3. MinHistory \in Nat
  BY ConfigType
<1>4. InDay'
  BY <1>1, <1>3 DEF InDay
<1>5. equity' = EquityAfter(trades', Len(trades')) /\ Guarded' /\ CurveFollows'
  BY <1>1, <1>2, EmptyLedger DEF Guarded, CurveFollows
<1> QED
  BY <1>4, <1>5 DEF Ledger

\* The end of a run books the open trade.
LEMMA LedgerEnd == ASSUME IInv, Ledger, EndRun PROVE Ledger'
<1>1. i' = 0 /\ curve' = curve
  BY DEF EndRun
<1>2. CASE position = NoTrade
  <2>1. UNCHANGED <<position, equity, trades>>
    BY <1>2 DEF EndRun
  <2> QED
    BY <1>1, <2>1 DEF Ledger, InDay, Guarded, CurveFollows
<1>3. CASE position # NoTrade
  <2>1. PICK pnl \in Pnls : /\ position' = NoTrade /\ equity' = equity + pnl
                           /\ trades' = Append(trades, Ended(Open(Total), pnl))
    BY <1>3 DEF EndRun, Close, Ended
  <2>2. i = Total /\ i \in Nat /\ i > 0
    BY <1>3, TotalInt DEF EndRun, IInv, Types, Entered
  <2>3. position.entry <= Open(i)
    BY <1>3 DEF IInv, Entered
  <2>4. Open(i) \in Times /\ trades \in Seq(Trade)
    BY <2>2, OpenTimes DEF IInv, Types
  <2>5. \A k \in DOMAIN trades : trades[k].exit <= Open(i)
    <3> TAKE k \in DOMAIN trades
    <3>1. /\ trades[k].exit <= Open(i - 1) /\ Open(i - 1) < Open(i)
          /\ Open(i - 1) \in Int /\ Open(i) \in Int
      BY <2>2, ExitsBehind
    <3>2. trades[k].exit \in Int
      BY <2>4, TradeTypes
    <3> QED
      BY <3>1, <3>2
  <2>6. /\ trades' \in Seq(Trade) /\ Len(trades') = Len(trades) + 1
        /\ equity' = EquityAfter(trades', Len(trades'))
        /\ \A k \in DOMAIN trades' : WithinLimit(trades', trades'[k].decided)
        /\ Follows(curve, trades', Len(trades') - 1)
    BY <1>3, <2>1, <2>2, <2>3, <2>4, <2>5, CloseKeeps
  <2>7. Len(trades') > 0
    BY <2>4, <2>6
  <2> QED
    BY <1>1, <2>1, <2>6, <2>7 DEF Ledger, InDay, Guarded, CurveFollows
<1> QED
  BY <1>2, <1>3

\* A candle keeps the ledger.
LEMMA LedgerCandle == ASSUME IInv, Ledger, Candle PROVE Ledger'
<1> DEFINE start == IF i = MinHistory + 1 \/ Day(Open(i)) # Day(Open(i - 1))
                    THEN equity ELSE dayStart
<1>1. PICK now \in Managed, accepted \in BOOLEAN :
        /\ dayStart' = start /\ equity' = now.equity /\ trades' = now.trades /\ i' = i + 1
        /\ IF MayEvaluate(now, start) THEN Engine(accepted)
             ELSE ~ accepted /\ UNCHANGED <<ready, rests>>
        /\ IF accepted /\ i + 1 < Total
           THEN /\ position' = [NoTrade EXCEPT !.decided = Open(i), !.seen = Seen,
                                               !.trend = TrendGiven, !.entry = Open(i + 1)]
                /\ last' = Open(i)
           ELSE position' = now.position /\ UNCHANGED last
        /\ curve' = IF Recorded(now, start, accepted /\ i + 1 < Total)
                    THEN Extended(now.equity) ELSE curve
  BY DEF Candle
<1>2. /\ i \in Nat /\ i > 0 /\ i < Total /\ i' - 1 = i
      /\ UNCHANGED <<ltf, direct, split, htfLen>>
  BY <1>1 DEF Candle, IInv, Types
<1>3. start = IF i = MinHistory + 1 \/ Day(Open(i)) # Day(Open(i - 1))
              THEN equity ELSE dayStart
  OBVIOUS
<1> HIDE DEF start
<1>4. LeftLedger(now, start)
  BY <1>2, <1>3, LedgerLeft
<1>5. accepted => MayEvaluate(now, start)
  BY <1>1
<1>6. Open(i - 1)' = Open(i) /\ Open(i) \in Times
  BY <1>2, CandleTimes DEF Open, Step, IInv
<1>7. equity' = EquityAfter(trades', Len(trades'))
  BY <1>1, <1>4 DEF LeftLedger
<1>8. InDay'
  <2>1. i' > MinHistory + 1 /\ i' >= MinHistory + 1 /\ i' # MinHistory + 1
    BY <1>1, <1>2, ConfigType DEF Ledger, InDay
  <2>2. \A k \in DOMAIN trades' : trades'[k].exit <= Open(i)
    BY <1>1, <1>4 DEF LeftLedger
  <2>3. dayStart' = StartBalance + Sum(trades', LeftBefore(trades', Day(Open(i))))
    BY <1>1, <1>4 DEF LeftLedger
  <2> QED
    BY <1>6, <2>1, <2>2, <2>3 DEF InDay
<1>9. \A k \in DOMAIN trades' : WithinLimit(trades', trades'[k].decided)
  BY <1>1, <1>4 DEF LeftLedger
<1>10. position' # NoTrade => WithinLimit(trades', position'.decided)
  <2>1. CASE accepted /\ i + 1 < Total
    <3>1. position'.decided = Open(i)
      BY <1>1, <2>1 DEF NoTrade
    <3>2. WithinLimit(now.trades, Open(i))
      BY <1>2, <1>4, <1>5, <2>1, EntersWithin
    <3> QED
      BY <1>1, <3>1, <3>2
  <2>2. CASE ~ (accepted /\ i + 1 < Total)
    BY <1>1, <1>4, <2>2 DEF LeftLedger
  <2> QED
    BY <2>1, <2>2
<1>11. CurveFollows'
  <2> DEFINE ts == now.trades  m == Len(ts)
  <2>1. ts \in Seq(Trade) /\ now.equity = EquityAfter(ts, m) /\ trades' = ts
    BY <1>1, <1>4 DEF LeftLedger
  <2>2. m \in Nat
    BY <2>1
  <2>3. \/ Follows(curve, ts, m)
        \/ now.position = NoTrade /\ m > 0 /\ Follows(curve, ts, m - 1)
    BY <1>4 DEF LeftLedger
  <2> HIDE DEF ts, m
  <2>4. Follows(curve, ts, m) => Follows(Extended(now.equity), ts, m)
    <3>1. m \in 0 .. Len(ts)
      BY <2>2 DEF m
    <3> QED
      BY <2>1, <3>1, CurveExtends
  <2>5. m > 0 /\ Follows(curve, ts, m - 1) => Follows(Extended(now.equity), ts, m)
    <3> SUFFICES ASSUME m > 0, Follows(curve, ts, m - 1)
                 PROVE  Follows(Extended(now.equity), ts, m)
      OBVIOUS
    <3>1. m - 1 \in 0 .. Len(ts) /\ m - 1 < Len(ts) /\ (m - 1) + 1 = m
      BY <2>2 DEF m
    <3> QED
      BY <2>1, <3>1, CurveExtends
  <2>6. CASE Recorded(now, start, accepted /\ i + 1 < Total)
    <3>1. Follows(curve', ts, m)
      BY <1>1, <2>3, <2>4, <2>5, <2>6
    <3> QED
      BY <2>1, <3>1 DEF CurveFollows, m
  <2>7. CASE ~ Recorded(now, start, accepted /\ i + 1 < Total)
    <3>1. curve' = curve
      BY <1>1, <2>7
    <3>2. position' = now.position
      BY <1>1, <2>7 DEF Recorded
    <3> QED
      BY <2>1, <2>3, <3>1, <3>2 DEF CurveFollows, m
  <2> QED
    BY <2>6, <2>7
<1> QED
  BY <1>7, <1>8, <1>9, <1>10, <1>11 DEF Ledger, Guarded

\* The ledger is kept.
LEMMA LedgerKept == Spec => []Ledger
<1>1. ASSUME IInv, Ledger, [Next]_vars PROVE Ledger'
  <2>1. CASE UNCHANGED vars
    BY <1>1, <2>1 DEF vars, loop, Ledger, InDay, Guarded, CurveFollows, Open, Step
  <2> QED
    BY <1>1, <2>1, LedgerStart, LedgerCandle, LedgerEnd DEF Next
<1> QED
  BY <1>1, LedgerInit, Invariant, PTL DEF Spec

-----------------------------------------------------------------------------
(* Theorems                                                                *)

\* Every reachable state is well-typed, with all times within the data.
THEOREM TypeCorrect == Spec => []TypeOK
<1>1. IInv => TypeOK
  <2> SUFFICES ASSUME IInv PROVE TypeOK
    OBVIOUS
  <2>1. ASSUME NEW t \in {position} \cup {trades[k] : k \in DOMAIN trades}
        PROVE  t \in Trade
    BY <2>1 DEF IInv, Types
  <2> QED
    BY <2>1 DEF IInv, Types, TypeOK, Trade
<1> QED
  BY <1>1, Invariant, PTL

\* No look-ahead: neither the trend candles that htf_slice_upto gives the engine nor any
\* candle it looks at closes after the decision, for candles of any two lengths; nothing
\* that had closed is left out but the candles evaluate_v2 drops.
THEOREM NothingAhead == Spec => []NoLookAhead
<1>1. IInv => NoLookAhead
  BY DEF IInv, InOrder, Decided, NoLookAhead, All, Closed
<1> QED
  BY <1>1, Invariant, PTL

\* Trades are a cooldown apart by their candles, and all but the first of a run have had
\* the engine's own cooldown pass by the wall clock, whatever the history and the cooldown.
THEOREM TradesRested == Spec => []CooldownsHold
<1>1. IInv => CooldownsHold
  <2> SUFFICES ASSUME IInv PROVE CooldownsHold
    OBVIOUS
  <2>1. ~ direct /\ Cooldown > 0 => Len(trades) + Opened <= rests + 1
    <3>1. Len(trades) + Opened \in Nat /\ rests \in Nat
      BY DEF IInv, Types, Opened
    <3> QED
      BY <3>1 DEF IInv, Rested, Waiting
  <2> QED
    BY <2>1 DEF IInv, Spaced, Apart, Opened, CooldownsHold, Closed
<1> QED
  BY <1>1, Invariant, PTL

\* An open trade is never displaced by another: it stays until it is reported, with
\* all it was entered with.
THEOREM NoTradeLost == Spec => TradesReported
<1> DEFINE Reported == position \notin {NoTrade, position'} =>
             \E pnl \in Pnls, t \in Times :
               trades' = Append(trades, [position EXCEPT !.exit = t, !.pnl = pnl])
<1>1. ASSUME IInv, [Next]_vars PROVE [Reported]_vars
  <2>1. CASE UNCHANGED vars
    BY <2>1
  <2>2. CASE StartRun
    <3>1. i = 0
      BY <2>2 DEF StartRun
    <3>2. position = NoTrade
      BY <1>1, <3>1 DEF IInv, Entered
    <3> QED
      BY <3>2
  <2>3. CASE Candle
    <3>1. Open(i) \in Times
      BY <1>1, <2>3, CandleTimes DEF Candle, IInv
    <3> QED
      BY <1>1, <2>3, <3>1, CandleInv DEF Ended
  <2>4. CASE EndRun
    <3> SUFFICES ASSUME position # NoTrade PROVE Reported
      OBVIOUS
    <3>1. i = Total /\ i \in Nat
      BY <1>1, <2>4, TotalInt DEF EndRun, IInv, Types, Entered
    <3>2. \E pnl \in Pnls : trades' = Append(trades, Ended(Open(Total), pnl))
      BY <2>4 DEF EndRun, Close, Ended
    <3>3. Open(Total) \in Times
      BY <1>1, <3>1, OpenTimes DEF IInv
    <3> QED
      BY <3>2, <3>3 DEF Ended
  <2> QED
    BY <1>1, <2>1, <2>2, <2>3, <2>4 DEF Next
<1> QED
  BY <1>1, Invariant, PTL DEF Spec, TradesReported
\* The final equity is the starting balance and the results of all trades reported, for
\* any number of trades (backtest.py's equity += pnl beside trades.append, at the three
\* places where a trade is closed).
THEOREM AllAccounted == Spec => []Accounting
<1>1. IInv /\ Ledger => Accounting
  <2> SUFFICES ASSUME IInv, Ledger PROVE Accounting
    OBVIOUS
  <2>1. DOMAIN trades = 1 .. Len(trades)
    BY DEF IInv, Types
  <2>2. Booked(Closed) = Sum(trades, DOMAIN trades)
    BY DEF Booked, Sum, Closed
  <2> QED
    BY <2>1, <2>2 DEF Ledger, EquityAfter, Accounting
<1> QED
  BY <1>1, Invariant, LedgerKept, PTL

\* No entry is decided on a day that has already lost its limit, in any slice and with
\* days of any length (the guard of run on day_start_equity).
THEOREM DaysGuarded == Spec => []DailyLossGuard
<1>1. Ledger => DailyLossGuard
  <2> SUFFICES ASSUME Ledger, NEW t \in All
               PROVE  - Booked(LeftToday(trades, t.decided)) * 100
                        < (StartBalance + Booked(LeftBefore(trades, Day(t.decided))))
                            * DailyLossPct
    BY DEF DailyLossGuard, LeftToday, LeftBefore, Closed
  <2>1. WithinLimit(trades, t.decided)
    BY DEF Ledger, Guarded, All, Closed
  <2> QED
    BY <2>1 DEF WithinLimit, Booked, Sum
<1> QED
  BY <1>1, LedgerKept, PTL

\* The largest of a set of numbers is what one of them is and none exceeds.
LEMMA MaxIs ==
  ASSUME NEW S, NEW x \in S, S \subseteq Int, \A y \in S : y <= x
  PROVE  Max(S) = x
<1>1. \A y \in S : x >= y
  OBVIOUS
<1>2. \A z \in S : (\A y \in S : z >= y) => z = x
  OBVIOUS
<1> QED
  BY <1>1, <1>2 DEF Max

\* A curve that follows the first trades holds the largest fall of the equity over them.
LEMMA FollowsFall ==
  ASSUME IInv, NEW m \in 0 .. Len(trades), Follows(curve, trades, m)
  PROVE  curve.fall = LargestFall(m)
<1> DEFINE Pairs == {q \in (0 .. m) \X (0 .. m) : q[1] < q[2]}
           Falls == {0} \cup {After(p[1]) - After(p[2]) : p \in Pairs}
<1>1. trades \in Seq(Trade) /\ curve.fall \in Nat /\ m \in Nat
  BY DEF IInv, Types
<1>2. \A n \in 0 .. m : After(n) = EquityAfter(trades, n) /\ After(n) \in Int
  <2> TAKE n \in 0 .. m
  <2>1. After(n) = EquityAfter(trades, n)
    BY DEF After, EquityAfter, Booked, Sum
  <2>2. n \in 0 .. Len(trades)
    BY <1>1
  <2> QED
    BY <1>1, <2>1, <2>2, EquityInt
<1>3. Falls \subseteq Int
  BY <1>2
<1>4. \A x \in Falls : x <= curve.fall
  <2> SUFFICES ASSUME NEW p \in Pairs PROVE After(p[1]) - After(p[2]) <= curve.fall
    BY <1>1
  <2>1. p[2] \in 0 .. m /\ p[1] \in 0 .. p[2] - 1 /\ p[1] \in 0 .. m
    OBVIOUS
  <2> QED
    BY <1>2, <2>1 DEF Follows
<1>5. curve.fall \in Falls
  <2>1. CASE curve.fall = 0
    BY <2>1
  <2>2. CASE curve.fall # 0
    <3> PICK n \in 0 .. m : \E l \in 0 .. n - 1 :
            EquityAfter(trades, l) - EquityAfter(trades, n) = curve.fall
      BY <2>2 DEF Follows
    <3>1. PICK l \in 0 .. n - 1 :
            EquityAfter(trades, l) - EquityAfter(trades, n) = curve.fall
      OBVIOUS
    <3>2. l \in 0 .. m /\ <<l, n>> \in Pairs
      BY <1>1
    <3>3. After(<<l, n>>[1]) - After(<<l, n>>[2]) = curve.fall
      BY <1>2, <3>1, <3>2
    <3> QED
      BY <3>2, <3>3
  <2> QED
    BY <2>1, <2>2
<1>6. LargestFall(m) = Max(Falls)
  BY DEF LargestFall
<1> HIDE DEF Falls
<1>7. Max(Falls) = curve.fall
  BY <1>3, <1>4, <1>5, MaxIs
<1> QED
  BY <1>6, <1>7

\* The drawdown reported misses no trade but the last one, although the curve has an entry
\* for few of the candles (run's equity_curve, and _report's loop over it).
THEOREM DrawdownOfTrades == Spec => []DrawdownReported
<1>1. IInv /\ Ledger => DrawdownReported
  <2> SUFFICES ASSUME IInv, Ledger PROVE DrawdownReported
    OBVIOUS
  <2>1. Len(trades) \in Nat
    BY DEF IInv, Types
  <2>2. CASE Follows(curve, trades, Len(trades))
    <3>1. Len(trades) \in 0 .. Len(trades)
      BY <2>1
    <3> QED
      BY <2>2, <3>1, FollowsFall DEF DrawdownReported
  <2>3. CASE Len(trades) > 0 /\ Follows(curve, trades, Len(trades) - 1)
    <3>1. Len(trades) - 1 \in 0 .. Len(trades)
      BY <2>1, <2>3
    <3> QED
      BY <2>3, <3>1, FollowsFall DEF DrawdownReported
  <2> QED
    BY <2>2, <2>3 DEF Ledger, CurveFollows
<1> QED
  BY <1>1, Invariant, LedgerKept, PTL

-----------------------------------------------------------------------------
(* An end                                                                  *)

\* The most steps a run can take, and those that are left: of the run under way, and of
\* the runs to come.
LongestRun == HtfTotal * Ratio + 2
StepsLeft ==
  IF i = 0 THEN (LastSplit + 1 - split) * LongestRun
  ELSE (LastSplit - split) * LongestRun + 1 + IF i < Total THEN Total - i ELSE 0

\* No slice has more entry candles than there are.
LEMMA TotalWithin == Types => Total \in Int /\ Total <= HtfTotal * Ratio
<1> SUFFICES ASSUME Types PROVE Total \in Int /\ Total <= HtfTotal * Ratio
  OBVIOUS
<1>1. /\ htfLen \in Nat /\ HtfTotal \in Nat /\ htfLen <= HtfTotal /\ Ratio \in Nat /\ Ratio >= 1
  BY CandlesType DEF Types
<1>2. htfLen * Ratio <= HtfTotal * Ratio
  BY <1>1, Grows
<1>3. htfLen <= htfLen * Ratio
  BY <1>1
<1>4. (htfLen - 1) * Ratio + 1 <= htfLen * Ratio
  BY <1>1
<1>5. htfLen * Ratio \in Int /\ (htfLen - 1) * Ratio \in Int /\ HtfTotal * Ratio \in Int
  BY <1>1
<1> QED
  BY <1>1, <1>2, <1>3, <1>4, <1>5 DEF Total

\* What is left is a number, and nothing only after the last run, without an open trade.
LEMMA StepsType ==
  ASSUME IInv
  PROVE  /\ StepsLeft \in Nat
         /\ StepsLeft = 0 => split = LastSplit + 1 /\ position = NoTrade
<1>1. /\ LastSplit \in Int /\ split \in Int /\ split <= LastSplit + 1 /\ i \in Nat
      /\ (i > 0 => split <= LastSplit) /\ Total \in Int
  BY SomeSplit, TotalInt DEF IInv, Types, InRun
<1>2. LongestRun \in Nat /\ LongestRun >= 2
  <2>1. HtfTotal * Ratio \in Nat
    BY CandlesType
  <2> QED
    BY <2>1 DEF LongestRun
<1>3. ASSUME NEW r \in Int, r >= 0 PROVE r * LongestRun \in Nat /\ (r * LongestRun = 0 => r = 0)
  BY <1>2, <1>3
<1>4. CASE i = 0
  <2>1. PICK r \in Int : r = LastSplit + 1 - split /\ r >= 0
    BY <1>1
  <2>2. StepsLeft = r * LongestRun
    BY <1>4, <2>1 DEF StepsLeft
  <2>3. position = NoTrade
    BY <1>4 DEF IInv, Entered
  <2> QED
    BY <1>1, <1>3, <2>1, <2>2, <2>3
<1>5. CASE i # 0
  <2>1. PICK r \in Int : r = LastSplit - split /\ r >= 0
    BY <1>1, <1>5
  <2>2. PICK t \in Nat : t = IF i < Total THEN Total - i ELSE 0
    <3>1. CASE i < Total
      BY <1>1, <3>1
    <3>2. CASE ~ (i < Total)
      BY <3>2
    <3> QED
      BY <3>1, <3>2
  <2>3. StepsLeft = r * LongestRun + 1 + t
    BY <1>5, <2>1, <2>2 DEF StepsLeft
  <2> QED
    BY <1>3, <2>1, <2>2, <2>3
<1> QED
  BY <1>4, <1>5

\* Every step is one less.
LEMMA StepsShrink == ASSUME IInv, IInv', Next PROVE StepsLeft' < StepsLeft
<1>1. /\ LastSplit \in Int /\ split \in Int /\ i \in Nat /\ MinHistory \in Nat
      /\ Total \in Int /\ Total' \in Int /\ Total' <= HtfTotal * Ratio
  <2>1. Types' => Total' \in Int /\ Total' <= HtfTotal * Ratio
    <3>1. (Types => Total \in Int /\ Total <= HtfTotal * Ratio)'
      BY TotalWithin, PTL
    <3> QED
      BY <3>1
  <2> QED
    BY <2>1, SomeSplit, TotalInt, ConfigType DEF IInv, Types
<1>2. PICK w \in Int : w = LongestRun /\ w = HtfTotal * Ratio + 2 /\ HtfTotal * Ratio \in Nat
  BY CandlesType DEF LongestRun
<1>3. CASE StartRun
  <2>1. /\ i = 0 /\ i' = MinHistory + 1 /\ i' # 0 /\ split' = split /\ LastSplit' = LastSplit
        /\ LongestRun' = LongestRun
    BY <1>1, <1>3 DEF StartRun, LastSplit, Single, LongestRun
  <2>2. PICK r \in Int : r = LastSplit - split
    BY <1>1
  <2>3. StepsLeft = (r + 1) * w
    BY <1>1, <1>2, <2>1, <2>2 DEF StepsLeft
  <2>4. PICK t \in Int : t = IF i' < Total' THEN Total' - i' ELSE 0
    <3>1. Total' - i' \in Int
      BY <1>1, <2>1
    <3>2. CASE i' < Total'
      BY <3>1, <3>2
    <3>3. CASE ~ (i' < Total')
      BY <3>3
    <3> QED
      BY <3>2, <3>3
  <2>5. t <= w - 2
    BY <1>1, <1>2, <2>1, <2>4
  <2>6. StepsLeft' = r * w + 1 + t
    BY <1>2, <2>1, <2>2, <2>4 DEF StepsLeft
  <2>7. (r + 1) * w = r * w + w /\ r * w \in Int
    OBVIOUS
  <2> QED
    BY <2>3, <2>5, <2>6, <2>7
<1>4. CASE Candle
  <2>1. /\ i > 0 /\ i < Total /\ i' = i + 1 /\ i' # 0 /\ split' = split /\ Total' = Total
        /\ LastSplit' = LastSplit /\ LongestRun' = LongestRun
    BY <1>1, <1>4 DEF Candle, LastSplit, Single, LongestRun, Total
  <2>2. PICK k \in Int : k = (LastSplit - split) * LongestRun
    BY <1>1, <1>2
  <2>3. StepsLeft = k + 1 + (Total - i)
    BY <2>1, <2>2 DEF StepsLeft
  <2>4. StepsLeft' = k + 1 + IF i + 1 < Total THEN Total - (i + 1) ELSE 0
    BY <2>1, <2>2 DEF StepsLeft
  <2> QED
    BY <1>1, <2>1, <2>3, <2>4
<1>5. CASE EndRun
  <2>1. /\ i > 0 /\ ~ (i < Total) /\ i' = 0 /\ split' = split + 1
        /\ LastSplit' = LastSplit /\ LongestRun' = LongestRun
    BY <1>1, <1>5 DEF EndRun, LastSplit, Single, LongestRun
  <2>2. LastSplit + 1 - (split + 1) = LastSplit - split
    BY <1>1
  <2>3. PICK k \in Int : k = (LastSplit - split) * LongestRun
    BY <1>1, <1>2
  <2>4. StepsLeft = k + 1 + 0
    BY <2>1, <2>3 DEF StepsLeft
  <2>5. StepsLeft' = k
    BY <2>1, <2>2, <2>3 DEF StepsLeft
  <2> QED
    BY <2>4, <2>5
<1> QED
  BY <1>3, <1>4, <1>5 DEF Next

\* A backtest has a bound on its steps from the start, and every step uses one up; when
\* none is left the last slice is through and no trade is open.  It cannot go on for ever,
\* whatever candles and signals it meets (walk_forward's loop, and run's).
THEOREM StepsRunOut ==
  Spec => /\ [](/\ StepsLeft \in Nat
                /\ StepsLeft = 0 => split = LastSplit + 1 /\ position = NoTrade)
          /\ [][StepsLeft' < StepsLeft]_vars
<1>1. IInv => /\ StepsLeft \in Nat
              /\ StepsLeft = 0 => split = LastSplit + 1 /\ position = NoTrade
  BY StepsType
<1>2. IInv /\ IInv' /\ [Next]_vars => [StepsLeft' < StepsLeft]_vars
  BY StepsShrink
<1> QED
  BY <1>1, <1>2, Invariant, PTL DEF Spec
=============================================================================
