------------------------------ MODULE Backtest ------------------------------
(***************************************************************************)
(* The backtester: walk_forward, which runs Backtester.run over slices of  *)
(* the candles, and run itself, one step per entry candle.  What a candle  *)
(* does to the position and whether the signal engine finds a setup are    *)
(* free choices; the bookkeeping around them is the model.                 *)
(*                                                                         *)
(* Time is counted in entry-timeframe candles; candle i of a timeframe of  *)
(* n units opens at i * n and closes at (i + 1) * n.                       *)
(***************************************************************************)
EXTENDS Integers, Sequences, FiniteSetsExt

CONSTANTS
  HtfTotal,      \* trend-timeframe candles there are
  Ratio,         \* their length
  MinTotal,      \* below this walk_forward tests all at once, 200
  Splits,        \* n_splits
  MinHistory,    \* cfg.min_history, 60
  DayLength,     \* a day
  Cooldown,      \* cfg.cooldown_seconds
  StartBalance,  \* cfg.starting_balance
  DailyLossPct,  \* cfg.max_daily_loss_pct
  Pnls           \* the net results a trade can have

ASSUME CandlesType == HtfTotal \in Nat \ {0} /\ Ratio \in Nat \ {0} /\ MinTotal \in Nat
ASSUME SplitsType == Splits \in Nat
ASSUME ConfigType ==
  /\ MinHistory \in Nat /\ DayLength \in Nat \ {0} /\ Cooldown \in Nat
  /\ StartBalance \in Nat /\ DailyLossPct \in Nat /\ Pnls \subseteq Int

VARIABLES
  ltf,       \* whether entry-timeframe candles are given
  direct,    \* run called on all candles with an engine of the caller's, without cooldown
  split,     \* the slice under test
  htfLen,    \* trend candles in the slice
  i,         \* the entry candle at hand; 0 between runs
  ready,     \* the engine has not signalled since its own cooldown began, or has none
  rests,     \* history: signals since the run began that a cooldown passed before
  position,  \* the open trade, or none
  trades,    \* closed trades
  equity,
  dayStart,  \* equity when the day of the last candle began
  last,      \* time of the last signal, -Cooldown for none
  curve      \* equity_curve, as far as _report looks at it: peak and largest fall

loop == <<i, ready, rests, position, trades, equity, dayStart, last, curve>>
vars == <<ltf, direct, split, htfLen, loop>>

\* Whether there is one run over everything.
Single == direct \/ HtfTotal < MinTotal \/ Splits < 2
LastSplit == IF Single THEN 1 ELSE Splits - 1

\* The slice of a split ends at h_end, and begins at 0.
HEnd(s) == IF Single THEN HtfTotal ELSE (s + 1) * (HtfTotal \div Splits)

Step == IF ltf THEN 1 ELSE Ratio          \* length of an entry candle
Open(k) == k * Step
Day(t) == t \div DayLength
\* Entry candles of the slice: those that open no later than its last trend candle.
Total == CASE ~ ltf -> htfLen
           [] ltf /\ Single -> htfLen * Ratio
           [] OTHER -> (htfLen - 1) * Ratio + 1

NoTrade == [decided |-> -1, seen |-> -1, trend |-> -1, entry |-> -1, exit |-> -1, pnl |-> 0]
Times == -1 .. HtfTotal * Ratio

TypeOK ==
  /\ ltf \in BOOLEAN /\ direct \in BOOLEAN /\ ready \in BOOLEAN
  /\ split \in 1 .. LastSplit + 1 /\ htfLen \in 0 .. HtfTotal /\ i \in Nat /\ rests \in Nat
  /\ \A t \in {position} \cup {trades[k] : k \in DOMAIN trades} :
       /\ \A time \in {t.decided, t.seen, t.trend, t.entry, t.exit} : time \in Times
       /\ t.pnl \in Pnls \cup {0}
  /\ equity \in Int /\ dayStart \in Int /\ last \in Int
  /\ curve \in [peak : Int, fall : Nat]

\* The peak starts at the balance, not with the first of the curve.
FlatCurve == [peak |-> StartBalance, fall |-> 0]

Init ==
  /\ ltf \in BOOLEAN /\ direct \in BOOLEAN
  /\ split = 1 /\ htfLen = 0 /\ i = 0
  /\ ready = TRUE /\ rests = 0 /\ position = NoTrade /\ trades = <<>>
  /\ equity = StartBalance /\ dayStart = StartBalance /\ last = - Cooldown
  /\ curve = FlatCurve

-----------------------------------------------------------------------------
\* The next slice: a new backtester and a new engine start over.
StartRun ==
  /\ i = 0 /\ split <= LastSplit
  /\ htfLen' = HEnd(split)
  /\ i' = MinHistory + 1
  /\ ready' = TRUE /\ rests' = 0 /\ position' = NoTrade /\ trades' = <<>>
  /\ equity' = StartBalance /\ dayStart' = StartBalance /\ last' = - Cooldown
  /\ curve' = FlatCurve
  /\ UNCHANGED <<ltf, direct, split>>

\* The open trade closed at time t with this result.
Close(t, pnl) ==
  [position |-> NoTrade, equity |-> equity + pnl,
   trades |-> Append(trades, [position EXCEPT !.exit = t, !.pnl = pnl])]

\* Seeded fault: the trade's result is not booked.
ManagedUnbooked ==
  {[position |-> position, equity |-> equity, trades |-> trades]} \cup
    IF position = NoTrade THEN {}
    ELSE {[Close(Open(i), pnl) EXCEPT !.equity = equity] : pnl \in Pnls}

\* What the candle makes of the open trade: nothing, or an exit at its stop or its
\* take profit.
Managed ==
  {[position |-> position, equity |-> equity, trades |-> trades]} \cup
    IF position = NoTrade THEN {} ELSE {Close(Open(i), pnl) : pnl \in Pnls}

\* Seeded fault: trend candles count from when they open.
HtfOpened == LET n == Open(i) \div Ratio + 1 IN IF n < htfLen THEN n ELSE htfLen

\* htf_slice_upto: how many trend candles have closed when the entry candle opens.
HtfClosed == LET n == Open(i) \div Ratio IN IF n < htfLen THEN n ELSE htfLen

\* When the last candle closes that the engine is given of the trend timeframe, and the
\* last one that it looks at: of i + 1 entry candles and of the trend candles it drops
\* the last, and without entry candles the trend candles are the entry candles, too.
TrendGiven == HtfClosed * Ratio
Seen ==
  LET trend == (HtfClosed - 1) * Ratio
      entry == i * Step
  IN IF ltf /\ entry > trend THEN entry ELSE trend

\* The daily loss guard: what the day has lost is less than its limit.
DayWithinLimit(now, start) == (start - now.equity) * 100 < start * DailyLossPct

\* Seeded fault: the open position is not looked at.
MayEvaluateTwice(now, start) ==
  /\ DayWithinLimit(now, start)
  /\ HtfClosed >= MinHistory + 1
  /\ Open(i) - last >= Cooldown

\* Seeded fault: without the daily loss guard.
MayEvaluateAnyDay(now, start) ==
  /\ HtfClosed >= MinHistory + 1
  /\ Open(i) - last >= Cooldown
  /\ now.position = NoTrade

\* The guards before the engine is asked, on what the candle left and the equity
\* the day started with.
MayEvaluate(now, start) ==
  /\ DayWithinLimit(now, start)
  /\ HtfClosed >= MinHistory + 1
  /\ Open(i) - last >= Cooldown
  /\ now.position = NoTrade

\* Seeded fault: the engine is asked whatever its cooldown.
EngineAlwaysReady(accepted) == accepted \in BOOLEAN /\ UNCHANGED <<ready, rests>>

\* evaluate_v2: no signal; or one, when there was none before or there is no cooldown; or
\* another one, because the cooldown, which is counted from time.time() and not by the
\* candles, has passed while the run went on.  The run accepts a signal or drops it for
\* its score, its stop or its size.
Engine(accepted) ==
  \/ ~ accepted /\ UNCHANGED <<ready, rests>>
  \/ ready /\ ready' = (direct \/ Cooldown = 0) /\ UNCHANGED rests
  \/ ~ ready /\ rests' = rests + 1 /\ UNCHANGED ready

\* Seeded fault: an entry does not add to the curve.
RecordedWhenHeld(now, start, entered) ==
  \/ ~ DayWithinLimit(now, start)
  \/ HtfClosed >= MinHistory + 1 /\ Open(i) - last >= Cooldown /\ now.position # NoTrade

\* The ways a candle ends at which it adds to the curve: the day is lost, a position is
\* open, or one is entered.  At the others, such as without a signal, it does not.
Recorded(now, start, entered) ==
  \/ ~ DayWithinLimit(now, start)
  \/ HtfClosed >= MinHistory + 1 /\ Open(i) - last >= Cooldown /\ now.position # NoTrade
  \/ entered

\* One turn of _report's loop over the curve.
Extended(eq) ==
  LET peak == IF eq > curve.peak THEN eq ELSE curve.peak
  IN [peak |-> peak, fall |-> IF peak - eq > curve.fall THEN peak - eq ELSE curve.fall]

\* Seeded fault: the loop goes on without a look at the end of the data.
CandleEndless ==
  /\ i > 0 /\ i < Total
  /\ i' = IF i + 1 < Total THEN i + 1 ELSE i
  /\ UNCHANGED <<ltf, direct, split, htfLen, ready, rests, position, trades, equity,
                 dayStart, last, curve>>

\* One candle: the day, the open trade, the guards, the engine, and an entry that
\* fills at the next open; without a next candle the loop breaks.
Candle ==
  /\ i > 0 /\ i < Total
  /\ LET newDay == i = MinHistory + 1 \/ Day(Open(i)) # Day(Open(i - 1))
         start == IF newDay THEN equity ELSE dayStart
     IN \E now \in Managed, accepted \in BOOLEAN :
          /\ dayStart' = start /\ equity' = now.equity /\ trades' = now.trades
          /\ i' = i + 1
          /\ IF MayEvaluate(now, start)
             THEN Engine(accepted)
             ELSE ~ accepted /\ UNCHANGED <<ready, rests>>
          /\ IF accepted /\ i + 1 < Total
             THEN /\ position' = [NoTrade EXCEPT !.decided = Open(i), !.seen = Seen,
                                                 !.trend = TrendGiven, !.entry = Open(i + 1)]
                  /\ last' = Open(i)
             ELSE position' = now.position /\ UNCHANGED last
          /\ curve' = IF Recorded(now, start, accepted /\ i + 1 < Total)
                      THEN Extended(now.equity) ELSE curve
  /\ UNCHANGED <<ltf, direct, split, htfLen>>

\* The data is over: a trade still open is closed at the last close.
EndRun ==
  /\ i > 0 /\ i >= Total
  /\ i' = 0
  /\ split' = split + 1
  /\ \E pnl \in Pnls :
       LET now == Close(Open(Total), pnl) IN
         IF position = NoTrade THEN UNCHANGED <<position, equity, trades>>
         ELSE /\ position' = now.position /\ equity' = now.equity /\ trades' = now.trades
  /\ UNCHANGED <<ltf, direct, htfLen, ready, rests, dayStart, last, curve>>

-----------------------------------------------------------------------------
Next == StartRun \/ Candle \/ EndRun

Spec == Init /\ [][Next]_vars

\* The loop is sequential code.
FairSpec == Spec /\ WF_vars(Next)

-----------------------------------------------------------------------------
(* Properties                                                              *)

Closed == DOMAIN trades
All == {trades[k] : k \in Closed} \cup ({position} \ {NoTrade})
Booked(kept) == MapThenSumSet(LAMBDA k : trades[k].pnl, kept)

\* The final equity is the starting balance and the results of all reported trades.
Accounting == equity = StartBalance + Booked(Closed)

\* The equity after the first trades, and the largest fall of it.
After(n) == StartBalance + Booked(1 .. n)
LargestFall(n) ==
  Max({0} \cup {After(p[1]) - After(p[2]) : p \in {q \in (0 .. n) \X (0 .. n) : q[1] < q[2]}})

\* The maximum drawdown reported leaves out no trade but the last one, although most
\* candles, and the exit at the end of the data, add nothing to the equity curve.
DrawdownReported ==
  LET n == Len(trades)
  IN curve.fall = LargestFall(n) \/ (n > 0 /\ curve.fall = LargestFall(n - 1))

\* No look-ahead across the two timeframes: neither the trend candles the engine is given
\* nor any candle it looks at closes after the decision, whatever the lengths of candles
\* and slices, and the entry and the exit come after it.  Nor is anything left out: the
\* last trend candle given is the last that had closed, and what is looked at is no more
\* than the one dropped candle older.
NoLookAhead ==
  \A t \in All :
    /\ t.trend <= t.decided /\ t.decided < t.trend + Ratio
    /\ t.seen <= t.decided /\ t.decided <= t.seen + Ratio
    /\ t.decided < t.entry
    /\ t # position => t.entry <= t.exit

\* max_positions of 1: an open trade is never displaced by another; it stays until it
\* is reported.
TradesReported ==
  [][position \notin {NoTrade, position'} =>
       \E pnl \in Pnls, t \in Times :
         trades' = Append(trades, [position EXCEPT !.exit = t, !.pnl = pnl])]_vars

\* No entry is decided on a day that has already lost its limit, by the exits
\* booked until then.
DailyLossGuard ==
  \A t \in All :
    LET before == {k \in Closed : Day(trades[k].exit) < Day(t.decided)}
        today == {k \in Closed : Day(trades[k].exit) = Day(t.decided)
                                 /\ trades[k].exit <= t.decided /\ trades[k].decided < t.decided}
    IN - Booked(today) * 100 < (StartBalance + Booked(before)) * DailyLossPct

\* Two cooldowns hold at once.  By the candles, decisions are at least a cooldown apart.
\* And the engine that run builds for itself waits by the wall clock, whatever the
\* candles say: a run reports one trade, and one more at most for each of its cooldowns
\* that passed while it ran.
CooldownsHold ==
  /\ \A k \in Closed :
       /\ \A j \in 1 .. k - 1 : trades[k].decided - trades[j].decided >= Cooldown
       /\ position # NoTrade => position.decided - trades[k].decided >= Cooldown
  /\ ~ direct /\ Cooldown > 0 =>
       Len(trades) + (IF position = NoTrade THEN 0 ELSE 1) <= rests + 1

\* A backtest comes to its end and leaves no trade open.
Finishes == <>[](split = LastSplit + 1 /\ position = NoTrade)
=============================================================================
