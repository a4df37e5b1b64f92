------------------------------- MODULE Equity -------------------------------
(***************************************************************************)
(* EquityAgent: the rows of trades turned into the figures the dashboard   *)
(* shows, and the snapshots of the equity that run_cycle has it take.      *)
(* Trades open and close by whoever trades on paper; a snapshot reads the  *)
(* trades and writes its row later.  Prices are left out: a snapshot is    *)
(* taken without any, so that open trades count nothing.                   *)
(***************************************************************************)
EXTENDS Integers, SequencesExt

CONSTANTS
  Starting,   \* starting_equity
  Pnls,       \* what a trade may bring, net of its fees
  Limit,      \* newest snapshots that are read, limit
  MaxTrades,  \* bound on trades
  MaxSnaps    \* bound on snapshots

ASSUME EquityType == /\ Starting \in Nat \ {0} /\ Pnls \subseteq Int /\ Limit \in Nat \ {0}
                     /\ MaxTrades \in Nat /\ MaxSnaps \in Nat

VARIABLES
  trades,   \* rows by id: pnl and closing time, 0 while open
  snaps,    \* equity_snapshots, by id
  reading,  \* the equity a snapshot has computed and not written, or Idle
  clock     \* time of the last closing

equityVars == <<trades, snaps, reading, clock>>

Idle == <<>>
OpenTrade == [pnl |-> 0, closed |-> 0]

ClosedIds == {i \in DOMAIN trades : trades[i].closed # 0}
Pnl(i) == trades[i].pnl
SumOf(S) == FoldSet(LAMBDA i, sum : Pnl(i) + sum, 0, S)

\* realized_pnl, current_equity
Realized == SumOf(ClosedIds)
CurrentEquity == Starting + Realized

-----------------------------------------------------------------------------
(* analytics                                                               *)

Wins == {i \in ClosedIds : Pnl(i) > 0}
Losses == {i \in ClosedIds : Pnl(i) < 0}
GrossProfit == SumOf(Wins)
GrossLoss == - SumOf(Losses)

\* Quotients are pairs; profit_factor and average_win_loss_ratio.
None == <<0, 0>>
Infinite == <<1, 0>>
ProfitFactor ==
  IF GrossLoss > 0 THEN <<GrossProfit, GrossLoss>>
  ELSE IF GrossProfit = 0 THEN None ELSE Infinite
WinLossRatio ==
  IF Wins = {} \/ Losses = {} THEN None
  ELSE <<GrossProfit * Cardinality(Losses), GrossLoss * Cardinality(Wins)>>

\* The order of closing; of two that closed at one time, the older row is first.
Before(i, j) ==
  trades[i].closed < trades[j].closed \/ (trades[i].closed = trades[j].closed /\ i < j)

\* Seeded fault: the trades stay in the order of their rows.
Unordered == CHOOSE row \in SetToSeqs(ClosedIds) : \A k, l \in DOMAIN row : k < l => row[k] < row[l]

\* sorted by closing time, which is stable.
Ordered ==
  CHOOSE row \in SetToSeqs(ClosedIds) :
    \A k, l \in DOMAIN row : k < l => Before(row[k], row[l])

NoStreaks == [wins |-> 0, losses |-> 0, maxWins |-> 0, maxLosses |-> 0]

\* One turn of the loop over consecutive wins and losses.
CountStreak(s, i) ==
  LET w == IF Pnl(i) > 0 THEN s.wins + 1 ELSE 0
      l == IF Pnl(i) < 0 THEN s.losses + 1 ELSE 0
  IN [wins |-> w, losses |-> l, maxWins |-> Max({s.maxWins, w}), maxLosses |-> Max({s.maxLosses, l})]

Streaks == FoldLeft(CountStreak, NoStreaks, Ordered)

\* Seeded fault: the rows are limited before they are ordered.
OldestRows == Reverse(SubSeq(snaps, 1, Min({Limit, Len(snaps)})))

\* get_equity_snapshots and history: the newest rows, newest first.
Kept == SubSeq(snaps, Max({0, Len(snaps) - Limit}) + 1, Len(snaps))
Newest == Reverse(Kept)

\* One turn of the loop over drawdowns.
Fall(d, eq) ==
  LET peak == IF eq > d.peak THEN eq ELSE d.peak
  IN [peak |-> peak, max |-> IF peak > 0 THEN Max({d.max, peak - eq}) ELSE d.max]

\* max_drawdown and peak_equity.
Drawdown ==
  IF snaps = <<>> THEN [peak |-> CurrentEquity, max |-> 0]
  ELSE FoldLeft(Fall, [peak |-> Newest[1], max |-> 0], Newest)

\* drawdown_series: peak and drawdown at every snapshot, oldest first.
DrawdownSeries ==
  LET hist == Reverse(Newest)
      peak[k \in DOMAIN hist] == IF k = 1 \/ hist[k] > peak[k - 1] THEN hist[k] ELSE peak[k - 1]
  IN [k \in DOMAIN hist |->
        [equity |-> hist[k], peak |-> peak[k],
         drawdown |-> IF peak[k] = 0 THEN 0 ELSE peak[k] - hist[k]]]

-----------------------------------------------------------------------------
\* Paper trading opens a trade, and closes one at a price that gives its result.
Open ==
  /\ Len(trades) < MaxTrades
  /\ trades' = Append(trades, OpenTrade)
  /\ UNCHANGED <<snaps, reading, clock>>

Close(i, pnl, t) ==
  /\ trades[i].closed = 0
  /\ trades' = [trades EXCEPT ![i] = [pnl |-> pnl, closed |-> t]]
  /\ clock' = t
  /\ UNCHANGED <<snaps, reading>>

\* snapshot: analytics first, then the row.
ReadEquity ==
  /\ reading = Idle /\ Len(snaps) < MaxSnaps
  /\ reading' = <<CurrentEquity>>
  /\ UNCHANGED <<trades, snaps, clock>>

WriteSnapshot ==
  /\ reading # Idle
  /\ snaps' = snaps \o reading
  /\ reading' = Idle
  /\ UNCHANGED <<trades, clock>>

\* Writing the row raises, or the process ends first; run_cycle goes on.
LoseSnapshot ==
  /\ reading # Idle
  /\ reading' = Idle
  /\ UNCHANGED <<trades, snaps, clock>>

EquityInit == trades = <<>> /\ snaps = <<>> /\ reading = Idle /\ clock = 1

EquityNext ==
  \/ Open
  \/ \E i \in DOMAIN trades, pnl \in Pnls, t \in {clock, clock + 1} : Close(i, pnl, t)
  \/ ReadEquity
  \/ WriteSnapshot
  \/ LoseSnapshot

EquitySpec == EquityInit /\ [][EquityNext]_equityVars

-----------------------------------------------------------------------------
(* Properties                                                              *)

\* The most trades of S that closed in a row: none outside closed between two of them.
LongestRow(S) ==
  LET inRow(U) == \A k \in ClosedIds \ U : \/ \A i \in U : Before(i, k)
                                           \/ \A i \in U : Before(k, i)
  IN Max({Cardinality(U) : U \in {T \in SUBSET S : inRow(T)}})

\* The streaks counted in one pass over the sorted trades are the most wins and the most
\* losses that closed without another trade between them, however trades overlap, close
\* in another order than they opened, at the same time, or bring nothing.
StreaksFound ==
  Streaks.maxWins = LongestRow(Wins) /\ Streaks.maxLosses = LongestRow(Losses)

\* The highest of the first k values.
Until(values, k) == Max({values[i] : i \in 1 .. k})

\* Of the snapshots kept, the peak reported is the highest, and each entry of the
\* drawdown series is the fall from the highest until then, or none while that is zero.
DrawdownSeen ==
  /\ snaps # <<>> => Drawdown.peak = Until(Kept, Len(Kept))
  /\ \A k \in DOMAIN Kept :
       /\ DrawdownSeries[k].equity = Kept[k]
       /\ DrawdownSeries[k].drawdown = IF Until(Kept, k) = 0 THEN 0 ELSE Until(Kept, k) - Kept[k]

\* The largest fall from a value above zero to a later one.
LargestFall(values) ==
  LET all == DOMAIN values
      later == {q \in all \X all : q[1] < q[2] /\ values[q[1]] > 0}
  IN Max({0} \cup {values[p[1]] - values[p[2]] : p \in later})

\* What equity.py:105 calls the drawdown from equity snapshots is one: the largest fall
\* from a snapshot kept to a later one.
MaxDrawdownIsFall == Drawdown.max = LargestFall(Kept)
=============================================================================
