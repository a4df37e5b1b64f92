# Verification of the Binance signal engine

TLA+ specifications of the program in `src/`, the TLC runs that check them on small
instances, and TLAPS proofs of the theorems that matter most.  File and line references
are to `src/src/*.py` unless a path says otherwise.

## The system

One process (`src/main.py`) runs two things that share the settings object and, each
through a connection of its own, one SQLite file in WAL mode:

* the **worker thread** (`worker.py`), which runs `Orchestrator.run_cycle` for ever:
  reconcile, look at the kill switch, scan all symbols, pass each fresh signal through the
  rug check, the sizer and two duplicate checks to `PaperTrader.open_position`, then
  monitor the open rows for their stop or take profit;
* the **dashboard's event loop** (`dashboard.py`), whose handlers halt and resume, open
  and close paper positions by hand, change settings and show everything.

Beside them a **market-data thread** (`market_data.py`) refreshes the symbol universe and
the candle cache with a thread pool, throttled by a limiter that the worker uses as well.
The process is restarted whenever it stops (`docker-compose.yml:6`); only the database
survives.  `ExecutionEngine` is the path to a real exchange account; the worker builds it,
tests drive it, the cycle never calls it.  `Backtester` replays candles through the same
signal engine.

| component | state | operations | interacts through | what makes it correct |
|---|---|---|---|---|
| worker, orchestrator (`worker.py`, `orchestrator.py`) | cycle stage, scan results | `run_cycle` and its stages | database, exchange | one position at a time; a signal is executed once; exits are honoured; a halt stops entries |
| paper trader (`paper_trading.py`) | none of its own | `open_position`, `close_position`, `monitor` | trades table | no second open row; a result is written once |
| dashboard trading handlers (`dashboard.py:245-256, 475-481, 773-865`) | none | execute, close, halt, resume | trades, kill_switch | the same, concurrently with the worker |
| kill switch (`kill_switch.py`) | kill_switch, daily_loss tables | halt, reset, record a loss | read by all of the above | a halt blocks entries; losses end the day |
| reconciliation (`reconciliation.py`) | none | `reconcile` | exchange snapshot, trades | closes a row only when its position is gone, and then does |
| live execution (`execution.py`, `account.py`) | in-process lock | `execute_signal`, emergency close | exchange, trades, kill switch | never adds to a position; nothing is left unprotected |
| scanner (`scanner.py`) | symbols | `scan_symbol`, `scan_once` | candle cache, seen marks | a signal is fresh once |
| signal engine (`signal_engine.py`, `regime.py`, `indicators.py`) | cooldowns, seen ids (memory) | `evaluate_v2`, older `evaluate*` | called by scanner and backtester | gates are hard; closed candles only; cooldown |
| market data (`market_data.py`) | universe, candles, meta; limiter slots | `refresh_universe`, `refresh_all`, `acquire` | scanner reads the cache | requests are paced; failures lose nothing; a refresh ends |
| sizer, filters (`sizer.py`, `risk_engine.py`, `exchange_filters.py`) | none | `calculate`, `size_position`, `validate_order` | settings | planned loss within the budget |
| settings (`settings_manager.py`, `config.py`) | settings object, settings table | `validate_and_set`, `load_into_settings` | read by every thread at any time | values stay in range; what is stored is what is used |
| accounts (`auth.py`) | users, sessions, attempts (memory) | login, logout, change password, look at a session | dashboard middleware and handlers, one connection for all | no session outlives its password; what is answered ok holds; lockout |
| backtester (`backtest.py`) | local to a run | `run`, `walk_forward` | signal engine | no look-ahead; the books balance |
| worker lock (`worker_lock.py`) | lock file | acquire, release | processes | one worker |
| indicators (`indicators.py`) | none | functions of candles | signal engine, regime classifier | long and short are judged alike; levels are not taken back |
| equity analytics (`equity.py`) | equity_snapshots | `analytics`, `snapshot`, `drawdown_series` | trades table; shown by the dashboard | figures agree with the trades |
| status, admin, logging, Grok, UI | log tables | reports | nothing reads them back | - |

What is hard here: two actors that check and then act on the same table without a
transaction around it; a kill switch read long before the action it guards; marks that
must outlive a crash between any two statements; orders whose answer is lost; a limiter
shared by racing threads; batches that fail half-way; statements that wait, uncommitted, on a
connection that all handlers share; and clocks of different timeframes in the backtester.  `PROJECT.json` lists each hazard at its line.

## Modules

| module | models | lines of source |
|---|---|---|
| `TradeBook` | abstract: what the engine promises about the rows of the trades table | - |
| `PaperEngine` | worker cycle, dashboard trading handlers, kill switch, reconciliation of paper rows, restarts | `worker.py`, `orchestrator.py`, `paper_trading.py`, `scanner.py`, `dashboard.py`, `storage.py` |
| `MCPaperEngine` | its small instances | |
| `PaperEngineProofs` | its theorems | |
| `LiveExecution`, `LiveExecutionProofs` | live entry, protection, emergency close, reconciliation against the exchange; theorems | `execution.py`, `account.py`, `reconciliation.py` |
| `MarketData`, `MarketDataProofs` | limiter, universe, refresh with its pool; theorems | `market_data.py` |
| `Backtest`, `MCBacktest`, `BacktestProofs` | backtest run with its equity curve, and walk-forward slices; instances; theorems | `backtest.py` |
| `Sizing`, `MCSizing`, `SizingProofs` | one trade from its sizing to its close under changing settings; instance; theorems | `sizer.py`, `risk_engine.py`, `exchange_filters.py`, `paper_trading.py`, `settings_manager.py`, `dashboard.py:665-677` |
| `SignalEngine`, `MCSignalEngine`, `SignalEngineProofs` | scores, regime gates, cooldown and ids of `evaluate_v2`, the scanner's marks, restarts; instance; theorems | `signal_engine.py`, `regime.py`, `scanner.py:118-226` |
| `Accounts`, `AccountsProofs` | attempts, lockout, sessions, change of the password, restarts; theorems | `auth.py`, `dashboard.py:937-993`, `storage.py:699-743` |
| `Indicators` | the indicators as functions of candles | `indicators.py` |
| `Equity` | figures, snapshots and drawdowns out of the trades | `equity.py` |
| `MCAnalytics`, `AnalyticsProofs` | the two over any kinds of candles, with the properties of the indicators; theorems about both | |
| `MCDashboard` | the instance of `Accounts` and `MCAnalytics`, side by side | |

Definitions keep the names of the functions they model where they can; `PROJECT.json`
maps each to its lines.  Definitions introduced by "Seeded fault" are mutated forms of the
definition below them; no specification uses them, they show that each property would
notice such a fault.

### PaperEngine

A step is one committed SQL statement, or one read together with the decisions taken on it
until the next read or write of shared state.  `pc[a]` says what actor `a` does next:
the worker walks `sleep, recon, sync, check, scan, gate, size, dup, mark, open, insert,
monitor, watch, settle` in the order of `run_cycle`; a handler walks `idle, size, open,
insert, settle`.  Handlers are `async` functions that never await between their reads and
writes, so one event loop is one actor (`Web`), while `def` handlers for halt and resume
run in threads and are environment steps.  `trades`, `nextId`, `seen`, `execSeen` and
`halted` are the database and survive `Crash`; everything else does not.  `CycleFails` is
an exception that leaves `run_cycle`; it ends the worker thread if the heartbeat in the
handler raises as well.  What a scan finds, what the rug check and the sizer's price
conditions decide and what prices do are free choices; `market = "hit"` means that every
ticker is at an exit level.  `late` and the fields `settlers` and `writes` are history and
are read by no guard.

Abstracted: prices, quantities and fees (a close has a result out of `Pnls`); heartbeats,
logs and agent status; the web handler's equity, which the request itself names.  An
INSERT whose commit raises counts as not made, although the statement may become durable
with a later commit on that connection: `Insert` is that outcome.

### LiveExecution

`can_enter`'s four checks, the gate, and the orders are one step each, since each is a call
to the exchange; `GiveUp` is any of them raising or refusing.  An order may be carried out
while its answer is lost.  `pos` counts the entries the position consists of, so that
`OnePosition` says that the engine never adds to one.  One symbol is modelled:
`has_open_position` asks about the account, not about a symbol.

Reconciliation is part of a cycle: `StartCycle` is the loop of `worker.py:93-101`, which
skips the cycle while the kill switch is set; the look at the exchange or a write may raise
(`FetchFails`, `CloseFails`), and after `WorkerDies` no cycle starts until the process
does.  So a row whose position is gone stays OPEN for as long as the halt lasts, and
`RowsCatchUp` says that it is closed in the end if halts end and the thread lives.

### MarketData

Time is counted in limiter intervals, so a request of weight w takes w units.  `ahead` and
`reserved` are history: how much had been reserved before a thread's own reservation.
`refresh_all` is modelled with its three chances at the universe; pool threads fetch
symbols and retry each interval once; a flush may fail in the loop (then the batch is
kept) or at the end (then the refresh reports an error).

### Backtest

Time is counted in entry candles.  What a candle does to a position and whether the engine
finds a setup are free; equity, day start, cooldowns, slices, entries at the next open and
the leftover position are as in the code.  `direct` is a call of `run` with an engine that
has no cooldown, against `walk_forward`, whose engines count theirs by the wall clock: how long
a run takes is open, so the engine may signal again at any candle, and `rests` counts how
often a cooldown must have passed for that.  `CooldownsHold` states both cooldowns, the one
by the candles and the one by the clock.  Candle i of n units opens at i * n and closes at
(i + 1) * n; a trade record carries when its decision was taken, when the last candle
closed that the engine was given of the trend timeframe, and when the last closed that it
looked at, so that `NoLookAhead` is about `htf_slice_upto` and the dropped last candles.

The slices of `walk_forward` all begin at the first candle (`backtest.py:296`), so each
contains the ones before it, although its docstring (`:286`) speaks of out-of-sample
windows.  That can be read off `HEnd` and needs no run.

`curve` is what `_report` makes of the equity curve: its peak and its largest fall.  Most
ways out of a candle add nothing to the curve (`backtest.py:148, 153, 162`), and neither does the
exit at the end of the data; `DrawdownReported` says that the maximum drawdown still
leaves out at most the last trade.

### Sizing

Prices and equity are whole numbers, rates are parts of `Unit`, and every quantity and
amount is an exact fraction, a record of numerator and denominator; the 28 digits of
`Decimal` are not modelled.  `Quantity` is the one of both sizers (`Sizer.calculate` and
`size_position` compute the same): the smaller of what budget and margin allow before
fees, scaled down once when the fees lift the loss over the budget.  The ratio that is
compared with `min_reward_to_risk` does not depend on the quantity, so `RewardSuffices`
speaks of the plan alone.  `Verdict` keeps the order of the early returns; the gates that
read shared state are the free choice `gate`, since `PaperEngine` models them.  A paper
trade is sized, filled and closed at any prices of `Prices`; a live one ends with its
filters, since what follows is `LiveExecution`.

Around the trade the settings change: `live` is the object all threads read, `stored` the
table.  An update sets and stores value by value and stops at the first one that raises;
`PUT /api/sizer/config` sets what it is given without validation; `Restart` starts from
the environment's values and reads back two settings, each of which may fail.  `lost` and
`unchecked` are history: they name the settings that `StoredIsUsed` and `RangesKept` make
an exception of, exactly until the next successful write.

What the model says about the code:

* With the default configuration (`config.py:33, 64-65`) every engine signal has, up to
  the last digit, a gross reward of twice its risk, and `sizer.py:83` asks for at least twice net of fees: by
  default no engine signal becomes a trade (`BareMinimumRefused`, proved for all costs
  above zero; no run checks it).
* In exact arithmetic the checks after the scaling refuse nothing (`LastChecksPass`, proved).
  `risk_engine.py:84` lacks the tolerance of `sizer.py:77`, so that in the live path the
  last digit of a `Decimal` may decide; the model does not say when.
* The sizer takes absolute distances and accepts a plan whose stop and target are on the
  wrong sides; `MCPlans` contains one, and the properties of results except it (`Sided`).
* `close_position` takes the slippage out of both fill prices and `fee_estimate` counts it
  again, while the sizer counted it once: a trade filled and stopped out exactly as planned
  loses more than the 0.5% of `README.md:18`.  The quantity also stays when the fill is at
  another price than the plan.  `LossTraced` accounts for all of the excess: what the fill
  was worse than the entry, the exit worse than the stop, and the slippage of two fills.
* The reward check counts the slippage once and the fees of an exit at the stop, so it alone
  does not make a target pay: without a taker fee, with slippage of 5% and a minimum of 1, a
  LONG 100/99/121 that is filled at 100 and reaches 121 ends with a loss.  `TargetPays` holds
  where the minimum reward is more than what the check leaves out (`CostsCovered`), which
  the defaults (`config.py:31-33`: a minimum of 2, 0.05% each) meet by far.

### SignalEngine

What the candles show is a `View`, a record of comparisons, each for the long side, the
short side or neither.  `Score`, `RejectAll`, `Decide`, `Candidates` and `Best` are the pure
part of `evaluate_v2`; `Decide` promotes both sides and then gates them, in that order.
`volatile` holds the timeframes whose ATR% is above its limit: of the trend timeframe that
is a regime, of the entry timeframe a check of its own.  Strong and weak trends are one
regime, because nothing tells them apart, and `LOW_LIQUIDITY` never arises, because the
volume threshold defaults to 0.  A finding carries the indicators that led to it and not
the regime, so that `SignalsFollowRegime` says from raw indicators what classification,
promotion and gates have to bring about together.  `Findings`
is what all views can lead to, so that an evaluation chooses among findings and not among
views.  `last` and `seenIds` live in memory, `table` is `seen_signals` and survives
`Restart`.  A scan takes no time; `Tick` is time between scans.  The candle a scan sees may
be up to `MaxAge` old, since the cache may lag.  `served` is history: when a signal of the
symbol was last handed on, or lost to an exception that `scan_once` catches.

What the model says about the code:

* Stop and target are rounded to digits of the price and their ratio is compared with the
  number the default multiples make, so that a candidate is refused exactly when rounding
  shortens the target by one unit against twice the stop (`RefusedByRoundingOnly`).  In
  quarter units of ATR that is about one candidate in four.
* Signals without a setup exist; they get the strategy "trend".  `NoSetupIsTrend` says
  what they need instead.
* A LONG against the EMAs of the trend timeframe is possible, in the regime `UNKNOWN` only
  (`SignalsFollowRegime`).
* A restart forgets a cooldown, and a duplicate that the table refuses starts one:
  `CooldownEarned` bounds by how much that can stretch it.

### Accounts

Handlers declared `async` run on the event loop, one at a time from await to await; the
others run in threads.  All share one connection, so there are two versions of the tables:
`conn`, which every statement changes at once, and `disk`, which a commit makes equal to
it.  A commit that raises leaves its statement pending in `conn`, until another handler
commits (`OtherCommit`) or `Restart` falls back to `disk`.  A password is a number that
every change raises.  `asked` holds requests whose session has been looked at and whose
body is awaited: two of them may overlap, and the first ends the session of the second.
`change_password` is `ReplaceUser` and, after its commit, `RevokeSessions`.  `attempts` is
memory.  `unfinished`, `acked`, `ended` and `failures` are history.

What the model says about the code: the session is not looked at again after the await
(`dashboard.py:987`), so that a change is carried out by a session that another change has
just ended; still no session survives (`SessionsFollowPassword`), because each change ends
all of them.  A change cut in half leaves the sessions from before it usable, and is not
completed by a restart: `unfinished` names that exception.  A restart ends a lockout, which
`docs/operations.md:31` documents.

### Indicators and Equity

`Indicators` has one operator per function of `indicators.py`, over candles with whole
prices and results in exact fractions; `None` is `Missing`.  The parts of `signal_engine.py`
that compare indicators are in `SignalEngine`, where what they show is free, so the two
modules do not meet.  `Equity` keeps trades and snapshots; a snapshot reads the trades
first and writes its row later, and may be lost in between.  `MCAnalytics` grows one series
of candles or one history of trades, step by step, and its invariants compare the operators
with reference definitions.

The theorems hold for any kinds of sound candles below any `Top`; the run's are `MCCandles`.
`MCDashboard` sets `Accounts` beside `MCAnalytics`, which share no state: a behaviour is of
one of them and leaves the other as it began, so that no interleavings are explored that
could tell nothing.  Restricted to steps of one side its specification is that side's.

What the models say about the code: `analytics` walks the snapshots from the newest to the
oldest (`equity.py:106`, `storage.py:747`), so that `max_drawdown` is the largest *rise* to
a later snapshot and not the largest fall; `drawdown_series`, which reverses the rows first,
is right (`DrawdownSeen`).  The run `max_drawdown` refutes that the maximum is a fall, and
the theorem `MaxDrawdownIsRise` says what it is instead.  Peaks of zero or less do not count in `analytics`
(`equity.py:120`), and a peak of exactly zero shows no drawdown in the series, so that an
account that has lost everything looks calm; `LargestFall`, `LargestRise` and `DrawdownSeen` count them the same way.  In a market that never moved RSI is 100 for both sides, the only exception of
`MirrorImage`.

## Runs

| run | instance | shows |
|---|---|---|
| `paper_engine` | worker + one event loop, two signals of a symbol, two rows, one crash or failed cycle, halts | each actor has at most one open row, a halt lets each finish at most one entry, and the trades table moves only as `TradeBook` allows |
| `worker` | worker alone, two symbols, any trading mode, fair scheduling | position limit, at-most-once execution, final results, exits honoured across a restart |
| `position_race` | worker + event loop | finding: the position limit is exceeded |
| `daily_loss` | three rows, a limit of two losses | finding: the daily limit never applies |
| `live_execution` | three rows, two crashes, limit 1 | a position is never added to, open rows are protected, rows follow the exchange while cycles run |
| `unprotected` | one row, no restarts | finding: a stop refused with an exception is given up without a halt |
| `market_data` | two pool threads, two symbols, one refresh | requests are paced, "ok" means cached, a refresh ends |
| `backtest` | slices of 4, 6 and 8 trend candles, two entry candles each, two days | books balance, drawdown of all trades but the last, no look-ahead on either timeframe, both cooldowns, daily guard, no trade lost, ends flat |
| `sizing` | seven plans, two equities, six prices, three filters, updates with and without validation | budgets, where a loss beyond the budget comes from, results at unmoved prices; stored settings are used and stay in range |
| `signal_engine` | one symbol, four ticks, one restart, some 7800 views | which signals leave the engine and what silences it |
| `dashboard` | one client, two sessions, two overlapping changes, one restart, three ticks; series of five candles out of five kinds; three trades, four snapshots, the newest three read | sessions follow the password, what was answered ok holds, lockouts hold; symmetry and bounds of the indicators, levels that stay, streaks, peaks and the drawdown series |
| `max_drawdown` | the figures alone | finding: the maximum drawdown is not a fall |

Bounds.  Two rows and two signals are enough for every race of two actors over one check; one
fault of each kind meets every point of a cycle because `Crash` and `CycleFails` are enabled
everywhere; the theorems below do not depend on them. `MaxTrades`, `MaxFaults`, `MaxRows`,
`MaxCrashes`, `MaxRounds`, `MaxIdle` and `MaxScanWeight` bound counters and are guards of
the actions that raise them. In `market_data` a batch is one series (`FlushAt = 1`), so that
a flush can fail inside the loop and at its end; the ticker weighs 2 instead of 40, which
keeps the distinction between light and heavy requests. In `backtest` a loss of 6 out of
1000 needs two losing trades on a day to reach the limit of 1%, and a day has eight entry
candles, so that day changes fall between trades. In `sizing` fees and slippage are 5% each
around a price of 10, so that plans exist whose fees exceed the budget, whose reward fails
only net of fees, and whose quantity is limited by the margin; the theorems hold for all
rates and prices. In `signal_engine` one symbol suffices, because symbols share only a table
of ids that contain the symbol; `MaxAge` is a bound on the age of candles, which the code
does not limit, and `CooldownEarned` is stated relative to it; `Cooldown` 2 and `MaxTime` 4
let a cooldown begin, end and begin anew around a restart. `MCViews` crosses the indicators
that favour one direction with those that can favour both, so that ties, promotions of both
sides and every gate occur. In `dashboard` a third session or change, or a second client, would
repeat what is there: sessions are told apart by being the one that asked or another, clients share
nothing, and the theorems hold for any number of each; a lifetime of 1, a lockout of 2 and three
ticks let both pass, and a lock be set again. `SYMMETRY` swaps sessions and requests, which
no definition tells apart. Five candles are the
shortest series for which ADX of period 2, the slowest indicator, has a value, and two more
than a level needs; the five kinds of candles include no volume, no range, a gap and growth
on both sides alike (what is proved holds for any sound candles, and of averages and shares
for any period), and a starting equity of 4 against losses of 2 falls to zero and below. `MaxTime`, `MaxChanges`, `MaxRestarts`, `MaxCandles`, `MaxTrades` and
`MaxSnaps` are guards of the actions that raise them. `CHECK_DEADLOCK FALSE` is set where
the model really stops: refreshes and backtests are finite, and the clock and the histories
of `dashboard` end at their bounds.

Fairness.  `WF_vars(WorkerNext)`: the interpreter keeps scheduling the worker thread;
operators, requests, crashes and markets owe nothing.  `LiveExecution`: `WF_vars(EngineNext)`, a
call returns or raises; `SF_vars(StartCycle)`, the loop comes round again whenever it may,
which it may not while the kill switch is set or the thread is gone; `SF_vars(FetchPositions)`
and `SF_vars(CloseRows)`, among infinitely many cycles some have their look at the exchange
answered, and of these some have their writes done.  `RowsCatchUp` therefore promises
nothing for behaviours in which the switch is set again and again or the thread stays dead.  `MarketData`: threads run, sleeps end, calls return or raise (the
client has timeouts).  `Backtest`: sequential code.

## Findings

Each is a run TLC refutes by what the code does, against a line of the repository:

1. `position_race` - `open_position` checks and inserts without a transaction, so the
   worker and a handler can both open (README promises hard position limits).
2. `daily_loss` - `record_trade_result` has no caller, so the daily loss stays 0.
3. `unprotected` - a stop order refused with an exception is not treated as a failed stop:
   the trace enters, has its stop refused, and is done without a halt.
4. `max_drawdown` - the drawdown loop of `analytics` gets the newest snapshot first, so that
   a fall from 4 to 2 gives a maximum drawdown of 0.

Further disagreements show in properties that state what the code does instead:

* A row may appear after the kill switch is set, since it is read before the sizer and not
  again, while `README.md:39` says that it "blocks new execution immediately".
  `HaltBoundsEntries` is what holds: one row per actor.
* A planned stop-out costs more than the budget (`LossTraced`, above).
* The slices of `walk_forward` contain each other (`HEnd`, above).

## Proofs

| theorem | says | rests on |
|---|---|---|
| `TypeCorrect` | type correctness of `PaperEngine` | `TypeOK /\ Held`: the worker holds a signal exactly in the steps of an attempt |
| `RowsCorrect`, `OneOpen` | an actor never has two open rows | `RowInv`: fresh ids above `nextId`, an actor between its look and its insert has no open row, an actor about to settle has not settled that row |
| `HaltBounds` | at most one entry per actor after a halt | `HaltInv`: an actor that has used it is not committed to another |
| `OnceOnly` | a signal becomes at most one row | `SignalInv`: a signal that may still be executed has no row, and one that has is marked in one of the two tables |
| `Refinement` | `PaperEngine` implements `TradeBook` | `RowInv` |
| `WorkerKeepsLimit`, `WorkerResultFinal` | with `Web = {}` the position limit and the finality of results hold | `RowInv` |
| `LiveTypeCorrect`, `SinglePosition`, `OpenRowsProtected` | types; never adds to a position; open rows have their stop | `PositionInv` (between the look and the entry the position is flat) and `EntryInv` (the stop and the row of the entry under way) |
| `StoredUsed`, `InRange` | `StoredIsUsed`, `RangesKept`, for any settings and ranges | `SettingsInv`: what is stored and checked is in range, so that reloading it keeps both |
| `Sizing`'s `TypeCorrect`, `RiskBounded`, `RiskUsed`, `LastChecksDead`, `BareMinimumNeverTraded` | types; the budget and the margin hold and are used up; no late refusals; bare minimum refused | `TradeInv`: what an approved trade remembers of its verdict, with lemmas on fractions (`ScalingIsQuotient`: one scaling is the quotient of budget and unit loss) |
| `NoIdleCooldown` | `CooldownEarned` for any symbols, views and times | `CooldownInv`: an id in the table was served or is in its scan, so that a cooldown begun by a duplicate has been earned before |
| `RewardRefusalsAreRounding` | `RefusedByRoundingOnly` for every ATR | arithmetic of rounding half to even |
| `SignalEngine`'s `RegimeFollowed`, `TrendNeedsTrend` | `SignalsFollowRegime` for any indicators; `NoSetupIsTrend` for a threshold above 70 | what a scan holds is a finding, and a finding is a candidate: nothing rejected it before the scores, and its promotion passed the gates (`CandidatePassesGates`); without a setup and one of the two trends all other points make at most 70 |
| `NothingAhead`, `TradesRested`, `NoTradeLost` | `NoLookAhead`; `CooldownsHold`; no trade is displaced | `IInv` of `BacktestProofs`: times of trades are ordered, an open trade was entered by the candle at hand, decisions are no later than the last signal, and with its own engine there are as many trades as cooldowns passed, and one more once the engine is not ready; for the slices, division with remainder |
| `AllAccounted`, `DaysGuarded`, `DrawdownOfTrades` | `Accounting`, `DailyLossGuard` and `DrawdownReported` for any candles, days and results | `Ledger`: the equity is that after all trades, the day's first equity is what the exits of earlier days left, every decision was taken within the limit of its day, and the curve follows all trades or all but the last |
| `OkIsCached` | `OkMeansCached` for any batch size | `Kept`: what was fetched in this round is in the cache, in the batch not yet saved, or with a thread or the results that still have to be collected |
| `ReconcilesSoundly` | `ReconcileSound` | `SnapshotInv`: what the exchange answered about a missing position still holds when `reconcile` acts on it |
| `RateKept` | `AverageRate` for any threads and weights | `RateInv`: reservations are disjoint ranges of units, and what has gone out is units below the clock but for one request |
| `LossExplained`, `TargetsPay` | `LossTraced`; `TargetPays` where `CostsCovered` | `Settled`: the result of a closed trade is its quantity's share of what `close_position` pays for a unit; then arithmetic of one unit, scaled |
| `DrawdownsSeen`, `MaxDrawdownIsRise`, `StreaksAreLongest` | `DrawdownSeen`; what the maximum drawdown is; `StreaksFound`, for every history | types are inductive; the loops are followed turn by turn: `Fallen` (the highest so far, the largest difference below a value above zero) and `Counted` (the row at hand, the longest so far), where a row of the order is a set of trades with none closed in between (`PlacesInRow`) |
| `LevelsKept`, `SwingLevelsFollow` | `LevelsStay`; the same for any candles, neighbourhood and number of levels | `Grow`: a candle more completes the neighbourhood of one candle, which comes after all others |
| `IndicatorsBounded` | `Bounded` for series of any length; `SoundBounded` says the same of any series of sound candles, `EmaHeld`, `WilderHeld`, `GapShrinks` and `AdxShare` of any period | an average of values is held by them: one is not above it and one is not below |
| `MirroredAlike` | `MirrorImage` for series of any length; `SoundMirror` for any series of sound candles, `RsiOpposite` for any period above one | opposite sequences: what each function makes of a sequence and of what is left of it to the top |
| `GcdScaled`, `SameFrac` | Euclid's recursion answers what it should; two fractions are one value exactly when they are equal as numbers | induction over the second number, through the smallest counterexample |
| `StepsRunOut` | a backtest has a bound on its steps from the start, each step uses one up, and with none left the last slice is through and no trade is open | `IInv` of `BacktestProofs`; `StepsLeft` counts the candles of the run under way and the longest run for each to come |
| `LockoutKept` | `LockoutHolds` | the failures since the count began are the last ones of the history, and those before are a lockout older |
| `SessionsKept` | `SessionsFollowPassword` | `Followers`: between two changes, in the connection and in the file alike, every session that is not revoked is of the current password or from before an unfinished change |
| `AcknowledgedKept` | `AcknowledgedHolds` | passwords only grow, and a pending statement never takes a revocation back |
| `TypeCorrect` of `MarketData`, `Backtest`, `SignalEngine`; `AccountTypes` | types | - |
| `RequestsPaced` | `Paced` for any threads and weights | `Disjoint`: what a sleeping thread has ahead of it ends at its slot, and everything reserved ends at `nextAt` |

Strengthenings are needed because the properties speak of rows or counters, while what
protects them is where each actor stands: `OneOpenPerActor` alone says nothing of an actor
that has already looked and not yet inserted.  The assumptions are the constants' types
(`ASSUME`s of the modules, evaluated by TLC in every run), the distinctness of actors, and
where the theorems state them `Web = {}`, `MaxPositions = 1`, costs above zero and
`CostsCovered`, which `MCSizing` assumes as well so that TLC evaluates it.

What folds over data compute is proved without induction over data.  The sum over a set is
characterised by one equation, that it is one term and the sum of the others, and the
equation by induction over the finite subsets (`SumEquation`, `Subsets`: a set that is not
in the set of good ones has a smallest such subset).  A fold over a sequence is a fold over
its indices from the last one on, so one turn after the turns before (`FallEquation`,
`CountEquation`); from there on it is a loop with an invariant, and `Turns` counts it.  This
is why `Ordered` and `InOrder` choose the row that is in order instead of sorting: the
provers know no definition of `SortSeq` or `SelectSeq`.  `AnalyticsTrades` shows that the
run of the analytics is about the specification the theorems are about.

The indicators are exact fractions, so their theorems need to know what lowest terms are.
The argument goes in five steps.  Euclid's recursion `Gcd` divides both numbers, and scaling
both scales it (`GcdScaled`); so `Frac` answers the same for the same number and different
values for different ones (`SameFrac`), and sums, products, quotients and comparisons of
values are those of numbers.  A recursive function or a fold is then followed one value at a
time.  Each average is a mixture of the one before and a value, with weights that sum to
one, so it stays among the values (`EmaHeld`, `WilderHeld`), and of a difference between two
starts each step keeps the same share (`GapShrinks`).  RSI and each directional index divide
a part by a whole, and `Adx` averages such shares (`AdxShare`).  In the mirrored market each
gain is a loss, each high what is left of a low, and ranges are what they were.  A sound
candle has prices above zero and below `Top`, its close between low and high, and any
volume; that the series' candles are sound is the assumption `ShapesType`, for any `Top`.

Only model-checked: liveness (`StopsHonoured`, `RowsCatchUp`, `RefreshEnds`, `Finishes`),
since fairness and ENABLED are out of the prover's reach.  For `Finishes` the theorem
`StepsRunOut` leaves little to the run: that while steps are left one can be taken, and,
by fairness, is.  Every invariant and every action property of the passing runs is the
subject of a theorem above.

What the runs leave to theorems, or to nothing: `paper_engine` stays in paper mode and
`worker` has no handler, so that rows closed by reconciliation while a handler settles them
are covered by `Refinement` alone, which holds for either value of `OtherModes` (the run
with both has 2.3 million states and also passes).  `TradeBook` allows each actor one
settlement of a row, because two actors do settle twice in the code; `BookSpec` bounds
that and does not forbid it, and `ResultFinal` is about the worker alone.
`SessionsFollowPassword` says what is left after overlapping changes of the password; that
the second of them is carried out by a session already revoked is part of the model and no
violation of it.

## Plan

Done: everything in the table of modules, with the theorems above.  Next, in this order:

1. A composition of `SignalEngine` with `Sizing` and the worker of `PaperEngine`, in which
   a plan is what the engine finds.
2. Theorems: a termination measure of a refresh, as `StepsLeft` is of a backtest.
3. The older `evaluate` and `evaluate_klines`, and the choice of symbols in the scanner.

## Not modelled

Worker lock: one `flock`; its result, a single worker, is assumed.  Read API, websocket,
status, logging, Grok client and UI: nothing reads them back.  Rug check: a rating whose
outcome is `RugGate`'s free choice.  Binance client: I/O, whose outcomes are choices of the
modules that call it.  Bollinger bands (a square root), `volume_sma` and percentages of
ATR; groups by symbol and direction and unrealized results of the equity analytics; the
statistics of a backtest's report other than its drawdown.  Rounding of `Decimal` to 28
digits, everywhere.
