---------------------------- MODULE SignalEngine ----------------------------
(***************************************************************************)
(* The scanner and its signal engine: evaluate_v2 scores both directions   *)
(* of a symbol, gates them by the market regime, applies the cooldown and  *)
(* builds a signal; scan_symbol looks its id up, marks it and hands it on. *)
(* The cooldown and the ids the engine has seen live in memory, the marks  *)
(* in the database; the process may restart between any two steps.         *)
(*                                                                         *)
(* What the candles show is a View: comparisons of indicators, each 1 for  *)
(* the long side, -1 for the short side and 0 for neither.  Distances are  *)
(* in units of the last digit a Decimal of the price's size can hold, the  *)
(* ATR in quarters of it.                                                  *)
(***************************************************************************)
EXTENDS Integers

CONSTANTS
  Symbols,
  Views,        \* what candles may show
  MinScore,     \* settings.min_signal_score
  Cooldown,     \* settings.signal_cooldown_seconds
  MaxAge,       \* bound: age of the last completed candle the scanner gets
  Start,        \* time of the first scan; the epoch is at least a cooldown away
  MaxTime,      \* bound on the clock
  MaxRestarts   \* bound on restarts

Sides == {1, -1}      \* LONG and SHORT
Signs == {-1, 0, 1}
Setups == {"breakout", "pullback", "trend"}   \* a breakdown is the short breakout
Regimes == {"HIGH_VOLATILITY", "UPTREND", "DOWNTREND", "SIDEWAYS", "UNKNOWN"}
Timeframes == {"htf", "entry"}

View == [
  usable : BOOLEAN,     \* enough candles, well-formed, no indicator missing
  volatile : SUBSET Timeframes,   \* where ATR% is above its limit
  htfEmas : Signs,      \* HTF: EMA9, 21 and 50 in order
  htfSlope : Signs,     \* HTF: slope of EMA21
  htfPrice : Signs,     \* HTF: close against EMA50
  trending : BOOLEAN,   \* HTF: ADX at least 25
  emas : Signs, price : Signs,   \* the same on the entry timeframe
  rsi : -2 .. 2,        \* below 25, to 50, at 50, to 75, above
  hist : Signs,         \* MACD histogram
  histMove : Signs,     \* and where it moves
  volume : BOOLEAN, vwap : Signs, adx : BOOLEAN,
  broke : Signs,        \* the close crossed the highest or lowest reference
  near : BOOLEAN,       \* price near EMA9, EMA21 or VWAP
  body : Signs, wicks : SUBSET Sides, extended : BOOLEAN,   \* the last candle
  atr : Nat ]

ASSUME ViewsType == \A v \in Views : v \in View
ASSUME TimesType == /\ Cooldown \in Nat /\ MaxAge \in Nat /\ MaxTime \in Nat
                    /\ Start \in Nat \ {0} /\ Start >= Cooldown
                    /\ MinScore \in Nat /\ MaxRestarts \in Nat

VARIABLES
  now,
  last,       \* _last_signal_ts, 0 for none
  seenIds,    \* _seen_ids
  table,      \* seen_signals
  scan,       \* the scan of a symbol: what it found and how far it is
  served,     \* history: when a signal of the symbol was last handed on or lost
  restarts    \* counts restarts up to the bound

vars == <<now, last, seenIds, table, scan, served, restarts>>

-----------------------------------------------------------------------------
(* evaluate_v2: scores                                                     *)

Weight == [htf_trend |-> 20, ema_align |-> 15, rsi |-> 10, macd |-> 10, volume |-> 10,
           vwap |-> 10, setup |-> 15, adx |-> 5, candle |-> 5]

\* classify; strong and weak trends are told apart by nobody.
Regime(v) ==
  IF "htf" \in v.volatile THEN "HIGH_VOLATILITY"
  ELSE IF v.htfEmas = 1 /\ v.htfSlope = 1 THEN "UPTREND"
  ELSE IF v.htfEmas = -1 /\ v.htfSlope = -1 THEN "DOWNTREND"
  ELSE IF v.trending THEN "UNKNOWN" ELSE "SIDEWAYS"

HtfTrend(v, side) == v.htfEmas = side /\ v.htfPrice = side

\* _bullish_rejection and _bearish_rejection
Rejection(v, side) == v.body = side \/ side \in v.wicks

Pullback(v, side) ==
  HtfTrend(v, side) /\ v.near /\ Rejection(v, side) /\ v.price = side

\* The setup, and the strategy a signal without one is given.
Setup(v, side) ==
  IF v.broke = side THEN "breakout" ELSE IF Pullback(v, side) THEN "pullback" ELSE "trend"

\* The points of the checks a direction passes.
Points(check, passed) == IF passed THEN Weight[check] ELSE 0
ScoreWith(v, side, setup) ==
  Points("htf_trend", HtfTrend(v, side)) + Points("ema_align", v.emas = side)
    + Points("rsi", v.rsi \in {0, side}) + Points("macd", side \in {v.hist, v.histMove})
    + Points("volume", v.volume) + Points("vwap", v.vwap = side)
    + Points("setup", setup) + Points("adx", v.adx)
    + Points("candle", Rejection(v, side) /\ ~ (v.extended /\ v.body = side))

\* Seeded fault: a price near the averages counts as a setup.
ScoreNear(v, side) == ScoreWith(v, side, v.broke = side \/ v.near)

Score(v, side) == ScoreWith(v, side, Setup(v, side) # "trend")

\* What evaluate_v2 returns on before it scores anything.
RejectAll(v) == ~ v.usable \/ Regime(v) = "HIGH_VOLATILITY" \/ "entry" \in v.volatile

\* A direction is rejected until it is promoted.
Unpromoted == [side \in Sides |-> "REJECTED"]

Promote(v, decisions) ==
  [side \in Sides |-> IF Score(v, side) >= MinScore THEN "CANDIDATE" ELSE decisions[side]]

\* Regime gating turns candidates down.
AgainstRegime(v, side) ==
  Regime(v) \in {"SIDEWAYS", IF side = 1 THEN "DOWNTREND" ELSE "UPTREND"}
GateByRegime(v, decisions) ==
  [side \in Sides |-> IF decisions[side] # "REJECTED" /\ AgainstRegime(v, side)
                      THEN "REJECTED" ELSE decisions[side]]

\* Seeded fault: gating comes first, finds nothing to reject, and what it
\* should have rejected is promoted.
DecideGatesFirst(v) == Promote(v, GateByRegime(v, Unpromoted))

Decide(v) == GateByRegime(v, Promote(v, Unpromoted))

\* The directions to pick from.
Candidates(v) ==
  IF RejectAll(v) THEN {}
  ELSE {side \in Sides : Decide(v)[side] # "REJECTED" /\ Score(v, side) >= MinScore}

\* The stable sort keeps LONG first among equals.
Best(v) ==
  IF Candidates(v) = Sides
  THEN IF Score(v, -1) > Score(v, 1) THEN -1 ELSE 1
  ELSE CHOOSE side \in Candidates(v) : TRUE

-----------------------------------------------------------------------------
(* evaluate_v2: the signal                                                 *)

\* n / d to the nearest whole number, as Decimal rounds by default.
RoundHalfEven(n, d) ==
  LET q == n \div d
      r == n % d
  IN IF 2 * r > d \/ (2 * r = d /\ q % 2 = 1) THEN q + 1 ELSE q

\* Seeded fault: the stop is set with the multiple of the target.
StopAtTargetMultiple(atr) == RoundHalfEven(3 * atr, 4)

\* sl_atr_mult and tp_atr_mult are 1.5 and 3.0.
StopDistance(atr) == RoundHalfEven(3 * atr, 8)
TargetDistance(atr) == RoundHalfEven(3 * atr, 4)

\* What is known of the best candidate, and what the candles showed.
Finding(v) ==
  LET side == Best(v)
  IN [side |-> side, setup |-> Setup(v, side),
      volatile |-> v.volatile, htf |-> v.htfEmas, slope |-> v.htfSlope,
      trending |-> v.trending,
      trend |-> HtfTrend(v, side) /\ v.emas = side,
      stop |-> StopDistance(v.atr), target |-> TargetDistance(v.atr)]

\* All that candles may lead to.
Findings == {Finding(v) : v \in {w \in Views : Candidates(w) # {}}}

NothingFound == [side |-> 1, setup |-> "trend", volatile |-> {}, htf |-> 1, slope |-> 1,
                 trending |-> TRUE, trend |-> TRUE, stop |-> 0, target |-> 0]

Phases == {"idle", "emitted", "recorded"}
Reasons == {"none", "cooldown", "stop", "reward", "duplicate"}

InProgress(symbol, candle, found) ==
  [phase |-> "emitted", symbol |-> symbol, candle |-> candle, found |-> found,
   reason |-> "none"]

\* No scan in progress; the last one ended for the reason, with these distances.
Ended(reason, stop, target) ==
  [phase |-> "idle", symbol |-> CHOOSE s \in Symbols : TRUE, candle |-> 1,
   found |-> [NothingFound EXCEPT !.stop = stop, !.target = target], reason |-> reason]

Idle == scan.phase = "idle"
Id(symbol, candle, found) == <<symbol, found.side, found.setup, candle>>
ScanId == Id(scan.symbol, scan.candle, scan.found)

\* The candle of the scan: the last one completed, of the entry timeframe or of
\* the one that stands in for it, or an older one if the data is not fresh.
Candles == {c \in 1 .. now : now - c <= MaxAge}

\* Seeded fault: the cooldown starts before the reward is looked at.
EvaluateCooldownFirst(symbol, candle, found) ==
  /\ Idle /\ now - last[symbol] >= Cooldown
  /\ IF found.target < 2 * found.stop
     THEN scan' = Ended("reward", found.stop, found.target)
     ELSE scan' = InProgress(symbol, candle, found)
  /\ last' = [last EXCEPT ![symbol] = now]
  /\ seenIds' = seenIds \cup {Id(symbol, candle, found)}
  /\ UNCHANGED <<now, table, served, restarts>>

\* evaluate_v2 for a symbol whose candles make a candidate; when they make
\* none, nothing changes.  min_reward_to_risk is 2.0.
Evaluate(symbol, candle, found) ==
  LET id == Id(symbol, candle, found)
      reject(reason) == /\ scan' = Ended(reason, found.stop, found.target)
                        /\ UNCHANGED <<last, seenIds>>
  IN /\ Idle
     /\ IF now - last[symbol] < Cooldown THEN reject("cooldown")
        ELSE IF found.stop = 0 THEN reject("stop")
        ELSE IF found.target < 2 * found.stop THEN reject("reward")
        ELSE IF id \in seenIds THEN reject("duplicate")
        ELSE /\ scan' = InProgress(symbol, candle, found)
             /\ seenIds' = seenIds \cup {id}
             /\ last' = [last EXCEPT ![symbol] = now]
     /\ UNCHANGED <<now, table, served, restarts>>

-----------------------------------------------------------------------------
(* scan_symbol, from the signal on                                         *)

End(reason) == scan' = Ended(reason, 0, 0)
Serve == served' = [served EXCEPT ![scan.symbol] = now]

\* is_signal_seen: the table knows the id.
Duplicate ==
  /\ scan.phase = "emitted" /\ ScanId \in table
  /\ End("duplicate")
  /\ UNCHANGED <<now, last, seenIds, table, served, restarts>>

\* mark_signal_seen, which swallows a failing insert.
MarkSeen ==
  /\ scan.phase = "emitted" /\ ScanId \notin table
  /\ scan' = [scan EXCEPT !.phase = "recorded"]
  /\ table' \in {table, table \cup {ScanId}}
  /\ UNCHANGED <<now, last, seenIds, served, restarts>>

\* The result is saved and the signal handed on; or saving it, or looking the
\* id up before, raises, scan_once catches it, and the signal is lost.
HandOn ==
  /\ scan.phase \in {"emitted", "recorded"}
  /\ End("none")
  /\ Serve
  /\ UNCHANGED <<now, last, seenIds, table, restarts>>

\* Time passes between scans; one scan takes no time.
Tick ==
  /\ Idle /\ now < MaxTime
  /\ now' = now + 1
  /\ UNCHANGED <<last, seenIds, table, scan, served, restarts>>

\* The process starts again with an empty engine.
Restart ==
  /\ restarts < MaxRestarts
  /\ restarts' = restarts + 1
  /\ last' = [s \in Symbols |-> 0] /\ seenIds' = {}
  /\ End("none")
  /\ IF scan.phase = "recorded" THEN Serve ELSE UNCHANGED served
  /\ UNCHANGED <<now, table>>

Init ==
  /\ now = Start
  /\ last = [s \in Symbols |-> 0] /\ seenIds = {} /\ table = {}
  /\ scan = Ended("none", 0, 0)
  /\ served = [s \in Symbols |-> 0]
  /\ restarts = 0

Next ==
  \/ \E s \in Symbols, c \in Candles, found \in Findings : Evaluate(s, c, found)
  \/ Duplicate \/ MarkSeen \/ HandOn
  \/ Tick
  \/ Restart

Spec == Init /\ [][Next]_vars

-----------------------------------------------------------------------------
(* Properties                                                              *)

Ids == Symbols \X Sides \X Setups \X (1 .. now)

\* Types; and the engine remembers when a symbol was last served exactly if it
\* remembers what with.
TypeOK ==
  /\ now \in Start .. Start + MaxTime
  /\ last \in [Symbols -> Nat] /\ served \in [Symbols -> Nat]
  /\ seenIds \subseteq Ids /\ table \subseteq Ids
  /\ scan.phase \in Phases /\ scan.reason \in Reasons
  /\ ~ Idle => scan.symbol \in Symbols /\ scan.candle \in 1 .. now /\ scan.found \in Findings
  /\ restarts \in 0 .. MaxRestarts
  /\ \A s \in Symbols : last[s] # 0 <=> \E id \in seenIds : id[1] = s

\* A cooldown is never for nothing: a signal of the symbol was handed on, or
\* lost in a failing step, at most the age of a candle before it began.  A
\* restart forgets the cooldown, and a duplicate the table then refuses starts
\* it anew: this bounds by how much that stretches it.
CooldownEarned ==
  Idle => \A s \in Symbols : last[s] # 0 => served[s] # 0 /\ last[s] - served[s] <= MaxAge

\* From the indicators to the signal: none leaves the engine when either
\* timeframe is volatile, none against the EMAs and their slope on the trend
\* timeframe, and none unless both are with it or the ADX says that the market
\* trends at all.  The regime, the promotion of scored directions and the gates
\* after it have to bring that about together.
SignalsFollowRegime ==
  scan.phase # "idle" =>
    LET found == scan.found
    IN /\ found.volatile = {}
       /\ ~ (found.htf = - found.side /\ found.slope = - found.side)
       /\ (found.htf = found.side /\ found.slope = found.side) \/ found.trending

\* A signal without a breakout or a pullback (strategy "trend") has the trend
\* of both timeframes with it: with the default weights and threshold no other
\* checks make up for that.
NoSetupIsTrend ==
  (scan.phase # "idle" /\ scan.found.setup = "trend") => scan.found.trend

\* The reward check refuses only what rounding has cost the last digit: with
\* the default multiples the reward is twice the risk before that.
RefusedByRoundingOnly ==
  scan.reason = "reward" => scan.found.target = 2 * scan.found.stop - 1
=============================================================================
