------------------------- MODULE SignalEngineProofs -------------------------
(***************************************************************************)
(* Theorems about SignalEngine: how far a cooldown can outlast what it was *)
(* for, what the reward check can refuse, and which signals leave.         *)
(***************************************************************************)
EXTENDS SignalEngine, TLAPS

\* Twice a rounded distance exceeds the rounded double by at most one digit.
LEMMA RoundingCostsOneDigit ==
  ASSUME NEW atr \in Nat
  PROVE  /\ StopDistance(atr) \in Nat /\ TargetDistance(atr) \in Nat
         /\ TargetDistance(atr) >= 2 * StopDistance(atr) - 1
BY DEF StopDistance, TargetDistance, RoundHalfEven

\* The reward check refuses only a target one digit short of twice the risk.
LEMMA RefusalsByRounding ==
  ASSUME NEW found \in Findings, found.target < 2 * found.stop
  PROVE  found.target = 2 * found.stop - 1
<1>1. PICK v \in Views : found = Finding(v)
  BY DEF Findings
<1>2. v.atr \in Nat
  BY ViewsType DEF View
<1>3. found.stop = StopDistance(v.atr) /\ found.target = TargetDistance(v.atr)
  BY <1>1 DEF Finding
<1>4. /\ StopDistance(v.atr) \in Nat /\ TargetDistance(v.atr) \in Nat
      /\ TargetDistance(v.atr) >= 2 * StopDistance(v.atr) - 1
  BY <1>2, RoundingCostsOneDigit
<1>5. /\ found.stop \in Nat /\ found.target \in Nat
      /\ found.target >= 2 * found.stop - 1
  BY <1>3, <1>4
<1> QED
  BY <1>5

\* How a step can end a scan with a reason.
LEMMA ReasonStep ==
  ASSUME RefusedByRoundingOnly, [Next]_vars
  PROVE  RefusedByRoundingOnly'
<1>1. ASSUME NEW s \in Symbols, NEW c \in Candles, NEW found \in Findings,
             Evaluate(s, c, found)
      PROVE  RefusedByRoundingOnly'
  <2>1. CASE scan' = InProgress(s, c, found)
    BY <2>1 DEF InProgress, RefusedByRoundingOnly
  <2>2. ASSUME NEW why \in {"cooldown", "stop", "reward", "duplicate"},
               scan' = Ended(why, found.stop, found.target),
               why = "reward" => found.target < 2 * found.stop
        PROVE  RefusedByRoundingOnly'
    BY <2>2, RefusalsByRounding DEF Ended, NothingFound, RefusedByRoundingOnly
  <2> QED
    BY <1>1, <2>1, <2>2 DEF Evaluate
<1>2. ASSUME NEW why, why # "reward", End(why)
      PROVE  RefusedByRoundingOnly'
  BY <1>2 DEF End, Ended, RefusedByRoundingOnly
<1>3. CASE MarkSeen
  BY <1>3 DEF MarkSeen, RefusedByRoundingOnly
<1>4. CASE Duplicate \/ HandOn \/ Restart
  BY <1>2, <1>4 DEF Duplicate, HandOn, Restart
<1>5. CASE Tick \/ UNCHANGED vars
  BY <1>5 DEF Tick, vars, RefusedByRoundingOnly
<1> QED
  BY <1>1, <1>3, <1>4, <1>5 DEF Next

\* For any candles, the default multiples meet the default reward but for the
\* last digit: whatever the reward check refuses, it refuses for rounding.
THEOREM RewardRefusalsAreRounding == Spec => []RefusedByRoundingOnly
<1>1. Init => RefusedByRoundingOnly
  BY DEF Init, Ended, RefusedByRoundingOnly
<1> QED
  BY <1>1, ReasonStep, PTL DEF Spec

-----------------------------------------------------------------------------
(* Cooldowns                                                               *)

Times ==
  /\ now \in Nat \ {0}
  /\ last \in [Symbols -> Nat] /\ served \in [Symbols -> Nat]
  /\ \A s \in Symbols : last[s] <= now /\ served[s] <= now

\* A scan in progress started the cooldown of its symbol just now.
ScanInv ==
  /\ scan.phase \in Phases
  /\ ~ Idle => /\ scan.symbol \in Symbols
               /\ scan.candle \in 1 .. now /\ now - scan.candle <= MaxAge
               /\ last[scan.symbol] = now

\* The symbol of a marked id was served after the candle of the id had closed,
\* unless the id is just being handed on.
Marked(id) == served[id[1]] # 0 /\ id[4] <= served[id[1]]
TableInv ==
  \A id \in table :
    /\ id[1] \in Symbols /\ id[4] \in 1 .. now
    /\ Marked(id) \/ (scan.phase = "recorded" /\ id = ScanId)

Earned(s) == served[s] # 0 /\ last[s] - served[s] <= MaxAge
EarnedInv ==
  \A s \in Symbols : last[s] # 0 => Earned(s) \/ (~ Idle /\ s = scan.symbol)

CooldownInv == Times /\ ScanInv /\ TableInv /\ EarnedInv

\* The four parts are kept together: a duplicate is refused because the table
\* knows its id, and then the table tells when the symbol was served.
LEMMA CooldownStep ==
  ASSUME CooldownInv, [Next]_vars
  PROVE  CooldownInv'
<1> USE TimesType DEF CooldownInv
<1>1. ASSUME NEW s \in Symbols, NEW c \in Candles, NEW found \in Findings,
             Evaluate(s, c, found)
      PROVE  CooldownInv'
  <2>1. Idle /\ UNCHANGED <<now, table, served, restarts>>
    BY <1>1 DEF Evaluate
  <2>2. \A id \in table : Marked(id)
    BY <2>1 DEF TableInv, Idle
  <2>3. c \in 1 .. now /\ now - c <= MaxAge
    BY DEF Candles
  <2>4. CASE scan'.phase = "idle" /\ UNCHANGED last
    BY <2>1, <2>2, <2>4
       DEF Times, ScanInv, TableInv, EarnedInv, Marked, Earned, Idle, Phases
  <2>5. CASE /\ scan' = InProgress(s, c, found)
             /\ last' = [last EXCEPT ![s] = now]
    <3>1. scan'.phase = "emitted" /\ scan'.symbol = s /\ scan'.candle = c
      BY <2>5 DEF InProgress
    <3>2. Times'
      BY <2>1, <2>5 DEF Times
    <3>3. ScanInv'
      BY <2>1, <2>3, <2>5, <3>1 DEF ScanInv, Idle, Phases, Times
    <3>4. TableInv'
      BY <2>1, <2>2 DEF TableInv, Marked
    <3>5. EarnedInv'
      BY <2>1, <2>5, <3>1 DEF EarnedInv, Earned, Idle, Times
    <3> QED
      BY <3>2, <3>3, <3>4, <3>5
  <2> QED
    BY <1>1, <2>4, <2>5 DEF Evaluate, Ended
<1>2. CASE Duplicate
  <2>1. /\ scan.phase = "emitted" /\ ScanId \in table /\ scan'.phase = "idle"
        /\ UNCHANGED <<now, last, seenIds, table, served, restarts>>
    BY <1>2 DEF Duplicate, End, Ended
  <2>2. \A id \in table : Marked(id)
    BY <2>1 DEF TableInv
  <2>3. Earned(scan.symbol)
    <3>1. Marked(ScanId)
      BY <2>1, <2>2
    <3>2. served[scan.symbol] # 0 /\ scan.candle <= served[scan.symbol]
      BY <3>1 DEF Marked, ScanId, Id
    <3> QED
      BY <2>1, <3>2 DEF ScanInv, Idle, Earned, Times
  <2> QED
    BY <2>1, <2>2, <2>3
       DEF Times, ScanInv, TableInv, EarnedInv, Marked, Earned, Idle, Phases
<1>3. CASE MarkSeen
  <2>1. /\ scan.phase = "emitted" /\ table' \in {table, table \cup {ScanId}}
        /\ UNCHANGED <<now, last, seenIds, served, restarts>>
        /\ scan' = [scan EXCEPT !.phase = "recorded"]
    BY <1>3 DEF MarkSeen
  <2>2. /\ scan'.phase = "recorded" /\ scan'.symbol = scan.symbol
        /\ scan'.candle = scan.candle /\ ScanId' = ScanId
    BY <1>3 DEF MarkSeen, ScanId, Id, ScanInv, Phases
  <2> QED
    BY <2>1, <2>2
       DEF Times, ScanInv, TableInv, EarnedInv, Marked, Earned, Idle, Phases, ScanId, Id
<1>4. CASE HandOn
  <2>1. /\ scan.phase \in {"emitted", "recorded"} /\ scan'.phase = "idle"
        /\ served' = [served EXCEPT ![scan.symbol] = now]
        /\ UNCHANGED <<now, last, seenIds, table, restarts>>
    BY <1>4 DEF HandOn, End, Ended, Serve
  <2>2. scan.symbol \in Symbols
    BY <2>1 DEF ScanInv, Idle
  <2>3. TableInv'
    BY <2>1, <2>2 DEF Times, TableInv, Marked, ScanId, Id
  <2> QED
    BY <2>1, <2>2, <2>3
       DEF Times, ScanInv, EarnedInv, Earned, Idle, Phases
<1>5. CASE Tick
  BY <1>5 DEF Tick, Times, ScanInv, TableInv, EarnedInv, Marked, Earned, Idle
<1>6. CASE Restart
  <2>1. /\ last' = [s \in Symbols |-> 0] /\ scan'.phase = "idle"
        /\ UNCHANGED <<now, table>>
        /\ IF scan.phase = "recorded"
           THEN served' = [served EXCEPT ![scan.symbol] = now] ELSE UNCHANGED served
    BY <1>6 DEF Restart, End, Ended, Serve
  <2>2. Times' /\ ScanInv' /\ EarnedInv'
    BY <2>1 DEF Times, ScanInv, EarnedInv, Idle, Phases
  <2>3. TableInv'
    BY <2>1 DEF Times, ScanInv, TableInv, Marked, Idle, ScanId, Id
  <2> QED
    BY <2>2, <2>3
<1>7. CASE UNCHANGED vars
  <2>1. UNCHANGED <<now, last, table, scan, served>>
    BY <1>7 DEF vars
  <2>2. Times' /\ ScanInv'
    BY <2>1 DEF Times, ScanInv, Idle
  <2>3. TableInv'
    BY <2>1 DEF TableInv, Marked, ScanId, Id
  <2>4. EarnedInv'
    BY <2>1 DEF EarnedInv, Earned, Idle
  <2> QED
    BY <2>2, <2>3, <2>4
<1> QED
  BY <1>1, <1>2, <1>3, <1>4, <1>5, <1>6, <1>7 DEF Next

\* However often the process restarts, whatever marks and results are lost and
\* however old the candles: no symbol is silenced by a cooldown that began
\* later than MaxAge after its signal was handed on or lost.
THEOREM NoIdleCooldown == Spec => []CooldownEarned
<1>1. Init => CooldownInv
  <2>1. ASSUME Init PROVE CooldownInv
    <3>1. Idle
      BY <2>1 DEF Init, Ended, Idle
    <3>2. /\ now = Start /\ table = {}
          /\ last = [s \in Symbols |-> 0] /\ served = [s \in Symbols |-> 0]
      BY <2>1 DEF Init
    <3>3. Times
      BY <3>2, TimesType DEF Times
    <3> QED
      BY <3>1, <3>2, <3>3 DEF CooldownInv, ScanInv, TableInv, EarnedInv, Idle, Phases
  <2> QED
    BY <2>1
<1>2. CooldownInv => CooldownEarned
  BY DEF CooldownInv, EarnedInv, Earned, CooldownEarned
<1> QED
  BY <1>1, <1>2, CooldownStep, PTL DEF Spec

-----------------------------------------------------------------------------
(* Signals                                                                 *)

\* The best candidate is one.
LEMMA BestIsCandidate ==
  ASSUME NEW v \in Views, Candidates(v) # {}
  PROVE  Best(v) \in Candidates(v)
<1>1. Candidates(v) = Sides => Best(v) \in Sides
  BY DEF Best, Sides
<1>2. Candidates(v) # Sides => Best(v) \in Candidates(v)
  BY DEF Best
<1> QED
  BY <1>1, <1>2

\* A side is a candidate only when the market is judged at all, and not against its
\* regime: what is promoted before the gates, the gates still turn down.
LEMMA CandidatePassesGates ==
  ASSUME NEW v \in Views, NEW side \in Candidates(v)
  PROVE  /\ side \in Sides /\ ~ RejectAll(v)
         /\ ~ AgainstRegime(v, side) /\ Score(v, side) >= MinScore
<1>1. /\ side \in Sides /\ ~ RejectAll(v)
      /\ Decide(v)[side] # "REJECTED" /\ Score(v, side) >= MinScore
  BY DEF Candidates
<1> DEFINE promoted == Promote(v, Unpromoted)
<1>2. Decide(v)[side] = IF promoted[side] # "REJECTED" /\ AgainstRegime(v, side)
                        THEN "REJECTED" ELSE promoted[side]
  BY <1>1 DEF Decide, GateByRegime
<1> QED
  BY <1>1, <1>2

\* What is found was found for a side that passes the gates and the threshold.
LEMMA FindingIsCandidate ==
  ASSUME NEW found \in Findings
  PROVE  \E v \in Views : /\ found = Finding(v) /\ found.side = Best(v)
                          /\ Best(v) \in Sides /\ ~ RejectAll(v)
                          /\ ~ AgainstRegime(v, Best(v))
                          /\ Score(v, Best(v)) >= MinScore
<1>1. PICK v \in Views : Candidates(v) # {} /\ found = Finding(v)
  BY DEF Findings
<1>2. Best(v) \in Candidates(v)
  BY <1>1, BestIsCandidate
<1>3. /\ Best(v) \in Sides /\ ~ RejectAll(v)
      /\ ~ AgainstRegime(v, Best(v)) /\ Score(v, Best(v)) >= MinScore
  BY <1>2, CandidatePassesGates
<1> QED
  BY <1>1, <1>3 DEF Finding

\* A direction is found in a calm market only, never against EMAs and slope, and
\* with both of them or in a market that trends.
FollowsRegime(found) ==
  /\ found.volatile = {}
  /\ ~ (found.htf = - found.side /\ found.slope = - found.side)
  /\ (found.htf = found.side /\ found.slope = found.side) \/ found.trending

\* Whatever the indicators show, a finding does.
LEMMA FindingFollows ==
  ASSUME NEW found \in Findings
  PROVE  found.side \in Sides /\ found.setup \in Setups /\ FollowsRegime(found)
<1>1. PICK v \in Views : /\ found = Finding(v) /\ found.side = Best(v)
                         /\ Best(v) \in Sides /\ ~ RejectAll(v)
                         /\ ~ AgainstRegime(v, Best(v))
  BY FindingIsCandidate
<1>2. /\ found.volatile = v.volatile /\ found.htf = v.htfEmas
      /\ found.slope = v.htfSlope /\ found.trending = v.trending
      /\ found.setup = Setup(v, Best(v))
  BY <1>1 DEF Finding
<1>3. found.setup \in Setups
  BY <1>2 DEF Setup, Setups
<1> DEFINE side == Best(v)
<1>4. side \in {1, -1} /\ ~ AgainstRegime(v, side)
  BY <1>1 DEF Sides
<1>5. found.side = side
  BY <1>1
<1> HIDE DEF side
<1>6. v.volatile \subseteq {"htf", "entry"} /\ v.trending \in BOOLEAN
  BY ViewsType DEF View, Timeframes
<1>7. Regime(v) # "HIGH_VOLATILITY" /\ "entry" \notin v.volatile
  BY <1>1 DEF RejectAll
<1>8. "htf" \notin v.volatile
  BY <1>7 DEF Regime
<1>9. v.volatile = {}
  BY <1>6, <1>7, <1>8
<1>10. /\ Regime(v) # "SIDEWAYS"
       /\ side = 1 => Regime(v) # "DOWNTREND"
       /\ side = -1 => Regime(v) # "UPTREND"
  BY <1>4 DEF AgainstRegime
<1>11. /\ ~ (v.htfEmas = - side /\ v.htfSlope = - side)
       /\ (v.htfEmas = side /\ v.htfSlope = side) \/ v.trending
  BY <1>4, <1>8, <1>10 DEF Regime
<1> QED
  BY <1>2, <1>3, <1>4, <1>5, <1>9, <1>11 DEF FollowsRegime, Sides

\* Without a setup, only the trend of both timeframes brings a score above 70.
LEMMA NoSetupNeedsTrend ==
  ASSUME MinScore > 70, NEW found \in Findings, found.setup = "trend"
  PROVE  found.trend
<1>1. PICK v \in Views : /\ found = Finding(v) /\ found.side = Best(v)
                         /\ Best(v) \in Sides /\ Score(v, Best(v)) >= MinScore
  BY FindingIsCandidate
<1> DEFINE side == Best(v)
<1>2. Setup(v, side) = "trend" /\ found.trend = (HtfTrend(v, side) /\ v.emas = side)
  BY <1>1 DEF Finding
<1> HIDE DEF side
<1>3. /\ Points("htf_trend", HtfTrend(v, side)) = (IF HtfTrend(v, side) THEN 20 ELSE 0)
      /\ Points("ema_align", v.emas = side) = (IF v.emas = side THEN 15 ELSE 0)
      /\ Points("setup", Setup(v, side) # "trend") = 0
  BY <1>2 DEF Points, Weight
<1>4. \A b : /\ Points("rsi", b) \in 0 .. 10 /\ Points("macd", b) \in 0 .. 10
             /\ Points("volume", b) \in 0 .. 10 /\ Points("vwap", b) \in 0 .. 10
             /\ Points("adx", b) \in 0 .. 5 /\ Points("candle", b) \in 0 .. 5
  BY DEF Points, Weight
<1>5. Score(v, side) >= MinScore
  BY <1>1 DEF side
<1>6. HtfTrend(v, side) /\ v.emas = side
  <2> DEFINE h == Points("htf_trend", HtfTrend(v, side))
             e == Points("ema_align", v.emas = side)
             r == Points("rsi", v.rsi \in {0, side})
             m == Points("macd", side \in {v.hist, v.histMove})
             o == Points("volume", v.volume)
             w == Points("vwap", v.vwap = side)
             s == Points("setup", Setup(v, side) # "trend")
             a == Points("adx", v.adx)
             c == Points("candle", Rejection(v, side) /\ ~ (v.extended /\ v.body = side))
  <2>1. h + e + r + m + o + w + s + a + c >= MinScore
    BY <1>5 DEF Score, ScoreWith
  <2>2. s = 0 /\ h \in 0 .. 20 /\ e \in 0 .. 15
    BY <1>3
  <2>3. r \in 0 .. 10 /\ m \in 0 .. 10 /\ o \in 0 .. 10 /\ w \in 0 .. 10
        /\ a \in 0 .. 5 /\ c \in 0 .. 5
    BY <1>4
  <2>4. (~ HtfTrend(v, side) => h = 0) /\ (v.emas # side => e = 0)
    BY <1>3
  <2> HIDE DEF h, e, r, m, o, w, s, a, c
  <2>5. h > 0 /\ e > 0
    BY <2>1, <2>2, <2>3, TimesType
  <2> QED
    BY <2>4, <2>5
<1> QED
  BY <1>2, <1>6 DEF side

\* What is typed: the scan in progress is of a symbol and rests on a finding, and the
\* engine remembers when a symbol was last served exactly if it remembers what with.
LEMMA TypeStep == ASSUME TypeOK, [Next]_vars PROVE TypeOK'
<1> USE TimesType
<1>1. ASSUME NEW s \in Symbols, NEW c \in Candles, NEW found \in Findings,
             Evaluate(s, c, found)
      PROVE  TypeOK'
  <2>1. Idle /\ UNCHANGED <<now, table, served, restarts>> /\ Ids' = Ids
    BY <1>1 DEF Evaluate, Ids
  <2>2. ASSUME NEW why \in Reasons, scan' = Ended(why, found.stop, found.target),
               UNCHANGED <<last, seenIds>>
        PROVE  TypeOK'
    BY <2>1, <2>2 DEF TypeOK, Ended, Idle, Phases
  <2>3. CASE /\ scan' = InProgress(s, c, found)
             /\ seenIds' = seenIds \cup {Id(s, c, found)}
             /\ last' = [last EXCEPT ![s] = now]
    <3>1. Id(s, c, found) \in Ids /\ Id(s, c, found)[1] = s
      BY FindingFollows DEF Id, Ids, Candles
    <3>2. now \in Nat /\ now # 0
      BY DEF TypeOK
    <3>3. \A x \in Symbols : last'[x] # 0 <=> \E id \in seenIds' : id[1] = x
      BY <2>3, <3>1, <3>2 DEF TypeOK
    <3>4. scan'.phase = "emitted" /\ scan'.reason = "none" /\ scan'.symbol = s
          /\ scan'.candle = c /\ scan'.found = found
      BY <2>3 DEF InProgress
    <3>5. Findings' = Findings /\ c \in 1 .. now
      BY DEF Findings, Candles
    <3>6. last' \in [Symbols -> Nat] /\ seenIds' \subseteq Ids
      BY <2>3, <3>1, <3>2 DEF TypeOK
    <3> QED
      BY <2>1, <3>3, <3>4, <3>5, <3>6 DEF TypeOK, Phases, Reasons
  <2> QED
    BY <1>1, <2>2, <2>3 DEF Evaluate, Reasons
<1>2. CASE Duplicate
  BY <1>2 DEF Duplicate, End, Ended, TypeOK, Idle, Phases, Reasons, Ids
<1>3. CASE MarkSeen
  <2>1. ScanId \in Ids
    BY <1>3, FindingFollows DEF MarkSeen, TypeOK, Idle, ScanId, Id, Ids
  <2>2. scan'.phase = "recorded" /\ scan'.reason = scan.reason /\ scan'.symbol = scan.symbol
        /\ scan'.candle = scan.candle /\ scan'.found = scan.found
    BY <1>3 DEF MarkSeen
  <2> QED
    BY <1>3, <2>1, <2>2 DEF MarkSeen, TypeOK, Idle, Phases, Ids
<1>4. CASE HandOn
  <2>1. scan.symbol \in Symbols
    BY <1>4 DEF HandOn, TypeOK, Idle
  <2> QED
    BY <1>4, <2>1 DEF HandOn, Serve, End, Ended, TypeOK, Idle, Phases, Reasons, Ids
<1>5. CASE Tick
  BY <1>5 DEF Tick, TypeOK, Idle, Ids
<1>6. CASE Restart
  <2>1. served' \in [Symbols -> Nat]
    BY <1>6 DEF Restart, Serve, TypeOK, Idle
  <2> QED
    BY <1>6, <2>1 DEF Restart, End, Ended, TypeOK, Idle, Phases, Reasons, Ids
<1>7. CASE UNCHANGED vars
  BY <1>7 DEF vars, TypeOK, Idle, Ids
<1> QED
  BY <1>1, <1>2, <1>3, <1>4, <1>5, <1>6, <1>7 DEF Next

\* Every reachable state is well-typed, and memory and cooldown agree.
THEOREM TypeCorrect == Spec => []TypeOK
<1>1. Init => TypeOK
  BY TimesType DEF Init, Ended, TypeOK, Idle, Phases, Reasons, Ids
<1> QED
  BY <1>1, TypeStep, PTL DEF Spec

\* Whatever the candles show and whatever the threshold is: no signal leaves the engine
\* in a volatile market, against EMAs and slope of the trend timeframe, or without
\* either their support or a market that trends.
THEOREM RegimeFollowed == Spec => []SignalsFollowRegime
<1>1. TypeOK => SignalsFollowRegime
  BY FindingFollows DEF TypeOK, Idle, SignalsFollowRegime, FollowsRegime
<1> QED
  BY <1>1, TypeCorrect, PTL

\* With the default weights and any threshold above 70 (the default is 75), a signal
\* without a setup has the trend of both timeframes with it.
THEOREM TrendNeedsTrend == ASSUME MinScore > 70 PROVE Spec => []NoSetupIsTrend
<1>1. TypeOK => NoSetupIsTrend
  BY NoSetupNeedsTrend DEF TypeOK, Idle, NoSetupIsTrend
<1> QED
  BY <1>1, TypeCorrect, PTL
=============================================================================
