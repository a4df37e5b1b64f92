----------------------------- MODULE MarketData -----------------------------
(***************************************************************************)
(* Market data ingestion: WeightLimiter, shared by a refresher thread, the *)
(* pool of threads it fetches with and the scanning worker; and            *)
(* MarketDataService, which keeps the symbol universe and the candle cache *)
(* that the scanner reads.                                                 *)
(*                                                                         *)
(* Time is counted in units of the limiter's interval, so that a request   *)
(* of weight w takes w units.  Restarts are left out: nothing here relies  *)
(* on what they lose.                                                      *)
(***************************************************************************)
EXTENDS Integers, FiniteSets

CONSTANTS
  Pool,          \* the executor's threads
  Refresher,     \* the market-data thread
  Scanner,       \* the worker thread, which reads the universe
  Symbols,       \* what the exchange may list
  Intervals,     \* the candle intervals kept
  TickerWeight,  \* weight of the 24h ticker, 40
  FlushAt,       \* series that make a batch, 200
  MaxRounds,     \* bound: refreshes
  MaxIdle,       \* bound: how long time goes on while nobody sleeps
  MaxScanWeight  \* bound: weight reserved from which on the scanner asks no more

ASSUME ThreadsDiffer == Refresher # Scanner /\ {Refresher, Scanner} \cap Pool = {}
ASSUME WeightType == TickerWeight \in Nat \ {0}
ASSUME MarketBounds ==
  /\ FlushAt \in Nat \ {0} /\ MaxRounds \in Nat
  /\ MaxIdle \in Nat /\ MaxScanWeight \in Nat

VARIABLES
  now,       \* the monotonic clock
  nextAt,    \* WeightLimiter._next_at
  due,       \* thread -> the slot it sleeps towards
  pc,        \* thread -> needs a slot, sleeps towards it, or calls the exchange
  ask,       \* thread -> what the call is
  chances,   \* tries at the universe the thread has left, this one included
  universe,  \* table market_universe
  cache,     \* table market_candles: series -> the refresh it was fetched in
  status,    \* market_meta last_refresh_status
  stage,     \* where the refresher is
  round,     \* the refresh it is at
  todo,      \* symbols refresh_all works on and no thread has taken
  job,       \* pool thread -> symbol, intervals left, failed tries, series got
  results,   \* finished futures: symbol and intervals got
  pending,   \* series to flush
  reserved,  \* history: weight of all reservations
  ahead,     \* history: thread -> reserved before its own reservation
  sent,      \* history: weight of the requests sent
  fetched    \* history: series got in this refresh

limiter == <<now, nextAt, due, reserved, ahead, sent>>
tables == <<universe, cache, status>>
batch == <<todo, job, results, pending, fetched>>
vars == <<limiter, pc, ask, chances, tables, stage, round, batch>>

Threads == Pool \cup {Refresher, Scanner}
Series == Symbols \X Intervals
Job(symbol, intervals, got) ==
  [symbol |-> symbol, intervals |-> intervals, tries |-> 0, got |-> got]
NoJob == Job({}, {}, {})
Weight(a) == IF ask[a] = "ticker" THEN TickerWeight ELSE 1
Later(x, y) == IF x > y THEN x ELSE y

TypeOK ==
  /\ now \in Nat /\ nextAt \in Nat /\ reserved \in Nat /\ sent \in Nat
  /\ due \in [Threads -> Nat] /\ ahead \in [Threads -> Nat]
  /\ pc \in [Threads -> {"idle", "need", "asleep", "call"}]
  /\ ask \in [Threads -> {"info", "ticker", "klines"}]
  /\ chances \in 0 .. 3
  /\ universe \subseteq Symbols
  /\ cache \in [Series -> Nat]
  /\ status \in {"none", "ok", "error"}
  /\ stage \in {"wait", "universe", "fetch", "dead"}
  /\ round \in Nat
  /\ todo \subseteq Symbols
  /\ job \in [Pool -> [symbol : SUBSET Symbols, intervals : SUBSET Intervals,
                       tries : 0 .. 1, got : SUBSET Intervals]]
  /\ results \subseteq Symbols \X SUBSET Intervals
  /\ pending \subseteq Series /\ fetched \subseteq Series

\* The worker has tried refresh_universe once, before it started the refresher.
Init ==
  /\ now = 0 /\ nextAt = 0 /\ reserved = 0 /\ sent = 0
  /\ due = [a \in Threads |-> 0] /\ ahead = [a \in Threads |-> 0]
  /\ pc = [a \in Threads |-> "idle"]
  /\ ask = [a \in Threads |-> "klines"]
  /\ chances = 0
  /\ universe \in {{}, Symbols}
  /\ cache = [x \in Series |-> 0]
  /\ status = "none"
  /\ stage = "wait" /\ round = 0
  /\ todo = {} /\ job = [f \in Pool |-> NoJob] /\ results = {} /\ pending = {}
  /\ fetched = {}

-----------------------------------------------------------------------------
(* WeightLimiter                                                           *)

\* Seeded fault: the next slot is counted from the clock.
ReserveFromNow(a) ==
  /\ pc[a] = "need"
  /\ LET slot == Later(now, nextAt) IN
       /\ due' = [due EXCEPT ![a] = slot]
       /\ nextAt' = now + Weight(a)
  /\ ahead' = [ahead EXCEPT ![a] = reserved]
  /\ reserved' = reserved + Weight(a)
  /\ pc' = [pc EXCEPT ![a] = "asleep"]
  /\ UNCHANGED <<now, sent, ask, chances, tables, stage, round, batch>>

\* acquire, under its lock: the next free slot, and the one after it for others.
Reserve(a) ==
  /\ pc[a] = "need"
  /\ LET slot == Later(now, nextAt) IN
       /\ due' = [due EXCEPT ![a] = slot]
       /\ nextAt' = slot + Weight(a)
  /\ ahead' = [ahead EXCEPT ![a] = reserved]
  /\ reserved' = reserved + Weight(a)
  /\ pc' = [pc EXCEPT ![a] = "asleep"]
  /\ UNCHANGED <<now, sent, ask, chances, tables, stage, round, batch>>

\* The sleep is over, at the slot or later, and the request goes out.
Wake(a) ==
  /\ pc[a] = "asleep"
  /\ due[a] <= now
  /\ pc' = [pc EXCEPT ![a] = "call"]
  /\ due' = [due EXCEPT ![a] = 0]
  /\ ahead' = [ahead EXCEPT ![a] = 0]
  /\ sent' = sent + Weight(a)
  /\ UNCHANGED <<now, nextAt, reserved, ask, chances, tables, stage, round, batch>>

\* Time passes.
Tick ==
  /\ now < MaxIdle \/ \E a \in Threads : pc[a] = "asleep" /\ now < due[a]
  /\ now' = now + 1
  /\ UNCHANGED <<nextAt, due, reserved, ahead, sent, pc, ask, chances, tables, stage,
                 round, batch>>

-----------------------------------------------------------------------------
(* The universe: refresh_universe, get_universe, the head of refresh_all    *)

\* Thread a begins refresh_universe: exchangeInfo first.
AskInfo(a) ==
  /\ pc' = [pc EXCEPT ![a] = "need"]
  /\ ask' = [ask EXCEPT ![a] = "info"]

\* refresh_all goes on with these symbols.
FetchAll(symbols) ==
  /\ stage' = "fetch"
  /\ todo' = symbols
  /\ chances' = 0

\* The scanner finds no symbols and asks for them itself.
ScannerUniverse ==
  /\ pc[Scanner] = "idle"
  /\ universe = {}
  /\ reserved < MaxScanWeight
  /\ AskInfo(Scanner)
  /\ UNCHANGED <<limiter, chances, tables, stage, round, batch>>

\* refresh_all begins: without symbols get_universe asks first, with old ones
\* refresh_all does, with others nobody.
StartRefresh ==
  /\ stage = "wait"
  /\ round < MaxRounds
  /\ round' = round + 1
  /\ fetched' = {}
  /\ \/ /\ AskInfo(Refresher)
        /\ chances' = IF universe = {} THEN 3 ELSE 2
        /\ stage' = "universe"
        /\ todo' = universe
     \/ universe # {} /\ FetchAll(universe) /\ UNCHANGED <<pc, ask>>
  /\ UNCHANGED <<limiter, tables, job, results, pending>>

\* exchangeInfo lists symbols; the tickers are next.
InfoAnswers(a) ==
  /\ pc[a] = "call" /\ ask[a] = "info"
  /\ pc' = [pc EXCEPT ![a] = "need"]
  /\ ask' = [ask EXCEPT ![a] = "ticker"]
  /\ UNCHANGED <<limiter, chances, tables, stage, round, batch>>

\* The tickers came or not; the universe is replaced, in one transaction.
SaveUniverse(a) ==
  /\ pc[a] = "call" /\ ask[a] = "ticker"
  /\ pc' = [pc EXCEPT ![a] = "idle"]
  /\ \E rows \in SUBSET Symbols \ {{}} :
       /\ universe' = rows
       /\ IF a = Refresher THEN FetchAll(rows) ELSE UNCHANGED <<stage, todo, chances>>
  /\ UNCHANGED <<limiter, ask, cache, status, round, job, results, pending, fetched>>

\* Seeded fault: the exception ends the thread.
UniverseUncaught(a) ==
  /\ pc[a] = "call" /\ ask[a] \in {"info", "ticker"}
  /\ pc' = [pc EXCEPT ![a] = "idle"]
  /\ UNCHANGED <<limiter, ask, chances, tables, stage, round, batch>>

\* refresh_universe raises.  The scanner goes without; refresh_all, at its second
\* chance, goes on with the list it read or now finds, and else asks a last time.
UniverseFails(a) ==
  /\ pc[a] = "call" /\ ask[a] \in {"info", "ticker"}
  /\ \/ /\ a = Refresher
        /\ chances = 3 \/ (chances = 2 /\ todo \cup universe = {})
        /\ AskInfo(a)
        /\ chances' = chances - 1
        /\ UNCHANGED <<stage, todo>>
     \/ /\ a = Refresher
        /\ chances = 1 \/ (chances = 2 /\ todo \cup universe # {})
        /\ FetchAll(IF chances = 1 \/ todo # {} THEN todo ELSE universe)
        /\ pc' = [pc EXCEPT ![a] = "idle"]
        /\ UNCHANGED ask
     \/ /\ a = Scanner
        /\ pc' = [pc EXCEPT ![a] = "idle"]
        /\ UNCHANGED <<ask, chances, stage, todo>>
  /\ UNCHANGED <<limiter, tables, round, job, results, pending, fetched>>

-----------------------------------------------------------------------------
(* The candles: _fetch_symbol and the rest of refresh_all                   *)

\* A pool thread takes a symbol.
TakeSymbol(f) ==
  /\ stage = "fetch" /\ pc[f] = "idle"
  /\ \E s \in todo :
       /\ todo' = todo \ {s}
       /\ job' = [job EXCEPT ![f] = Job({s}, Intervals, {})]
  /\ pc' = [pc EXCEPT ![f] = "need"]
  /\ ask' = [ask EXCEPT ![f] = "klines"]
  /\ UNCHANGED <<limiter, chances, tables, stage, round, results, pending, fetched>>

\* The thread is done with interval i, having got its series or not: it turns to
\* the next interval or hands in its result.
NextInterval(f, i, got) ==
  LET rest == job[f].intervals \ {i} IN
    IF rest # {}
    THEN /\ job' = [job EXCEPT ![f] = Job(@.symbol, rest, got)]
         /\ pc' = [pc EXCEPT ![f] = "need"]
         /\ UNCHANGED results
    ELSE /\ results' = results \cup (job[f].symbol \X {got})
         /\ job' = [job EXCEPT ![f] = NoJob]
         /\ pc' = [pc EXCEPT ![f] = "idle"]

\* The candles of an interval, or an empty list.
KlinesAnswer(f) ==
  /\ pc[f] = "call"
  /\ \E i \in job[f].intervals :
       \E new \in {{}, {i}} :
         /\ NextInterval(f, i, job[f].got \cup new)
         /\ fetched' = fetched \cup (job[f].symbol \X new)
  /\ UNCHANGED <<limiter, ask, chances, tables, stage, round, todo, pending>>

\* A request raises: it is tried once more, then the interval is given up.
KlinesFail(f) ==
  /\ pc[f] = "call"
  /\ \/ /\ job[f].tries = 0
        /\ job' = [job EXCEPT ![f].tries = 1]
        /\ pc' = [pc EXCEPT ![f] = "need"]
        /\ UNCHANGED results
     \/ /\ job[f].tries = 1
        /\ \E i \in job[f].intervals : NextInterval(f, i, job[f].got)
  /\ UNCHANGED <<limiter, ask, chances, tables, stage, round, todo, pending, fetched>>

\* save_market_candles_bulk, in one transaction.
Save(series) == cache' = [x \in Series |-> IF x \in series THEN round ELSE cache[x]]

\* Seeded fault: the batch is cleared whether it was saved or not.
CollectCleared(r) ==
  /\ stage = "fetch" /\ r \in results
  /\ results' = results \ {r}
  /\ LET series == pending \cup ({r[1]} \X r[2]) IN
       IF Cardinality(series) >= FlushAt
       THEN pending' = {} /\ (Save(series) \/ UNCHANGED cache)
       ELSE pending' = series /\ UNCHANGED cache
  /\ UNCHANGED <<limiter, pc, ask, chances, universe, status, stage, round, todo, job, fetched>>

\* refresh_all takes a finished future; a full batch is flushed, and kept when
\* that raises.
Collect(r) ==
  /\ stage = "fetch" /\ r \in results
  /\ results' = results \ {r}
  /\ LET series == pending \cup ({r[1]} \X r[2]) IN
       \/ /\ Cardinality(series) >= FlushAt
          /\ Save(series) /\ pending' = {}
       \/ UNCHANGED cache /\ pending' = series
  /\ UNCHANGED <<limiter, pc, ask, chances, universe, status, stage, round, todo, job, fetched>>

\* The futures are used up: the last flush and the "ok" ...
FinishRefresh ==
  /\ stage = "fetch" /\ todo = {} /\ results = {}
  /\ \A f \in Pool : pc[f] = "idle"
  /\ Save(pending) /\ pending' = {}
  /\ status' = "ok"
  /\ stage' = "wait"
  /\ UNCHANGED <<limiter, pc, ask, chances, universe, round, todo, job, results, fetched>>

\* ... or one of its statements raises; when run_forever cannot even record that,
\* its thread ends.
RefreshFails ==
  /\ stage = "fetch" /\ todo = {} /\ results = {}
  /\ \A f \in Pool : pc[f] = "idle"
  /\ pending' = {}
  /\ Save(pending) \/ UNCHANGED cache
  /\ \/ status' = "error" /\ stage' = "wait"
     \/ UNCHANGED status /\ stage' = "dead"
  /\ UNCHANGED <<limiter, pc, ask, chances, universe, round, todo, job, results, fetched>>

-----------------------------------------------------------------------------
ThreadNext(a) ==
  Reserve(a) \/ Wake(a) \/ InfoAnswers(a) \/ SaveUniverse(a) \/ UniverseFails(a)

PoolNext(f) == TakeSymbol(f) \/ Reserve(f) \/ Wake(f) \/ KlinesAnswer(f) \/ KlinesFail(f)

RefresherNext ==
  \/ ThreadNext(Refresher)
  \/ \E r \in results : Collect(r)
  \/ FinishRefresh \/ RefreshFails

Next ==
  \/ RefresherNext
  \/ \E f \in Pool : PoolNext(f)
  \/ ThreadNext(Scanner)
  \/ StartRefresh \/ ScannerUniverse \/ Tick

Spec == Init /\ [][Next]_vars

\* Threads run, time passes, and requests return or raise.
FairSpec ==
  /\ Spec
  /\ WF_vars(Tick) /\ WF_vars(RefresherNext)
  /\ \A f \in Pool : WF_vars(PoolNext(f))

-----------------------------------------------------------------------------
(* Properties                                                              *)

\* Slots are handed out so that a request goes out only when the time for the
\* weight of all reservations made before it has passed, whatever threads race.
Paced ==
  [][\A a \in Threads : pc[a] = "asleep" /\ pc'[a] = "call" => ahead[a] <= now]_vars

\* So the average rate never exceeds the budget, but for the request under way.
AverageRate == sent <= now + TickerWeight

\* A refresh that reports "ok" has cached every series it got, although batches
\* may have failed to be saved on the way.
OkMeansCached ==
  [][stage = "fetch" /\ stage' = "wait" /\ status' = "ok"
       => \A x \in fetched : cache'[x] = round]_vars

\* A refresh ends: its requests are tried a bounded number of times each.
RefreshEnds == stage \in {"universe", "fetch"} ~> stage \in {"wait", "dead"}
=============================================================================
