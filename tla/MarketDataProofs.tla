-------------------------- MODULE MarketDataProofs --------------------------
(***************************************************************************)
(* The pacing of WeightLimiter and the weight it lets through in any span, *)
(* for any number of threads and any weights, and what a refresh that      *)
(* reports ok has cached, for any symbols, intervals and batch size.       *)
(***************************************************************************)
EXTENDS MarketData, FiniteSetTheorems, TLAPS

\* What the limiter keeps, and where its callers are.
LimiterType ==
  /\ now \in Nat /\ nextAt \in Nat /\ reserved \in Nat
  /\ due \in [Threads -> Nat] /\ ahead \in [Threads -> Nat]
  /\ pc \in [Threads -> {"idle", "need", "asleep", "call"}]

\* Slots are handed out without overlap: the next one lies behind everything
\* reserved, and so did the slot of each thread that still sleeps.
Disjoint ==
  /\ reserved <= nextAt
  /\ \A a \in Threads : ahead[a] <= due[a]

\* What a step that leaves the limiter alone may do to the threads: none comes out
\* of its sleep.
Aside ==
  /\ UNCHANGED limiter
  /\ pc' \in [Threads -> {"idle", "need", "asleep", "call"}]
  /\ \A a \in Threads : pc[a] = "asleep" => pc'[a] # "call"

-----------------------------------------------------------------------------
\* A weight is a natural number.
LEMMA WeightNat == \A a \in Threads : Weight(a) \in Nat
BY WeightType DEF Weight

\* A step of a thread through the universe or the candles leaves the limiter aside.
LEMMA ThreadAside ==
  ASSUME LimiterType, NEW a \in Threads,
         InfoAnswers(a) \/ SaveUniverse(a) \/ UniverseFails(a)
  PROVE  Aside
<1> USE DEF LimiterType, Aside
<1>1. CASE InfoAnswers(a)
  BY <1>1 DEF InfoAnswers
<1>2. CASE SaveUniverse(a)
  BY <1>2 DEF SaveUniverse
<1>3. CASE UniverseFails(a)
  BY <1>3 DEF UniverseFails, AskInfo
<1> QED
  BY <1>1, <1>2, <1>3

\* So does one that a pool thread takes.
LEMMA PoolAside ==
  ASSUME LimiterType, NEW f \in Pool,
         TakeSymbol(f) \/ KlinesAnswer(f) \/ KlinesFail(f)
  PROVE  Aside
<1> USE DEF LimiterType, Aside, Threads
<1>1. CASE TakeSymbol(f)
  BY <1>1 DEF TakeSymbol
<1>2. CASE KlinesAnswer(f)
  <2>1. PICK i \in job[f].intervals : \E new \in {{}, {i}} :
          NextInterval(f, i, job[f].got \cup new)
    BY <1>2 DEF KlinesAnswer
  <2>2. pc' = [pc EXCEPT ![f] = "need"] \/ pc' = [pc EXCEPT ![f] = "idle"]
    BY <2>1 DEF NextInterval
  <2> QED
    BY <1>2, <2>2 DEF KlinesAnswer
<1>3. CASE KlinesFail(f)
  <2>1. pc' = [pc EXCEPT ![f] = "need"] \/ pc' = [pc EXCEPT ![f] = "idle"]
    BY <1>3 DEF KlinesFail, NextInterval
  <2> QED
    BY <1>3, <2>1 DEF KlinesFail
<1> QED
  BY <1>1, <1>2, <1>3

\* A step reserves a slot, ends a sleep, lets time pass, or leaves the limiter aside.
LEMMA LimiterSteps ==
  ASSUME LimiterType, [Next]_vars
  PROVE  (\E a \in Threads : Reserve(a) \/ Wake(a)) \/ Tick \/ Aside
<1> USE DEF LimiterType
<1>1. CASE RefresherNext
  <2>1. CASE ThreadNext(Refresher)
    BY <2>1, ThreadAside DEF ThreadNext, Threads
  <2>2. ASSUME NEW r \in results, Collect(r) PROVE Aside
    BY <2>2 DEF Collect, Aside
  <2>3. CASE FinishRefresh \/ RefreshFails
    BY <2>3 DEF FinishRefresh, RefreshFails, Aside
  <2> QED
    BY <1>1, <2>1, <2>2, <2>3 DEF RefresherNext
<1>2. ASSUME NEW f \in Pool, PoolNext(f)
      PROVE  (\E a \in Threads : Reserve(a) \/ Wake(a)) \/ Aside
  BY <1>2, PoolAside DEF PoolNext, Threads
<1>3. CASE ThreadNext(Scanner)
  BY <1>3, ThreadAside DEF ThreadNext, Threads
<1>4. CASE StartRefresh \/ ScannerUniverse
  BY <1>4 DEF StartRefresh, ScannerUniverse, AskInfo, Aside, Threads
<1>5. CASE UNCHANGED vars
  BY <1>5 DEF vars, Aside
<1> QED
  BY <1>1, <1>2, <1>3, <1>4, <1>5 DEF Next

-----------------------------------------------------------------------------
\* Every step keeps the slots disjoint.
LEMMA LimiterNext == LimiterType /\ Disjoint /\ [Next]_vars => LimiterType' /\ Disjoint'
<1> SUFFICES ASSUME LimiterType, Disjoint, [Next]_vars PROVE LimiterType' /\ Disjoint'
  OBVIOUS
<1> USE DEF LimiterType, Disjoint
<1>1. ASSUME NEW a \in Threads, Reserve(a) PROVE LimiterType' /\ Disjoint'
  <2> DEFINE slot == Later(now, nextAt)
  <2>1. slot \in Nat /\ nextAt <= slot
    BY DEF Later
  <2>2. Weight(a) \in Nat
    BY WeightNat
  <2>3. /\ due' = [due EXCEPT ![a] = slot] /\ ahead' = [ahead EXCEPT ![a] = reserved]
        /\ nextAt' = slot + Weight(a) /\ reserved' = reserved + Weight(a)
        /\ now' = now /\ pc' = [pc EXCEPT ![a] = "asleep"]
    BY <1>1 DEF Reserve
  <2> HIDE DEF slot
  <2>4. LimiterType'
    BY <2>1, <2>2, <2>3
  <2>5. reserved' <= nextAt'
    BY <2>1, <2>2, <2>3
  <2>6. \A x \in Threads : ahead'[x] <= due'[x]
    BY <2>1, <2>3
  <2> QED
    BY <2>4, <2>5, <2>6
<1>2. ASSUME NEW a \in Threads, Wake(a) PROVE LimiterType' /\ Disjoint'
  BY <1>2 DEF Wake
<1>3. CASE Tick
  BY <1>3 DEF Tick
<1>4. CASE Aside
  BY <1>4 DEF Aside, limiter
<1> QED
  BY <1>1, <1>2, <1>3, <1>4, LimiterSteps

\* A thread that wakes up has let the time of all earlier reservations pass.
LEMMA WakePaced ==
  LimiterType /\ Disjoint /\ [Next]_vars =>
    \A a \in Threads : pc[a] = "asleep" /\ pc'[a] = "call" => ahead[a] <= now
<1> SUFFICES ASSUME LimiterType, Disjoint, [Next]_vars,
                    NEW a \in Threads, pc[a] = "asleep", pc'[a] = "call"
             PROVE  ahead[a] <= now
  OBVIOUS
<1> USE DEF LimiterType, Disjoint
<1>1. ASSUME NEW x \in Threads, Reserve(x) PROVE FALSE
  BY <1>1 DEF Reserve
<1>2. ASSUME NEW x \in Threads, Wake(x) PROVE ahead[a] <= now
  BY <1>2 DEF Wake
<1>3. CASE Tick
  BY <1>3 DEF Tick
<1>4. CASE Aside
  BY <1>4 DEF Aside
<1> QED
  BY <1>1, <1>2, <1>3, <1>4, LimiterSteps

\* However many threads race for slots, and whatever their requests weigh, none goes
\* out before the time for everything reserved before it has passed.
THEOREM RequestsPaced == Spec => Paced
<1>1. Init => LimiterType /\ Disjoint
  BY DEF Init, LimiterType, Disjoint
<1>2. LimiterType /\ Disjoint /\ [Next]_vars
        => [\A a \in Threads : pc[a] = "asleep" /\ pc'[a] = "call" => ahead[a] <= now]_vars
  BY WakePaced
<1> QED
  BY <1>1, <1>2, LimiterNext, PTL DEF Spec, Paced

-----------------------------------------------------------------------------
(* Types                                                                   *)

Jobs == [symbol : SUBSET Symbols, intervals : SUBSET Intervals, tries : 0 .. 1,
        got : SUBSET Intervals]

\* A job is one.
LEMMA JobIs ==
  ASSUME NEW s \in SUBSET Symbols, NEW rest \in SUBSET Intervals, NEW got \in SUBSET Intervals
  PROVE  Job(s, rest, got) \in Jobs
BY DEF Job, Jobs

\* What a pool thread hands on when it is done with an interval.
LEMMA HandsOn ==
  ASSUME TypeOK, NEW f \in Pool, NEW i \in job[f].intervals, NEW got \in SUBSET Intervals,
         NextInterval(f, i, got)
  PROVE  /\ job' \in [Pool -> Jobs]
         /\ results' \subseteq Symbols \X SUBSET Intervals
         /\ pc' \in [Threads -> {"idle", "need", "asleep", "call"}]
<1>1. job \in [Pool -> Jobs] /\ f \in Threads
  BY DEF TypeOK, Jobs, Threads
<1>2. job[f].symbol \X {got} \subseteq Symbols \X SUBSET Intervals
  BY <1>1 DEF Jobs
<1>3. NoJob \in Jobs
  BY JobIs DEF NoJob
<1>4. CASE job[f].intervals \ {i} # {}
  <2> DEFINE rest == job[f].intervals \ {i}
             next == Job(job[f].symbol, rest, got)
  <2>1. /\ job' = [job EXCEPT ![f] = next]
        /\ pc' = [pc EXCEPT ![f] = "need"] /\ UNCHANGED results
    BY <1>4 DEF NextInterval
  <2>2. next \in Jobs
    <3>1. job[f].symbol \in SUBSET Symbols /\ job[f].intervals \in SUBSET Intervals
      BY <1>1 DEF Jobs
    <3>2. rest \in SUBSET Intervals
      BY <3>1
    <3> HIDE DEF rest
    <3> QED
      BY <3>1, <3>2, JobIs
  <2> HIDE DEF next
  <2> QED
    BY <1>1, <2>1, <2>2 DEF TypeOK
<1>5. CASE job[f].intervals \ {i} = {}
  BY <1>1, <1>2, <1>3, <1>5 DEF NextInterval, TypeOK
<1> QED
  BY <1>4, <1>5

\* The types of a step of the universe, by whichever thread.
LEMMA UniverseTypes ==
  ASSUME TypeOK, NEW a \in Threads,
         InfoAnswers(a) \/ SaveUniverse(a) \/ UniverseFails(a)
  PROVE  TypeOK'
<1> USE DEF TypeOK
<1>1. CASE InfoAnswers(a)
  BY <1>1 DEF InfoAnswers, limiter, tables, batch
<1>2. CASE SaveUniverse(a)
  BY <1>2 DEF SaveUniverse, FetchAll, limiter
<1>3. CASE UniverseFails(a)
  <2>1. /\ chances' \in 0 .. 3 /\ todo' \subseteq Symbols
        /\ stage' \in {"wait", "universe", "fetch", "dead"}
    BY <1>3 DEF UniverseFails, FetchAll
  <2>2. /\ pc' \in [Threads -> {"idle", "need", "asleep", "call"}]
        /\ ask' \in [Threads -> {"info", "ticker", "klines"}]
    BY <1>3 DEF UniverseFails, AskInfo
  <2>3. UNCHANGED <<limiter, tables, round, job, results, pending, fetched>>
    BY <1>3 DEF UniverseFails
  <2> QED
    BY <2>1, <2>2, <2>3 DEF limiter, tables
<1> QED
  BY <1>1, <1>2, <1>3

\* The types of a step of a pool thread through its symbol.
LEMMA PoolTypes ==
  ASSUME TypeOK, NEW f \in Pool, TakeSymbol(f) \/ KlinesAnswer(f) \/ KlinesFail(f)
  PROVE  TypeOK'
<1>1. job \in [Pool -> Jobs] /\ f \in Threads
  BY DEF TypeOK, Jobs, Threads
<1>2. CASE TakeSymbol(f)
  <2>1. PICK s \in todo : todo' = todo \ {s} /\ job' = [job EXCEPT ![f] = Job({s}, Intervals, {})]
    BY <1>2 DEF TakeSymbol
  <2>2. Job({s}, Intervals, {}) \in Jobs
    <3>1. {s} \in SUBSET Symbols
      BY DEF TypeOK
    <3> QED
      BY <3>1, JobIs
  <2>3. job' \in [Pool -> Jobs]
    BY <1>1, <2>1, <2>2
  <2> QED
    BY <1>1, <1>2, <2>1, <2>3 DEF TakeSymbol, TypeOK, Jobs, limiter, tables
<1>3. CASE KlinesAnswer(f)
  <2>1. PICK i \in job[f].intervals, new \in SUBSET job[f].intervals :
          /\ NextInterval(f, i, job[f].got \cup new)
          /\ fetched' = fetched \cup (job[f].symbol \X new)
    BY <1>3 DEF KlinesAnswer
  <2>2. job[f].got \cup new \in SUBSET Intervals /\ new \subseteq Intervals
        /\ job[f].symbol \subseteq Symbols
    BY <1>1, <2>1 DEF Jobs
  <2>3. fetched' \subseteq Series
    BY <2>1, <2>2 DEF Series, TypeOK
  <2>4. /\ job' \in [Pool -> Jobs]
        /\ results' \subseteq Symbols \X SUBSET Intervals
        /\ pc' \in [Threads -> {"idle", "need", "asleep", "call"}]
    BY <2>1, <2>2, HandsOn
  <2> QED
    BY <1>3, <2>3, <2>4 DEF KlinesAnswer, TypeOK, Jobs, limiter, tables
<1>4. CASE KlinesFail(f)
  <2>1. /\ job' \in [Pool -> Jobs]
        /\ results' \subseteq Symbols \X SUBSET Intervals
        /\ pc' \in [Threads -> {"idle", "need", "asleep", "call"}]
    <3>1. CASE job[f].tries = 0
      <4>1. /\ job' = [job EXCEPT ![f].tries = 1]
            /\ pc' = [pc EXCEPT ![f] = "need"] /\ UNCHANGED results
        BY <1>4, <3>1 DEF KlinesFail
      <4>2. job' \in [Pool -> Jobs]
        BY <1>1, <4>1 DEF Jobs
      <4> QED
        BY <1>1, <4>1, <4>2 DEF TypeOK
    <3>2. CASE job[f].tries = 1
      <4>1. PICK i \in job[f].intervals : NextInterval(f, i, job[f].got)
        BY <1>4, <3>2 DEF KlinesFail
      <4>2. job[f].got \in SUBSET Intervals
        BY <1>1 DEF Jobs
      <4> QED
        BY <4>1, <4>2, HandsOn
    <3> QED
      BY <1>4, <3>1, <3>2 DEF KlinesFail
  <2> QED
    BY <1>4, <2>1 DEF KlinesFail, TypeOK, Jobs, limiter, tables
<1> QED
  BY <1>2, <1>3, <1>4

\* Every step keeps the types.
LEMMA TypeStep == ASSUME TypeOK, [Next]_vars PROVE TypeOK'
<1>1. ASSUME NEW a \in Threads, Reserve(a) \/ Wake(a) PROVE TypeOK'
  <2>1. Weight(a) \in Nat
    BY WeightNat
  <2>2. CASE Reserve(a)
    <3>1. Later(now, nextAt) \in Nat
      BY DEF Later, TypeOK
    <3> QED
      BY <2>1, <2>2, <3>1 DEF Reserve, TypeOK, tables, batch
  <2>3. CASE Wake(a)
    BY <2>1, <2>3 DEF Wake, TypeOK, tables, batch
  <2> QED
    BY <1>1, <2>2, <2>3
<1>2. ASSUME NEW r \in results, Collect(r) PROVE TypeOK'
  <2>1. {r[1]} \X r[2] \subseteq Series
    BY DEF TypeOK, Series
  <2>2. pending' \subseteq Series
    BY <1>2, <2>1 DEF Collect, TypeOK
  <2>3. cache' \in [Series -> Nat]
    BY <1>2 DEF Collect, Save, TypeOK
  <2> QED
    BY <1>2, <2>2, <2>3 DEF Collect, TypeOK, limiter
<1>3. CASE FinishRefresh
  BY <1>3 DEF FinishRefresh, Save, TypeOK, limiter
<1>4. CASE RefreshFails
  BY <1>4 DEF RefreshFails, Save, TypeOK, limiter
<1>5. CASE StartRefresh
  <2>1. round' \in Nat /\ fetched' = {}
    BY <1>5 DEF StartRefresh, TypeOK
  <2>2. /\ chances' \in 0 .. 3 /\ todo' \subseteq Symbols
        /\ stage' \in {"universe", "fetch"}
        /\ pc' \in [Threads -> {"idle", "need", "asleep", "call"}]
        /\ ask' \in [Threads -> {"info", "ticker", "klines"}]
    BY <1>5 DEF StartRefresh, FetchAll, AskInfo, TypeOK
  <2> QED
    BY <1>5, <2>1, <2>2 DEF StartRefresh, TypeOK, limiter, tables
<1>6. CASE ScannerUniverse
  BY <1>6 DEF ScannerUniverse, AskInfo, TypeOK, limiter, tables, batch
<1>7. CASE Tick
  BY <1>7 DEF Tick, TypeOK, tables, batch
<1>8. CASE UNCHANGED vars
  BY <1>8 DEF vars, TypeOK, limiter, tables, batch
<1>9. ASSUME NEW a \in {Refresher, Scanner}, ThreadNext(a) PROVE TypeOK'
  BY <1>1, <1>9, UniverseTypes DEF ThreadNext, Threads
<1>10. ASSUME NEW f \in Pool, PoolNext(f) PROVE TypeOK'
  BY <1>1, <1>10, PoolTypes DEF PoolNext, Threads
<1> QED
  BY <1>2, <1>3, <1>4, <1>5, <1>6, <1>7, <1>8, <1>9, <1>10 DEF Next, RefresherNext

\* Every reachable state of the market data service is well-typed.
THEOREM TypeCorrect == Spec => []TypeOK
<1>1. Init => TypeOK
  BY DEF Init, TypeOK, NoJob, Job
<1> QED
  BY <1>1, TypeStep, PTL DEF Spec

-----------------------------------------------------------------------------
(* What is got is not lost before it is cached                             *)

\* A series of this refresh is cached, waits for a flush, or lies in a finished or an
\* unfinished future.
InHand(x) ==
  \/ cache[x] = round
  \/ x \in pending
  \/ \E r \in results : x \in {r[1]} \X r[2]
  \/ \E f \in Pool : x \in job[f].symbol \X job[f].got

\* Only a refresh at its candles has work under way, and only one at the universe has
\* the refresher call for it.
Staged ==
  /\ \A f \in Pool : pc[f] = "idle" => job[f].got = {}
  /\ stage # "fetch" => results = {} /\ \A f \in Pool : pc[f] = "idle"
  /\ pc[Refresher] # "idle" => stage = "universe"
  /\ stage = "universe" => fetched = {}

Kept == Staged /\ (stage = "fetch" => \A x \in fetched : InHand(x))

\* The threads of the pool are others than the refresher and the scanner.
LEMMA PoolApart == Refresher \notin Pool /\ Scanner \notin Pool /\ Refresher # Scanner
BY ThreadsDiffer

\* Steps that leave the work under way alone, as far as it is asked about.
LEMMA KeptAside ==
  ASSUME TypeOK, Kept, UNCHANGED <<cache, round, job, results, pending, fetched>>,
         \A f \in Pool : pc'[f] = "idle" <=> pc[f] = "idle",
         \/ UNCHANGED stage /\ (pc'[Refresher] = "idle" <=> pc[Refresher] = "idle")
         \/ stage = "universe" /\ stage' = "fetch" /\ pc'[Refresher] = "idle"
         \/ stage = "universe" /\ stage' = "universe"
  PROVE  Kept'
<1>1. Staged'
  BY DEF Kept, Staged
<1>2. CASE UNCHANGED stage
  BY <1>1, <1>2 DEF Kept, InHand
<1>3. CASE stage = "universe" /\ stage' = "fetch"
  BY <1>1, <1>3 DEF Kept, Staged
<1> QED
  BY <1>1, <1>2, <1>3 DEF Kept

\* The limiter and the universe leave it alone.
LEMMA KeptUniverse ==
  ASSUME TypeOK, Kept, NEW a \in Threads,
         \/ Reserve(a) \/ Wake(a)
         \/ a \notin Pool /\ (InfoAnswers(a) \/ SaveUniverse(a) \/ UniverseFails(a))
  PROVE  Kept'
<1>1. CASE Reserve(a) \/ Wake(a) \/ (a \notin Pool /\ InfoAnswers(a))
  <2>1. /\ UNCHANGED <<cache, round, job, results, pending, fetched, stage>>
        /\ \A x \in Threads : pc'[x] = "idle" <=> pc[x] = "idle"
    BY <1>1 DEF Reserve, Wake, InfoAnswers, TypeOK, tables, batch
  <2> QED
    BY <2>1, KeptAside DEF Threads
<1>2. CASE a \notin Pool /\ SaveUniverse(a)
  <2>1. /\ UNCHANGED <<cache, round, job, results, pending, fetched>>
        /\ \A x \in Threads \ {a} : pc'[x] = pc[x]
        /\ pc[a] # "idle" /\ pc'[a] = "idle"
        /\ IF a = Refresher THEN stage' = "fetch" ELSE UNCHANGED stage
    BY <1>2 DEF SaveUniverse, FetchAll, TypeOK
  <2>2. a = Refresher => stage = "universe"
    BY <2>1 DEF Kept, Staged
  <2> QED
    BY <1>2, <2>1, <2>2, KeptAside DEF Threads
<1>3. CASE a \notin Pool /\ UniverseFails(a)
  <2>1. /\ UNCHANGED <<cache, round, job, results, pending, fetched>>
        /\ \A x \in Threads \ {a} : pc'[x] = pc[x]
        /\ pc[a] # "idle"
        /\ \/ a = Refresher /\ UNCHANGED stage
           \/ a = Refresher /\ stage' = "fetch" /\ pc'[a] = "idle"
           \/ a = Scanner /\ UNCHANGED stage
    BY <1>3 DEF UniverseFails, FetchAll, AskInfo, TypeOK, tables
  <2>2. a = Refresher => stage = "universe"
    BY <2>1 DEF Kept, Staged
  <2> QED
    BY <1>3, <2>1, <2>2, PoolApart, KeptAside DEF Threads
<1> QED
  BY <1>1, <1>2, <1>3

\* A thread that goes on to its next interval, or is done, keeps what it got.
LEMMA KeptNextInterval ==
  ASSUME TypeOK, Kept, NEW f \in Pool, pc[f] = "call", NEW i \in job[f].intervals,
         NEW got \in SUBSET Intervals, job[f].got \subseteq got, NextInterval(f, i, got),
         UNCHANGED <<cache, round, pending, stage>>,
         fetched' \subseteq fetched \cup (job[f].symbol \X got)
  PROVE  Kept'
<1>1. /\ f \in Threads /\ f # Refresher /\ job \in [Pool -> Jobs] /\ stage = "fetch"
      /\ pc \in [Threads -> {"idle", "need", "asleep", "call"}]
  BY PoolApart DEF Threads, TypeOK, Jobs, Kept, Staged
<1>2. /\ \A x \in Threads \ {f} : pc'[x] = pc[x]
      /\ \A g \in Pool \ {f} : job'[g] = job[g]
  BY <1>1 DEF NextInterval
<1>3. \/ /\ job'[f].symbol = job[f].symbol /\ job'[f].got = got /\ pc'[f] # "idle"
         /\ results' = results
      \/ /\ job'[f].got = {} /\ pc'[f] = "idle"
         /\ results' = results \cup (job[f].symbol \X {got})
  BY <1>1 DEF NextInterval, NoJob, Job
<1>4. Staged'
  BY <1>1, <1>2, <1>3 DEF Kept, Staged, Threads
<1>5. ASSUME NEW x \in job[f].symbol \X got PROVE InHand(x)'
  <2>1. CASE results' = results \cup (job[f].symbol \X {got})
    <3>1. <<x[1], got>> \in results' /\ x \in {x[1]} \X got
      BY <2>1
    <3> QED
      BY <3>1 DEF InHand
  <2>2. CASE job'[f].symbol = job[f].symbol /\ job'[f].got = got
    BY <2>2 DEF InHand
  <2> QED
    BY <1>3, <2>1, <2>2
<1>6. ASSUME NEW x \in fetched, InHand(x) PROVE InHand(x)'
  <2>1. CASE cache[x] = round \/ x \in pending
    BY <2>1 DEF InHand
  <2>2. ASSUME NEW r \in results, x \in {r[1]} \X r[2] PROVE InHand(x)'
    BY <1>3, <2>2 DEF InHand
  <2>3. ASSUME NEW g \in Pool, x \in job[g].symbol \X job[g].got PROVE InHand(x)'
    <3>1. CASE g = f
      BY <1>5, <2>3, <3>1
    <3>2. CASE g # f
      BY <1>2, <2>3, <3>2 DEF InHand
    <3> QED
      BY <3>1, <3>2
  <2> QED
    BY <1>6, <2>1, <2>2, <2>3 DEF InHand
<1>7. \A x \in fetched' : InHand(x)'
  BY <1>1, <1>5, <1>6 DEF Kept
<1> QED
  BY <1>4, <1>7 DEF Kept

\* So a pool thread keeps all there is.
LEMMA KeptPool ==
  ASSUME TypeOK, Kept, NEW f \in Pool, TakeSymbol(f) \/ KlinesAnswer(f) \/ KlinesFail(f)
  PROVE  Kept'
<1>1. /\ f \in Threads /\ f # Refresher /\ job \in [Pool -> Jobs]
      /\ pc \in [Threads -> {"idle", "need", "asleep", "call"}]
  BY PoolApart DEF Threads, TypeOK, Jobs
<1>2. CASE TakeSymbol(f)
  <2>1. /\ stage = "fetch" /\ pc[f] = "idle" /\ pc'[f] = "need"
        /\ \A x \in Threads \ {f} : pc'[x] = pc[x]
        /\ \A g \in Pool \ {f} : job'[g] = job[g]
        /\ UNCHANGED <<cache, stage, round, results, pending, fetched>>
    BY <1>1, <1>2 DEF TakeSymbol, tables
  <2>2. Staged'
    BY <1>1, <2>1 DEF Kept, Staged, Threads
  <2>3. ASSUME NEW x \in fetched PROVE InHand(x)'
    <3>1. InHand(x) /\ job[f].got = {}
      BY <2>1 DEF Kept, Staged
    <3> QED
      BY <2>1, <3>1 DEF InHand
  <2> QED
    BY <2>1, <2>2, <2>3 DEF Kept
<1>3. CASE KlinesAnswer(f)
  <2>1. PICK i \in job[f].intervals, new \in SUBSET job[f].intervals :
          /\ NextInterval(f, i, job[f].got \cup new)
          /\ fetched' = fetched \cup (job[f].symbol \X new)
    BY <1>3 DEF KlinesAnswer
  <2>2. job[f].got \cup new \in SUBSET Intervals
    BY <1>1, <2>1 DEF Jobs
  <2>3. fetched' \subseteq fetched \cup (job[f].symbol \X (job[f].got \cup new))
    BY <2>1
  <2>4. pc[f] = "call" /\ UNCHANGED <<cache, round, pending, stage>>
    BY <1>3 DEF KlinesAnswer, tables
  <2> QED
    BY <2>1, <2>2, <2>3, <2>4, KeptNextInterval
<1>4. CASE KlinesFail(f)
  <2>1. pc[f] = "call" /\ UNCHANGED <<cache, round, pending, stage, fetched>>
    BY <1>4 DEF KlinesFail, tables
  <2>2. CASE job[f].tries = 0
    <3>1. /\ job' = [job EXCEPT ![f].tries = 1]
          /\ pc' = [pc EXCEPT ![f] = "need"] /\ UNCHANGED results
      BY <1>4, <2>2 DEF KlinesFail
    <3>2. /\ job'[f].symbol = job[f].symbol /\ job'[f].got = job[f].got
          /\ \A g \in Pool \ {f} : job'[g] = job[g]
      BY <1>1, <3>1 DEF Jobs
    <3>3. /\ \A g \in Pool : job'[g].symbol = job[g].symbol /\ job'[g].got = job[g].got
      BY <3>2
    <3>4. Staged'
      BY <1>1, <2>1, <3>1, <3>3 DEF Kept, Staged, Threads
    <3>5. \A x \in fetched : InHand(x) => InHand(x)'
      BY <2>1, <3>1, <3>3 DEF InHand
    <3> QED
      BY <2>1, <3>4, <3>5 DEF Kept
  <2>3. CASE job[f].tries = 1
    <3>1. PICK i \in job[f].intervals : NextInterval(f, i, job[f].got)
      BY <1>4, <2>3 DEF KlinesFail
    <3>2. job[f].got \in SUBSET Intervals
      BY <1>1 DEF Jobs
    <3> QED
      BY <2>1, <3>1, <3>2, KeptNextInterval
  <2> QED
    BY <1>4, <2>2, <2>3 DEF KlinesFail
<1> QED
  BY <1>2, <1>3, <1>4

\* The last flush caches all that is left.
LEMMA FinishCaches ==
  ASSUME TypeOK, Kept, FinishRefresh
  PROVE  \A x \in fetched : cache'[x] = round
<1> SUFFICES ASSUME NEW x \in fetched PROVE cache'[x] = round
  OBVIOUS
<1>1. /\ results = {} /\ cache' = [y \in Series |-> IF y \in pending THEN round ELSE cache[y]]
      /\ \A f \in Pool : job[f].got = {}
  BY DEF FinishRefresh, Save, Kept, Staged
<1>2. InHand(x) /\ x \in Series
  BY DEF FinishRefresh, Kept, TypeOK
<1>3. cache[x] = round \/ x \in pending
  BY <1>1, <1>2 DEF InHand
<1> QED
  BY <1>1, <1>2, <1>3

\* Every step keeps what was got.
LEMMA KeptStep == ASSUME TypeOK, Kept, [Next]_vars PROVE Kept'
<1>1. ASSUME NEW r \in results, Collect(r) PROVE Kept'
  <2> DEFINE series == pending \cup ({r[1]} \X r[2])
  <2>1. /\ stage = "fetch" /\ results' = results \ {r}
        /\ \/ cache' = [x \in Series |-> IF x \in series THEN round ELSE cache[x]]
           \/ UNCHANGED cache /\ pending' = series
        /\ UNCHANGED <<pc, stage, round, job, fetched>>
    BY <1>1 DEF Collect, Save
  <2>2. Staged'
    BY <2>1 DEF Kept, Staged
  <2>3. ASSUME NEW x \in fetched PROVE InHand(x)'
    <3>1. InHand(x) /\ x \in Series
      BY <2>1 DEF Kept, TypeOK
    <3>2. CASE x \in series
      BY <2>1, <3>1, <3>2 DEF InHand
    <3>3. CASE x \notin series
      <4>1. cache'[x] = cache[x]
        BY <2>1, <3>1, <3>3
      <4>2. \/ cache[x] = round \/ \E q \in results \ {r} : x \in {q[1]} \X q[2]
            \/ \E f \in Pool : x \in job[f].symbol \X job[f].got
        BY <3>1, <3>3 DEF InHand
      <4> QED
        BY <2>1, <4>1, <4>2 DEF InHand
    <3> QED
      BY <3>2, <3>3
  <2> QED
    BY <2>1, <2>2, <2>3 DEF Kept
<1>2. CASE FinishRefresh \/ RefreshFails
  <2>1. /\ stage = "fetch" /\ stage' \in {"wait", "dead"} /\ results = {}
        /\ \A f \in Pool : pc[f] = "idle"
        /\ UNCHANGED <<pc, job, results, fetched>>
    BY <1>2 DEF FinishRefresh, RefreshFails
  <2> QED
    BY <2>1 DEF Kept, Staged
<1>3. CASE StartRefresh
  <2>1. /\ stage = "wait" /\ fetched' = {} /\ UNCHANGED <<job, results>>
        /\ \/ stage' = "universe" /\ \A x \in Threads \ {Refresher} : pc'[x] = pc[x]
           \/ stage' = "fetch" /\ UNCHANGED pc
    BY <1>3 DEF StartRefresh, AskInfo, FetchAll, TypeOK
  <2> QED
    BY <2>1, PoolApart DEF Kept, Staged, Threads
<1>4. CASE ScannerUniverse
  <2>1. /\ UNCHANGED <<cache, round, job, results, pending, fetched, stage>>
        /\ \A x \in Threads \ {Scanner} : pc'[x] = pc[x]
    BY <1>4 DEF ScannerUniverse, AskInfo, TypeOK, tables, batch
  <2> QED
    BY <2>1, PoolApart, KeptAside DEF Threads
<1>5. CASE Tick \/ UNCHANGED vars
  BY <1>5, KeptAside DEF Tick, vars, tables, batch
<1>6. ASSUME NEW a \in {Refresher, Scanner}, ThreadNext(a) PROVE Kept'
  BY <1>6, PoolApart, KeptUniverse DEF ThreadNext, Threads
<1>7. ASSUME NEW f \in Pool, PoolNext(f) PROVE Kept'
  BY <1>7, KeptPool, KeptUniverse DEF PoolNext, Threads
<1> QED
  BY <1>1, <1>2, <1>3, <1>4, <1>5, <1>6, <1>7 DEF Next, RefresherNext

\* A refresh that reports ok has cached every series it got, for any number of threads,
\* symbols and intervals, whatever batches failed to be saved on the way.
THEOREM OkIsCached == Spec => OkMeansCached
<1> DEFINE Cached == stage = "fetch" /\ stage' = "wait" /\ status' = "ok"
                       => \A x \in fetched : cache'[x] = round
<1>1. Init => TypeOK /\ Kept
  BY DEF Init, TypeOK, Kept, Staged, NoJob, Job, Threads
<1>2. TypeOK /\ Kept /\ [Next]_vars => TypeOK' /\ Kept'
  BY TypeStep, KeptStep
<1>3. TypeOK /\ Kept /\ [Next]_vars => [Cached]_vars
  <2> SUFFICES ASSUME TypeOK, Kept, Next, stage = "fetch", stage' = "wait", status' = "ok"
               PROVE  \A x \in fetched : cache'[x] = round
    OBVIOUS
  <2>1. ASSUME NEW a \in Threads, ThreadNext(a) PROVE FALSE
    BY <2>1 DEF ThreadNext, Reserve, Wake, InfoAnswers, SaveUniverse, UniverseFails, FetchAll, AskInfo
  <2>2. ASSUME NEW f \in Pool, PoolNext(f) PROVE FALSE
    BY <2>2 DEF PoolNext, TakeSymbol, Reserve, Wake, KlinesAnswer, KlinesFail
  <2>3. ~ StartRefresh /\ ~ ScannerUniverse /\ ~ Tick /\ ~ RefreshFails
        /\ \A r \in results : ~ Collect(r)
    BY DEF StartRefresh, ScannerUniverse, Tick, RefreshFails, Collect
  <2>4. FinishRefresh
    BY <2>1, <2>2, <2>3 DEF Next, RefresherNext, Threads
  <2> QED
    BY <2>4, FinishCaches
<1> QED
  BY <1>1, <1>2, <1>3, PTL DEF Spec, OkMeansCached

-----------------------------------------------------------------------------
(* The average rate                                                        *)

\* The units of weight that a reservation takes, of all that are ever reserved, and
\* those of requests that have gone out.
Units(a) == ahead[a] .. ahead[a] + Weight(a) - 1
Asleep == {a \in Threads : pc[a] = "asleep"}
Spent == {u \in 0 .. reserved - 1 : \A a \in Asleep : u \notin Units(a)}

\* Reservations take different units; and what has gone out lies below the clock, but
\* for the weight of one request.
RateInv ==
  /\ \A a \in Asleep : Units(a) \subseteq 0 .. reserved - 1
  /\ \A a, b \in Asleep : a # b => Units(a) \cap Units(b) = {}
  /\ IsFiniteSet(Spent) /\ Cardinality(Spent) = sent
  /\ \A u \in Spent : u < now + TickerWeight

\* What a step that leaves the limiter alone may do to those that sleep: nothing.
Undisturbed ==
  /\ UNCHANGED limiter
  /\ \A a \in Threads : (pc'[a] = "asleep" <=> pc[a] = "asleep")
                        /\ (pc[a] = "asleep" => ask'[a] = ask[a])

\* A weight is at least 1 and at most the ticker's.
LEMMA WeightBounds == \A a \in Threads : Weight(a) \in 1 .. TickerWeight
BY WeightType DEF Weight

\* A step reserves a slot, ends a sleep, lets time pass, or leaves who sleeps alone.
LEMMA SleepSteps ==
  ASSUME TypeOK, Kept, [Next]_vars
  PROVE  (\E a \in Threads : Reserve(a) \/ Wake(a)) \/ Tick \/ Undisturbed
<1> USE DEF Undisturbed
<1>1. /\ pc \in [Threads -> {"idle", "need", "asleep", "call"}]
      /\ ask \in [Threads -> {"info", "ticker", "klines"}]
  BY DEF TypeOK
<1>2. ASSUME NEW a \in Threads, InfoAnswers(a) \/ SaveUniverse(a) \/ UniverseFails(a)
      PROVE  Undisturbed
  <2>1. pc[a] = "call" /\ UNCHANGED limiter
    BY <1>2 DEF InfoAnswers, SaveUniverse, UniverseFails
  <2>2. /\ pc' = [pc EXCEPT ![a] = "need"] \/ pc' = [pc EXCEPT ![a] = "idle"]
        /\ ask' = ask \/ \E q \in {"info", "ticker"} : ask' = [ask EXCEPT ![a] = q]
    BY <1>2 DEF InfoAnswers, SaveUniverse, UniverseFails, AskInfo
  <2> QED
    BY <1>1, <2>1, <2>2
<1>3. ASSUME NEW f \in Pool, TakeSymbol(f) \/ KlinesAnswer(f) \/ KlinesFail(f)
      PROVE  Undisturbed
  <2>1. f \in Threads /\ UNCHANGED limiter /\ pc[f] \in {"call", "idle"}
    BY <1>3 DEF TakeSymbol, KlinesAnswer, KlinesFail, Threads
  <2>2. pc' = [pc EXCEPT ![f] = "need"] \/ pc' = [pc EXCEPT ![f] = "idle"]
    BY <1>3 DEF TakeSymbol, KlinesAnswer, KlinesFail, NextInterval
  <2>3. ask' = ask \/ ask' = [ask EXCEPT ![f] = "klines"]
    BY <1>3 DEF TakeSymbol, KlinesAnswer, KlinesFail
  <2> QED
    BY <1>1, <2>1, <2>2, <2>3
<1>4. CASE (\E r \in results : Collect(r)) \/ FinishRefresh \/ RefreshFails \/ UNCHANGED vars
  BY <1>4 DEF Collect, FinishRefresh, RefreshFails, vars
<1>5. CASE StartRefresh
  <2>1. pc[Refresher] = "idle" /\ Refresher \in Threads
    BY <1>5 DEF StartRefresh, Kept, Staged, Threads
  <2>2. UNCHANGED <<pc, ask>> \/ AskInfo(Refresher)
    BY <1>5 DEF StartRefresh
  <2> QED
    BY <1>1, <1>5, <2>1, <2>2 DEF StartRefresh, AskInfo
<1>6. CASE ScannerUniverse
  BY <1>1, <1>6 DEF ScannerUniverse, AskInfo, Threads
<1> QED
  BY <1>2, <1>3, <1>4, <1>5, <1>6
     DEF Next, RefresherNext, ThreadNext, PoolNext, Threads

\* A reservation adds units that are nobody's, and none of them is spent.
LEMMA RateReserve ==
  ASSUME TypeOK, RateInv, NEW a \in Threads, Reserve(a)
  PROVE  RateInv'
<1> DEFINE w == Weight(a)
<1>1. /\ reserved \in Nat /\ now \in Nat /\ sent \in Nat /\ w \in Nat /\ w > 0
      /\ ahead \in [Threads -> Nat] /\ pc \in [Threads -> {"idle", "need", "asleep", "call"}]
  BY WeightBounds, WeightType DEF TypeOK
<1>2. /\ pc[a] = "need" /\ pc' = [pc EXCEPT ![a] = "asleep"]
      /\ ahead' = [ahead EXCEPT ![a] = reserved] /\ reserved' = reserved + w
      /\ UNCHANGED <<now, sent, ask>>
  BY DEF Reserve
<1>3. \A b \in Threads : Weight(b)' = Weight(b)
  BY <1>2 DEF Weight
<1>4. a \notin Asleep /\ Asleep' = Asleep \cup {a}
  BY <1>1, <1>2 DEF Asleep
<1>5. /\ \A b \in Asleep : Units(b)' = Units(b)
      /\ Units(a)' = reserved .. reserved + w - 1
  BY <1>1, <1>2, <1>3, <1>4 DEF Units, Asleep
<1> HIDE DEF w
<1>6. 0 .. reserved' - 1 = (0 .. reserved - 1) \cup (reserved .. reserved + w - 1)
      /\ (0 .. reserved - 1) \cap (reserved .. reserved + w - 1) = {}
  BY <1>1, <1>2
<1>7. Spent' = Spent
  <2>1. \A u : (\A b \in Asleep' : u \notin Units(b)')
                <=> (\A b \in Asleep : u \notin Units(b)) /\ u \notin reserved .. reserved + w - 1
    BY <1>4, <1>5
  <2>2. Spent' = {u \in 0 .. reserved' - 1 : \A b \in Asleep' : u \notin Units(b)'}
    BY DEF Spent
  <2> QED
    BY <1>6, <2>1, <2>2 DEF Spent
<1>8. \A b \in Asleep' : Units(b)' \subseteq 0 .. reserved' - 1
  BY <1>4, <1>5, <1>6 DEF RateInv
<1>9. ASSUME NEW b \in Asleep', NEW c \in Asleep', b # c
      PROVE  Units(b)' \cap Units(c)' = {}
  <2>1. CASE b # a /\ c # a
    BY <1>4, <1>5, <1>9, <2>1 DEF RateInv
  <2>2. CASE b = a \/ c = a
    <3>1. PICK d \in Asleep : {b, c} = {a, d}
      BY <1>4, <1>9, <2>2
    <3>2. Units(d)' \subseteq 0 .. reserved - 1
      BY <1>5 DEF RateInv
    <3>3. Units(a)' \cap Units(d)' = {}
      BY <1>5, <1>6, <3>2
    <3>4. (b = a /\ c = d) \/ (b = d /\ c = a)
      BY <1>9, <3>1
    <3> QED
      BY <3>3, <3>4
  <2> QED
    BY <2>1, <2>2
<1> QED
  BY <1>2, <1>7, <1>8, <1>9 DEF RateInv

\* A request that goes out spends its units, which lie below its slot and its weight.
LEMMA RateWake ==
  ASSUME TypeOK, LimiterType, Disjoint, RateInv, NEW a \in Threads, Wake(a)
  PROVE  RateInv'
<1> DEFINE w == Weight(a)
<1>1. /\ reserved \in Nat /\ now \in Nat /\ sent \in Nat /\ w \in 1 .. TickerWeight
      /\ TickerWeight \in Nat /\ ahead \in [Threads -> Nat] /\ due \in [Threads -> Nat]
      /\ pc \in [Threads -> {"idle", "need", "asleep", "call"}]
  BY WeightBounds, WeightType DEF TypeOK
<1>2. /\ pc[a] = "asleep" /\ pc' = [pc EXCEPT ![a] = "call"] /\ due[a] <= now
      /\ ahead' = [ahead EXCEPT ![a] = 0] /\ sent' = sent + w
      /\ UNCHANGED <<now, reserved, ask>>
  BY DEF Wake
<1>3. \A b \in Threads : Weight(b)' = Weight(b)
  BY <1>2 DEF Weight
<1>4. a \in Asleep /\ Asleep' = Asleep \ {a}
  BY <1>1, <1>2 DEF Asleep
<1>5. \A b \in Asleep' : Units(b)' = Units(b)
  BY <1>1, <1>2, <1>3, <1>4 DEF Units, Asleep
<1>6. Units(a) = ahead[a] .. ahead[a] + w - 1 /\ ahead[a] \in Nat /\ ahead[a] <= now
  BY <1>1, <1>2 DEF Units, Disjoint
<1> HIDE DEF w
<1>7. /\ IsFiniteSet(Units(a)) /\ Cardinality(Units(a)) = w
      /\ \A u \in Units(a) : u < now + TickerWeight
  <2>1. ahead[a] + w - 1 \in Int /\ ahead[a] \in Int
    BY <1>1, <1>6
  <2>2. /\ IsFiniteSet(Units(a))
        /\ Cardinality(Units(a)) = IF ahead[a] > ahead[a] + w - 1 THEN 0
                                   ELSE (ahead[a] + w - 1) - ahead[a] + 1
    BY <1>6, <2>1, FS_Interval
  <2> QED
    BY <1>1, <1>6, <2>2
<1>8. Spent' = Spent \cup Units(a)
  <2>1. Units(a) \subseteq 0 .. reserved - 1 /\ \A b \in Asleep' : Units(a) \cap Units(b) = {}
    BY <1>4 DEF RateInv
  <2>2. Spent' = {u \in 0 .. reserved - 1 : \A b \in Asleep' : u \notin Units(b)}
    BY <1>2, <1>5 DEF Spent
  <2>3. Asleep = Asleep' \cup {a}
    BY <1>4
  <2> QED
    BY <2>1, <2>2, <2>3 DEF Spent
<1>9. Spent \cap Units(a) = {}
  BY <1>4 DEF Spent
<1>10. IsFiniteSet(Spent') /\ Cardinality(Spent') = sent'
  <2>1. /\ IsFiniteSet(Spent \cup Units(a))
        /\ Cardinality(Spent \cup Units(a)) =
             Cardinality(Spent) + Cardinality(Units(a)) - Cardinality(Spent \cap Units(a))
    BY <1>7, FS_Union DEF RateInv
  <2>2. Cardinality(Spent \cap Units(a)) = 0
    BY <1>9, FS_EmptySet
  <2> QED
    BY <1>1, <1>2, <1>7, <1>8, <2>1, <2>2 DEF RateInv
<1>11. \A u \in Spent' : u < now' + TickerWeight
  BY <1>2, <1>7, <1>8 DEF RateInv
<1> QED
  BY <1>2, <1>4, <1>5, <1>10, <1>11 DEF RateInv

\* Every step keeps the rate.
LEMMA RateStep ==
  ASSUME TypeOK, Kept, LimiterType, Disjoint, RateInv, [Next]_vars
  PROVE  RateInv'
<1>1. CASE Tick
  <2>1. /\ UNCHANGED <<pc, ask, ahead, reserved, sent>> /\ now' = now + 1
        /\ now \in Nat /\ reserved \in Nat /\ TickerWeight \in Nat
    BY <1>1, WeightType DEF Tick, TypeOK
  <2>2. Asleep' = Asleep /\ Spent' = Spent /\ \A a \in Asleep : Units(a)' = Units(a)
    BY <2>1 DEF Asleep, Spent, Units, Weight
  <2>3. \A u \in Spent : u \in Int
    BY <2>1 DEF Spent
  <2>4. \A u \in Spent : u < now' + TickerWeight
    BY <2>1, <2>3 DEF RateInv
  <2> QED
    BY <2>1, <2>2, <2>4 DEF RateInv
<1>2. CASE Undisturbed
  <2>1. UNCHANGED <<ahead, reserved, sent, now>>
    BY <1>2 DEF Undisturbed, limiter
  <2>2. Asleep' = Asleep /\ \A a \in Asleep : Units(a)' = Units(a)
    BY <1>2, <2>1 DEF Undisturbed, Asleep, Units, Weight
  <2>3. Spent' = Spent
    BY <2>1, <2>2 DEF Spent
  <2> QED
    BY <2>1, <2>2, <2>3 DEF RateInv
<1> QED
  BY <1>1, <1>2, SleepSteps, RateReserve, RateWake

\* However many threads share the limiter, and however late they wake, the weight of the
\* requests that went out never exceeds the time that passed but for one ticker request
\* (WeightLimiter.acquire, which keeps _next_at and not a count).
THEOREM RateKept == Spec => []AverageRate
<1>1. Init => TypeOK /\ Kept /\ LimiterType /\ Disjoint /\ RateInv
  <2> SUFFICES ASSUME Init PROVE RateInv
    BY DEF Init, TypeOK, Kept, Staged, NoJob, Job, Threads, LimiterType, Disjoint
  <2>1. Asleep = {} /\ Spent = {}
    BY DEF Init, Asleep, Spent
  <2> QED
    BY <2>1, FS_EmptySet DEF Init, RateInv
<1>2. TypeOK /\ Kept /\ LimiterType /\ Disjoint /\ RateInv /\ [Next]_vars
        => TypeOK' /\ Kept' /\ LimiterType' /\ Disjoint' /\ RateInv'
  BY TypeStep, KeptStep, LimiterNext, RateStep
<1>3. TypeOK /\ RateInv => AverageRate
  <2> SUFFICES ASSUME TypeOK, RateInv PROVE AverageRate
    OBVIOUS
  <2> DEFINE top == now + TickerWeight - 1
  <2>1. top \in Nat /\ reserved \in Nat /\ now \in Nat /\ TickerWeight \in Nat /\ sent \in Nat
    BY WeightType DEF TypeOK
  <2>2. Spent \subseteq 0 .. top
    BY <2>1 DEF RateInv, Spent
  <2>3. IsFiniteSet(0 .. top) /\ Cardinality(0 .. top) = top + 1
    <3> HIDE DEF top
    <3> QED
      BY <2>1, FS_Interval
  <2>4. Cardinality(Spent) <= Cardinality(0 .. top)
    BY <2>2, <2>3, FS_Subset
  <2> QED
    BY <2>1, <2>3, <2>4 DEF RateInv, AverageRate
<1> QED
  BY <1>1, <1>2, <1>3, PTL DEF Spec
=============================================================================
