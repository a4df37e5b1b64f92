----------------------------- MODULE PaperEngine -----------------------------
(***************************************************************************)
(* The paper trading engine: the worker thread, which runs                 *)
(* Orchestrator.run_cycle for ever, and the dashboard's event loop, whose  *)
(* /api/paper/execute and /api/paper/close handlers trade on the same      *)
(* SQLite file through a connection of their own.                          *)
(*                                                                         *)
(* A step is one committed statement, or one read and the decisions taken  *)
(* on it up to the next read or write of shared state.  Between two steps  *)
(* of an actor the other one may run, the operator may flip the kill       *)
(* switch, and the process may be killed.                                  *)
(***************************************************************************)
EXTENDS Integers, FiniteSets, Functions

CONSTANTS
  Worker,        \* the worker thread
  Web,           \* dashboard event loops that trade: {} or one of them
  Symbols,       \* the scanned symbols
  Signals,       \* signal ids (symbol:direction:strategy:candle_close_time)
  SymbolOf,      \* the symbol of each signal
  NoActor,       \* the opener of an unused row
  NoSignal,      \* the signal of a row that no signal caused
  OtherModes,    \* whether the operator ever leaves paper mode (for testnet)
  Markets,       \* what a ticker may be like, see market
  MaxPositions,  \* settings.max_simultaneous_positions
  StartBalance,  \* settings.simulated_starting_balance, in units of one loss
  DailyLossPct,  \* settings.max_daily_loss_pct, in percent
  Pnls,          \* the results a close can have, in the same units
  MaxTrades,     \* bound: rows the trades table may get
  MaxFaults      \* bound: how often the process or the worker's cycle is cut off

ASSUME ActorsDiffer == Worker \notin Web /\ NoActor \notin Web \cup {Worker}
ASSUME NoSignalType == NoSignal \notin Signals
ASSUME SymbolOfType == SymbolOf \in [Signals -> Symbols]
ASSUME ModesType == OtherModes \in BOOLEAN
ASSUME MarketsType == Markets \subseteq {"any", "hit"} /\ "any" \in Markets
ASSUME PnlsType == Pnls \subseteq Int
ASSUME BoundsType == MaxTrades \in Nat /\ MaxFaults \in Nat

Actors == {Worker} \cup Web
TradeIds == 1 .. MaxTrades
NoTrade == 0

VARIABLES
  \* ------- the database file: survives a crash
  trades,     \* table trades: row id -> record
  nextId,     \* its AUTOINCREMENT counter
  seen,       \* table seen_signals, the scanner's marks
  execSeen,   \* table seen_signals, the "exec:" marks
  halted,     \* table kill_switch
  \* ------- the process: lost in a crash
  pc,         \* what each actor does next
  todo,       \* symbols the running scan has still to visit
  queue,      \* fresh signals of the finished scan, not yet processed
  cur,        \* the signal the worker is processing
  left,       \* rows of the snapshot that reconcile or monitor walks
  tgt,        \* the row each actor has decided to close
  \* ------- the environment
  market,     \* what a ticker answers: surely an exit level, or anything
  faulty,     \* signals one of whose two marks was lost in a storage error
  faults,     \* how often the process was killed or a cycle failed
  \* ------- history, read by no action
  late        \* actor -> rows it created since the kill switch was set

db == <<trades, nextId, seen, execSeen, halted>>
cycle == <<todo, queue, cur>>
env == <<market, faulty, faults>>
vars == <<db, pc, cycle, left, tgt, env, late>>

Status == {"none", "OPEN", "CLOSED"}
WorkerSteps == {"sleep", "recon", "sync", "check", "scan", "gate", "size", "dup",
                "mark", "open", "insert", "monitor", "watch", "settle", "dead"}
WebSteps == {"idle", "size", "open", "insert", "settle"}
StepsOf(a) == IF a = Worker THEN WorkerSteps ELSE WebSteps
Trade == [status : Status, opener : Actors \cup {NoActor},
          sig : Signals \cup {NoSignal}, pnl : Int,
          settlers : SUBSET Actors, writes : Nat]   \* the last two are history
NoRow == [status |-> "none", opener |-> NoActor, sig |-> NoSignal,
          pnl |-> 0, settlers |-> {}, writes |-> 0]

TypeOK ==
  /\ trades \in [TradeIds -> Trade]
  /\ nextId \in 1 .. MaxTrades + 1
  /\ seen \subseteq Signals /\ execSeen \subseteq Signals
  /\ halted \in BOOLEAN
  /\ pc \in [Actors -> WorkerSteps \cup WebSteps]
  /\ \A a \in Actors : pc[a] \in StepsOf(a)
  /\ todo \subseteq Symbols /\ queue \subseteq Signals
  /\ cur \in Signals \cup {NoSignal}
  /\ left \subseteq TradeIds
  /\ tgt \in [Actors -> TradeIds \cup {NoTrade}]
  /\ market \in Markets
  /\ faulty \subseteq Signals
  /\ faults \in 0 .. MaxFaults
  /\ late \in [Actors -> Nat]

Init ==
  /\ trades = [t \in TradeIds |-> NoRow]
  /\ nextId = 1
  /\ seen = {} /\ execSeen = {}
  /\ halted = FALSE
  /\ pc = [a \in Actors |-> IF a = Worker THEN "sleep" ELSE "idle"]
  /\ todo = {} /\ queue = {} /\ cur = NoSignal
  /\ left = {}
  /\ tgt = [a \in Actors |-> NoTrade]
  /\ market = "any" /\ faulty = {} /\ faults = 0
  /\ late = [a \in Actors |-> 0]

-----------------------------------------------------------------------------
(* Storage                                                                 *)

\* Storage.open_positions: the ids of the OPEN rows.
OpenPositions == {t \in TradeIds : trades[t].status = "OPEN"}

\* Storage.open_trade, committed by actor a for signal g.
OpenTrade(a, g) ==
  /\ nextId <= MaxTrades
  /\ trades' = [trades EXCEPT ![nextId] = [status |-> "OPEN", opener |-> a, sig |-> g,
                                           pnl |-> 0, settlers |-> {}, writes |-> 0]]
  /\ nextId' = nextId + 1

\* Storage.close_trade, committed by actor a: the UPDATE names the row by id
\* alone and does not look at its status.
CloseTrade(a, t, pnl) ==
  trades' = [trades EXCEPT ![t].status = "CLOSED", ![t].pnl = pnl,
                           ![t].settlers = @ \cup {a}, ![t].writes = @ + 1]

\* Storage.equity_summary: the realized result of all rows.
Realized == FoldFunction(LAMBDA x, y : x + y, 0, [t \in TradeIds |-> trades[t].pnl])

-----------------------------------------------------------------------------
(* Kill switch and sizer                                                   *)

\* KillSwitch.daily_loss_used: table daily_loss is written by
\* record_trade_result alone, which no production code calls.
DailyLossUsed == 0

\* Sizer.calculate, as far as shared state decides it: haltedThen is the flag
\* the caller read, nOpen the number of rows it counted.  Prices that fail the
\* sizer's other conditions are the rejection its callers may always get.
SizerAdmits(haltedThen, equity, nOpen) ==
  /\ ~ haltedThen
  /\ DailyLossUsed * 100 < equity * DailyLossPct
  /\ nOpen < MaxPositions

\* The operator halts and resumes.
Halt ==
  /\ halted' = TRUE
  /\ UNCHANGED <<trades, nextId, seen, execSeen, pc, cycle, left, tgt, env, late>>

Resume ==
  /\ halted' = FALSE
  /\ late' = [a \in Actors |-> 0]
  /\ UNCHANGED <<trades, nextId, seen, execSeen, pc, cycle, left, tgt, env>>

-----------------------------------------------------------------------------
(* What both actors do through PaperTrader                                 *)

Goto(a, step) == pc' = [pc EXCEPT ![a] = step]

\* An attempt to open ended, with or without a row: the worker turns to the
\* next scan result, the handler answers its request.
EndAttempt(a) ==
  /\ Goto(a, IF a = Worker THEN "gate" ELSE "idle")
  /\ cur' = IF a = Worker THEN NoSignal ELSE cur

\* open_position, first read: refuse when a row is OPEN, else fetch a price.
OpenCheck(a) ==
  /\ pc[a] = "open"
  /\ \/ /\ OpenPositions = {}
        /\ Goto(a, "insert")
        /\ UNCHANGED cur
     \/ /\ OpenPositions # {}
        /\ EndAttempt(a)
  /\ UNCHANGED <<db, todo, queue, left, tgt, env, late>>

\* Seeded fault: the statements after the INSERT raise and the caller retries.
InsertRetried(a) ==
  /\ pc[a] = "insert"
  /\ OpenTrade(a, IF a = Worker THEN cur ELSE NoSignal)
  /\ late' = IF halted THEN [late EXCEPT ![a] = @ + 1] ELSE late
  /\ UNCHANGED <<seen, execSeen, halted, pc, cycle, left, tgt, env>>

\* open_position, last step: the row is inserted with what was decided before.
Insert(a) ==
  /\ pc[a] = "insert"
  /\ OpenTrade(a, IF a = Worker THEN cur ELSE NoSignal)
  /\ late' = IF halted THEN [late EXCEPT ![a] = @ + 1] ELSE late
  /\ EndAttempt(a)
  /\ UNCHANGED <<seen, execSeen, halted, todo, queue, left, tgt, env>>

\* The insert raises: run_cycle and the handler turn that into a refusal.
InsertFails(a) ==
  /\ pc[a] = "insert"
  /\ EndAttempt(a)
  /\ UNCHANGED <<db, todo, queue, left, tgt, env, late>>

\* Seeded fault: the lookup finds closed rows too.
LookupAny(a, t) ==
  IF trades[t].status # "none"
  THEN Goto(a, "settle") /\ tgt' = [tgt EXCEPT ![a] = t]
  ELSE UNCHANGED <<pc, tgt>>

\* close_position, its lookup: only an OPEN row is taken on.
Lookup(a, t) ==
  IF trades[t].status = "OPEN"
  THEN Goto(a, "settle") /\ tgt' = [tgt EXCEPT ![a] = t]
  ELSE UNCHANGED <<pc, tgt>>

\* close_position, its write.
Settle(a) ==
  /\ pc[a] = "settle"
  /\ \E pnl \in Pnls : CloseTrade(a, tgt[a], pnl)
  /\ tgt' = [tgt EXCEPT ![a] = NoTrade]
  /\ Goto(a, IF a = Worker THEN "watch" ELSE "idle")
  /\ UNCHANGED <<nextId, seen, execSeen, halted, cycle, left, env, late>>

-----------------------------------------------------------------------------
(* The worker: worker.main and Orchestrator.run_cycle                      *)

\* The loop starts a cycle unless the kill switch is set; while it is set the
\* loop sleeps and nothing below happens, monitoring included.
StartCycle ==
  /\ pc[Worker] = "sleep"
  /\ ~ halted
  /\ Goto(Worker, "recon")
  /\ UNCHANGED <<db, cycle, left, tgt, env, late>>

\* Seeded fault: the query has lost its WHERE status='OPEN'.
ReconcileAll ==
  /\ pc[Worker] = "recon"
  /\ OtherModes
  /\ Goto(Worker, "sync")
  /\ left' = {t \in TradeIds : trades[t].status # "none"}
  /\ UNCHANGED <<db, cycle, tgt, env, late>>

\* ReconciliationService.reconcile: nothing in paper mode; in another mode it
\* takes the OPEN rows to compare them with the exchange, or gives up on an
\* error.  The mode is a field of the shared settings object, which the
\* operator may set between any two steps, so each cycle may find either one.
Reconcile ==
  /\ pc[Worker] = "recon"
  /\ \/ /\ OtherModes
        /\ Goto(Worker, "sync")
        /\ left' = OpenPositions
     \/ /\ Goto(Worker, "check")
        /\ UNCHANGED left
  /\ UNCHANGED <<db, cycle, tgt, env, late>>

\* For each of them: closed with result 0 when the exchange shows no position
\* in the symbol, which is external; else left alone.
ReconcileTrade(t) ==
  /\ pc[Worker] = "sync"
  /\ t \in left
  /\ left' = left \ {t}
  /\ CloseTrade(Worker, t, 0) \/ UNCHANGED trades
  /\ UNCHANGED <<nextId, seen, execSeen, halted, pc, cycle, tgt, env, late>>

EndReconcile ==
  /\ pc[Worker] = "sync"
  /\ left = {}
  /\ Goto(Worker, "check")
  /\ UNCHANGED <<db, cycle, left, tgt, env, late>>

\* run_cycle: a halt ends the cycle here, before the scan and the monitoring.
HaltCheck ==
  /\ pc[Worker] = "check"
  /\ \/ /\ halted
        /\ Goto(Worker, "sleep")
        /\ UNCHANGED cycle
     \/ /\ ~ halted
        /\ Goto(Worker, "scan")
        /\ todo' = Symbols
        /\ queue' = {}
        /\ cur' = NoSignal
  /\ UNCHANGED <<db, left, tgt, env, late>>

\* mark_signal_seen answers False when the INSERT raises, and both callers
\* ignore the answer: the mark is lost.  Bound: one lost mark per signal.
Mark(marks, g) ==
  \/ marks' = marks \cup {g} /\ UNCHANGED faulty
  \/ g \notin faulty /\ faulty' = faulty \cup {g} /\ UNCHANGED marks

\* scan_symbol: no signal, a signal seen before, or a fresh one, which is
\* marked and queued unless what follows the mark raises (scan_once catches).
ScanSymbol(s) ==
  /\ pc[Worker] = "scan"
  /\ s \in todo
  /\ todo' = todo \ {s}
  /\ \/ UNCHANGED <<seen, queue, faulty>>
     \/ \E g \in Signals \ seen :
          /\ SymbolOf[g] = s
          /\ Mark(seen, g)
          /\ queue' \in {queue, queue \cup {g}}
  /\ UNCHANGED <<trades, nextId, execSeen, halted, pc, cur, left, tgt,
                 market, faults, late>>

EndScan ==
  /\ pc[Worker] = "scan"
  /\ todo = {}
  /\ Goto(Worker, "gate")
  /\ UNCHANGED <<db, cycle, left, tgt, env, late>>

\* The rug check lets the next signal pass to the sizer or drops it (HIGH and
\* UNKNOWN); with none left the cycle turns to monitoring.
RugGate ==
  /\ pc[Worker] = "gate"
  /\ \/ \E g \in queue :
          /\ queue' = queue \ {g}
          /\ \/ Goto(Worker, "size") /\ cur' = g
             \/ UNCHANGED <<pc, cur>>
     \/ queue = {} /\ Goto(Worker, "monitor") /\ UNCHANGED <<queue, cur>>
  /\ UNCHANGED <<db, todo, left, tgt, env, late>>

\* The sizer, on the kill switch, equity and rows read at this moment.
Size ==
  /\ pc[Worker] = "size"
  /\ \/ /\ SizerAdmits(halted, StartBalance + Realized, Cardinality(OpenPositions))
        /\ Goto(Worker, "dup")
        /\ UNCHANGED cur
     \/ EndAttempt(Worker)
  /\ UNCHANGED <<db, todo, queue, left, tgt, env, late>>

\* run_cycle's own look for an OPEN row.
DupCheck ==
  /\ pc[Worker] = "dup"
  /\ \/ /\ OpenPositions = {}
        /\ Goto(Worker, "mark")
        /\ UNCHANGED cur
     \/ /\ OpenPositions # {}
        /\ EndAttempt(Worker)
  /\ UNCHANGED <<db, todo, queue, left, tgt, env, late>>

\* Seeded fault: marks without looking first.
MarkUnseen ==
  /\ pc[Worker] = "mark"
  /\ Mark(execSeen, cur)
  /\ Goto(Worker, "open")
  /\ UNCHANGED <<trades, nextId, seen, halted, cycle, left, tgt, market, faults, late>>

\* Execution-level idempotency: skip a signal marked "exec:", else mark it.
MarkExecuted ==
  /\ pc[Worker] = "mark"
  /\ \/ /\ cur \in execSeen
        /\ EndAttempt(Worker)
        /\ UNCHANGED <<execSeen, faulty>>
     \/ /\ cur \notin execSeen
        /\ Mark(execSeen, cur)
        /\ Goto(Worker, "open")
        /\ UNCHANGED cur
  /\ UNCHANGED <<trades, nextId, seen, halted, todo, queue, left, tgt,
                 market, faults, late>>

\* PaperTrader.monitor takes the OPEN rows ...
Monitor ==
  /\ pc[Worker] = "monitor"
  /\ Goto(Worker, "watch")
  /\ left' = OpenPositions
  /\ UNCHANGED <<db, cycle, tgt, env, late>>

\* ... and for each asks a price: off its exit levels or unavailable, it goes
\* on; at one of them, it closes the row.
WatchTrade(t) ==
  /\ pc[Worker] = "watch"
  /\ t \in left
  /\ left' = left \ {t}
  /\ \/ market = "any" /\ UNCHANGED <<pc, tgt>>
     \/ Lookup(Worker, t)
  /\ UNCHANGED <<db, cycle, env, late>>

\* Seeded fault: monitor returns before the last row.
EndCycleEarly ==
  /\ pc[Worker] = "watch"
  /\ Goto(Worker, "sleep")
  /\ left' = {}
  /\ UNCHANGED <<db, cycle, tgt, env, late>>

EndCycle ==
  /\ pc[Worker] = "watch"
  /\ left = {}
  /\ Goto(Worker, "sleep")
  /\ UNCHANGED <<db, cycle, left, tgt, env, late>>

\* A statement that run_cycle does not guard raises: main logs it and loops, the
\* rest of the cycle is lost.  When the two heartbeats that report the failure
\* raise too, the thread is gone while the process lives on.
CycleFails ==
  /\ pc[Worker] # "dead"
  /\ faults < MaxFaults
  /\ faults' = faults + 1
  /\ \/ Goto(Worker, "sleep")
     \/ Goto(Worker, "dead")
  /\ todo' = {} /\ queue' = {} /\ cur' = NoSignal
  /\ left' = {}
  /\ tgt' = [tgt EXCEPT ![Worker] = NoTrade]
  /\ UNCHANGED <<db, market, faulty, late>>

-----------------------------------------------------------------------------
(* The dashboard's event loop                                              *)

\* Seeded fault: the kill switch is not read.
ExecuteHalted(d) ==
  /\ pc[d] = "idle"
  /\ Goto(d, "size")
  /\ UNCHANGED <<db, cycle, left, tgt, env, late>>

\* POST /api/paper/execute: the kill switch is read once, here ...
ExecuteRequest(d) ==
  /\ pc[d] = "idle"
  /\ ~ halted
  /\ Goto(d, "size")
  /\ UNCHANGED <<db, cycle, left, tgt, env, late>>

\* ... and the sizer gets that reading and the balance the request names, by
\* default the starting balance.
ExecuteSize(d) ==
  /\ pc[d] = "size"
  /\ \/ /\ OpenPositions = {}
        /\ SizerAdmits(FALSE, StartBalance, Cardinality(OpenPositions))
        /\ Goto(d, "open")
     \/ Goto(d, "idle")
  /\ UNCHANGED <<db, cycle, left, tgt, env, late>>

\* POST /api/paper/close/{trade_id}: allowed while halted.
CloseRequest(d, t) ==
  /\ pc[d] = "idle"
  /\ Lookup(d, t)
  /\ UNCHANGED <<db, cycle, left, env, late>>

-----------------------------------------------------------------------------
(* The environment                                                         *)

\* Prices come to rest beyond an exit level, or move on.
MarketMoves ==
  /\ market' \in Markets \ {market}
  /\ UNCHANGED <<db, pc, cycle, left, tgt, faulty, faults, late>>

\* The process is killed and started again: the threads lose everything but
\* the database, and settings come from the environment again.
Crash ==
  /\ faults < MaxFaults
  /\ faults' = faults + 1
  /\ pc' = [a \in Actors |-> IF a = Worker THEN "sleep" ELSE "idle"]
  /\ todo' = {} /\ queue' = {} /\ cur' = NoSignal
  /\ left' = {}
  /\ tgt' = [a \in Actors |-> NoTrade]
  /\ UNCHANGED <<db, market, faulty, late>>

-----------------------------------------------------------------------------
WorkerNext ==
  \/ StartCycle \/ Reconcile \/ EndReconcile \/ HaltCheck
  \/ EndScan \/ RugGate \/ Size \/ DupCheck \/ MarkExecuted
  \/ OpenCheck(Worker) \/ Insert(Worker) \/ InsertFails(Worker)
  \/ Monitor \/ EndCycle \/ Settle(Worker)
  \/ \E s \in Symbols : ScanSymbol(s)
  \/ \E t \in TradeIds : ReconcileTrade(t) \/ WatchTrade(t)

WebNext(d) ==
  \/ ExecuteRequest(d) \/ ExecuteSize(d)
  \/ OpenCheck(d) \/ Insert(d) \/ InsertFails(d) \/ Settle(d)
  \/ \E t \in TradeIds : CloseRequest(d, t)

Next ==
  \/ WorkerNext
  \/ \E d \in Web : WebNext(d)
  \/ Halt \/ Resume \/ MarketMoves \/ CycleFails \/ Crash

Spec == Init /\ [][Next]_vars

\* The interpreter keeps scheduling the worker thread; requests, operators,
\* markets and crashes owe nobody anything.
FairSpec == Spec /\ WF_vars(WorkerNext)

-----------------------------------------------------------------------------
(* Properties                                                              *)

\* Each actor re-reads open_positions between its last row and its next one,
\* so it never holds two OPEN rows of its own: the check-then-insert race of
\* open_position costs at most one extra position per concurrent actor.
OneOpenPerActor ==
  \A t, u \in OpenPositions : trades[t].opener = trades[u].opener => t = u

\* Signal-seen tracking: a scanned signal becomes at most one row, in spite of
\* crashes, rescans of the same candle and one lost mark out of two.
ExecutedOnce ==
  \A t, u \in TradeIds :
    trades[t].sig # NoSignal /\ trades[t].sig = trades[u].sig => t = u

\* After a halt an actor creates at most the one row it was already working
\* on, until the operator resumes; crashes included.
HaltBoundsEntries == \A a \in Actors : late[a] > 0 => halted /\ late[a] = 1

\* Refinement: the trades table moves only as TradeBook allows.
BookRows == [t \in TradeIds |-> [status |-> trades[t].status, opener |-> trades[t].opener,
                                settlers |-> trades[t].settlers,
                                writes |-> trades[t].writes]]
Book == INSTANCE TradeBook WITH book <- BookRows
BookSpec == Book!Spec

\* settings.max_simultaneous_positions bounds the OPEN rows.
PositionLimit == Cardinality(OpenPositions) <= MaxPositions

\* The result of a closed row is final: no later write replaces it.
ResultFinal ==
  [][\A t \in TradeIds : trades[t].status = "CLOSED" => trades'[t] = trades[t]]_vars

\* Once the realized losses reach the daily limit the sizer admits no entry.
Lost == FoldFunction(LAMBDA x, y : x + y, 0,
                     [t \in TradeIds |-> IF trades[t].pnl < 0 THEN - trades[t].pnl ELSE 0])
DailyLossStopsEntries ==
  [][pc[Worker] = "size" /\ pc'[Worker] = "dup"
       => Lost * 100 < (StartBalance + Realized) * DailyLossPct]_vars

\* SL/TP monitoring: while the price stays at an exit level, nobody halts and the
\* worker thread lives, an open position gets closed, across restarts.
StopsHonoured ==
  <>[](market = "hit" /\ ~ halted /\ pc[Worker] # "dead") =>
    \A t \in TradeIds : trades[t].status = "OPEN" ~> trades[t].status = "CLOSED"
=============================================================================
