------------------------- MODULE PaperEngineProofs -------------------------
(***************************************************************************)
(* Theorems about PaperEngine, for any number of event loops, symbols,     *)
(* signals, rows and faults.                                               *)
(***************************************************************************)
EXTENDS PaperEngine, FiniteSetTheorems, TLAPS

-----------------------------------------------------------------------------
(* Types                                                                   *)

\* The worker processes a signal exactly at the steps of an attempt.
Attempt == {"size", "dup", "mark", "open", "insert"}
Held == cur # NoSignal <=> pc[Worker] \in Attempt

\* The initial state is well-typed.
LEMMA InitType == Init => TypeOK /\ Held
<1> SUFFICES ASSUME Init PROVE TypeOK /\ Held
  OBVIOUS
<1>1. NoRow \in Trade
  BY DEF NoRow, Trade, Status
<1>2. 1 \in 1 .. MaxTrades + 1 /\ 0 \in 0 .. MaxFaults
  BY BoundsType
<1>3. pc \in [Actors -> WorkerSteps \cup WebSteps] /\ \A a \in Actors : pc[a] \in StepsOf(a)
  BY DEF Init, WorkerSteps, WebSteps, StepsOf
<1>4. late \in [Actors -> Nat] /\ tgt \in [Actors -> TradeIds \cup {NoTrade}]
  BY DEF Init
<1>5. TypeOK
  BY <1>1, <1>2, <1>3, <1>4, MarketsType DEF Init, TypeOK
<1>6. Held
  BY DEF Init, Held, Attempt, Actors
<1> QED
  BY <1>5, <1>6

\* The row close_trade writes is again a row.
LEMMA SettledRow ==
  ASSUME NEW row \in Trade, NEW a \in Actors, NEW pnl \in Int
  PROVE  [row EXCEPT !.status = "CLOSED", !.pnl = pnl,
                     !.settlers = @ \cup {a}, !.writes = @ + 1] \in Trade
<1> DEFINE r1 == [row EXCEPT !.status = "CLOSED"]
           r2 == [r1 EXCEPT !.pnl = pnl]
           r3 == [r2 EXCEPT !.settlers = @ \cup {a}]
           r4 == [r3 EXCEPT !.writes = @ + 1]
<1>1. r1 \in Trade
  BY DEF Trade, Status
<1>2. r2 \in Trade
  <2> HIDE DEF r1
  <2> QED  BY <1>1 DEF Trade
<1>3. r3 \in Trade
  <2> HIDE DEF r2
  <2> QED  BY <1>2 DEF Trade
<1>4. r4 \in Trade
  <2> HIDE DEF r3
  <2> QED  BY <1>3 DEF Trade
<1>5. r4 = [row EXCEPT !.status = "CLOSED", !.pnl = pnl,
                       !.settlers = @ \cup {a}, !.writes = @ + 1]
  OBVIOUS
<1> QED
  BY <1>4, <1>5

\* close_trade updates an existing row and leaves all others alone.
LEMMA CloseEffect ==
  ASSUME TypeOK, NEW a \in Actors, NEW t \in TradeIds, NEW pnl \in Int,
         CloseTrade(a, t, pnl)
  PROVE  /\ trades' \in [TradeIds -> Trade]
         /\ trades'[t].status = "CLOSED"
         /\ trades'[t].opener = trades[t].opener
         /\ trades'[t].sig = trades[t].sig
         /\ trades'[t].settlers = trades[t].settlers \cup {a}
         /\ trades'[t].writes = trades[t].writes + 1
         /\ \A u \in TradeIds : u # t => trades'[u] = trades[u]
<1> DEFINE row == [trades[t] EXCEPT !.status = "CLOSED", !.pnl = pnl,
                                    !.settlers = @ \cup {a}, !.writes = @ + 1]
<1>1. trades[t] \in Trade
  BY DEF TypeOK
<1>2. row \in Trade
  BY <1>1, SettledRow
<1>3. trades' = [trades EXCEPT ![t] = row]
  BY DEF CloseTrade
<1>4. /\ row.status = "CLOSED"
      /\ row.opener = trades[t].opener
      /\ row.sig = trades[t].sig
      /\ row.settlers = trades[t].settlers \cup {a}
      /\ row.writes = trades[t].writes + 1
  BY <1>1 DEF Trade
<1> HIDE DEF row
<1> QED
  BY <1>2, <1>3, <1>4 DEF TypeOK

\* Every step keeps the state well-typed.
LEMMA NextType == TypeOK /\ Held /\ [Next]_vars => TypeOK' /\ Held'
<1> SUFFICES ASSUME TypeOK, Held, [Next]_vars PROVE TypeOK' /\ Held'
  OBVIOUS
<1> USE ActorsDiffer, NoSignalType DEF TypeOK, Held, Attempt, WorkerSteps, WebSteps, StepsOf, Actors, NoTrade
<1>1. CASE StartCycle
  BY <1>1 DEF StartCycle, Goto, db, cycle, env
<1>2. CASE Reconcile
  BY <1>2 DEF Reconcile, OpenPositions, Goto, db, cycle, env
<1>3. CASE EndReconcile
  BY <1>3 DEF EndReconcile, Goto, db, cycle, env
<1>4. CASE HaltCheck
  BY <1>4 DEF HaltCheck, Goto, db, cycle, env
<1>5. CASE EndScan
  BY <1>5 DEF EndScan, Goto, db, cycle, env
<1>6. CASE RugGate
  BY <1>6 DEF RugGate, Goto, db, cycle, env
<1>7. CASE Size
  BY <1>7 DEF Size, EndAttempt, Goto, db, cycle, env
<1>8. CASE DupCheck
  BY <1>8 DEF DupCheck, EndAttempt, Goto, db, cycle, env
<1>9. CASE MarkExecuted
  BY <1>9 DEF MarkExecuted, EndAttempt, Mark, Goto, db, cycle, env
<1>10. CASE Monitor
  BY <1>10 DEF Monitor, OpenPositions, Goto, db, cycle, env
<1>11. CASE EndCycle
  BY <1>11 DEF EndCycle, Goto, db, cycle, env
<1>12. CASE Halt
  BY <1>12 DEF Halt, Goto, db, cycle, env
<1>13. CASE Resume
  BY <1>13 DEF Resume, Goto, db, cycle, env
<1>14. CASE MarketMoves
  BY <1>14 DEF MarketMoves, Goto, db, cycle, env
<1>15. CASE CycleFails
  BY <1>15, BoundsType DEF CycleFails, Goto, db, cycle, env
<1>16. CASE Crash
  <2>1. pc' \in [Actors -> WorkerSteps \cup WebSteps] /\ \A a \in Actors : pc'[a] \in StepsOf(a)
    BY <1>16 DEF Crash
  <2>2. tgt' \in [Actors -> TradeIds \cup {NoTrade}]
    BY <1>16 DEF Crash
  <2>3. faults' \in 0 .. MaxFaults
    BY <1>16, BoundsType DEF Crash
  <2>4. Held'
    BY <1>16 DEF Crash
  <2> QED
    BY <1>16, <2>1, <2>2, <2>3, <2>4 DEF Crash, db
<1>17. ASSUME NEW a \in Actors, OpenCheck(a) PROVE TypeOK' /\ Held'
  BY <1>17 DEF OpenCheck, EndAttempt, Goto, db, cycle, env
<1>18. ASSUME NEW a \in Actors, Insert(a) PROVE TypeOK' /\ Held'
  <2>1. trades' \in [TradeIds -> Trade] /\ nextId' \in 1 .. MaxTrades + 1
    <3>1. PICK g \in Signals \cup {NoSignal} : OpenTrade(a, g)
      BY <1>18 DEF Insert
    <3>2. [status |-> "OPEN", opener |-> a, sig |-> g, pnl |-> 0,
           settlers |-> {}, writes |-> 0] \in Trade
      BY DEF Trade, Status
    <3> QED
      BY <3>1, <3>2, BoundsType DEF OpenTrade, TradeIds
  <2>2. late' \in [Actors -> Nat]
    BY <1>18 DEF Insert
  <2> QED
    BY <1>18, <2>1, <2>2 DEF Insert, EndAttempt, Goto, env
<1>19. ASSUME NEW a \in Actors, InsertFails(a) PROVE TypeOK' /\ Held'
  BY <1>19 DEF InsertFails, EndAttempt, Goto, db, cycle, env
<1>20. ASSUME NEW a \in Actors, Settle(a) PROVE TypeOK' /\ Held'
  <2>1. PICK pnl \in Int : CloseTrade(a, tgt[a], pnl)
    BY <1>20, PnlsType DEF Settle
  <2>2. trades' \in [TradeIds -> Trade]
    <3>1. CASE tgt[a] \in TradeIds
      BY <2>1, <3>1, CloseEffect
    <3>2. CASE tgt[a] \notin TradeIds
      BY <2>1, <3>2 DEF CloseTrade
    <3> QED
      BY <3>1, <3>2
  <2>3. tgt' \in [Actors -> TradeIds \cup {NoTrade}]
    BY <1>20 DEF Settle
  <2> QED
    BY <1>20, <2>2, <2>3 DEF Settle, Goto, cycle, env
<1>21. ASSUME NEW t \in TradeIds, ReconcileTrade(t) PROVE TypeOK' /\ Held'
  <2>1. trades' \in [TradeIds -> Trade]
    BY <1>21, CloseEffect DEF ReconcileTrade
  <2> QED
    BY <1>21, <2>1 DEF ReconcileTrade, cycle, env
<1>22. ASSUME NEW t \in TradeIds, WatchTrade(t) PROVE TypeOK' /\ Held'
  BY <1>22 DEF WatchTrade, Lookup, Goto, db, cycle, env
<1>23. ASSUME NEW s \in Symbols, ScanSymbol(s) PROVE TypeOK' /\ Held'
  BY <1>23 DEF ScanSymbol, Mark, Goto, db, cycle, env
<1>24. ASSUME NEW d \in Web, ExecuteRequest(d) PROVE TypeOK' /\ Held'
  BY <1>24 DEF ExecuteRequest, Goto, db, cycle, env
<1>25. ASSUME NEW d \in Web, ExecuteSize(d) PROVE TypeOK' /\ Held'
  BY <1>25 DEF ExecuteSize, Goto, db, cycle, env
<1>26. ASSUME NEW d \in Web, NEW t \in TradeIds, CloseRequest(d, t) PROVE TypeOK' /\ Held'
  BY <1>26 DEF CloseRequest, Lookup, Goto, db, cycle, env
<1>27. CASE UNCHANGED vars
  BY <1>27 DEF vars, db, cycle, env
<1> QED
  BY <1>1, <1>2, <1>3, <1>4, <1>5, <1>6, <1>7, <1>8, <1>9, <1>10, <1>11, <1>12, <1>13, <1>14, <1>15, <1>16, <1>17, <1>18, <1>19, <1>20, <1>21, <1>22, <1>23, <1>24, <1>25, <1>26, <1>27
  DEF Next, WorkerNext, WebNext

\* Every reachable state is well-typed.
THEOREM TypeCorrect == Spec => [](TypeOK /\ Held)
  <1>1. Init => TypeOK /\ Held
  BY InitType
<1>2. TypeOK /\ Held /\ [Next]_vars => (TypeOK /\ Held)'
  BY NextType
<1> QED
  BY <1>1, <1>2, PTL DEF Spec

-----------------------------------------------------------------------------
(* Rows                                                                    *)

\* Rows from nextId on are unused.
Fresh == \A t \in TradeIds : t >= nextId => trades[t] = NoRow

\* An OPEN row has an opener and was not settled yet.
OpenRows == \A t \in OpenPositions : trades[t].opener \in Actors /\ trades[t].settlers = {}

\* A CLOSED row was settled by somebody.
ClosedRows == \A t \in TradeIds : trades[t].status = "CLOSED" => trades[t].settlers # {}

\* About to insert, an actor has no OPEN row of its own: it looked, and only it
\* can add one.
Alone == \A a \in Actors : pc[a] = "insert" =>
           \A t \in OpenPositions : trades[t].opener # a

\* The row an actor is about to settle exists and it has not settled it before;
\* the same holds for the rows reconcile has still to visit.
Unsettled(a, t) == t \in TradeIds /\ trades[t].status # "none" /\ a \notin trades[t].settlers
Targets ==
  /\ \A a \in Actors : pc[a] = "settle" => Unsettled(a, tgt[a])
  /\ pc[Worker] = "sync" => \A t \in left : Unsettled(Worker, t)

RowInv == Fresh /\ OpenRows /\ ClosedRows /\ Alone /\ OneOpenPerActor /\ Targets

\* A step that writes no row: an actor gets to the insert only past an empty
\* table, and takes on only rows that are OPEN.
Quiet ==
  /\ UNCHANGED <<trades, nextId>>
  /\ \A a \in Actors : pc'[a] = "insert" => pc[a] = "insert" \/ OpenPositions = {}
  /\ \A a \in Actors : pc'[a] = "settle" =>
       \/ pc[a] = "settle" /\ tgt'[a] = tgt[a]
       \/ tgt'[a] \in OpenPositions
  /\ pc'[Worker] = "sync" =>
       \/ pc[Worker] = "sync" /\ left' = left
       \/ left' = OpenPositions

\* Three kinds of steps write a row, all others are quiet.
LEMMA StepKinds ==
  ASSUME TypeOK, [Next]_vars
  PROVE  \/ Quiet
         \/ \E a \in Actors : Insert(a) \/ Settle(a)
         \/ \E t \in TradeIds : ReconcileTrade(t)
<1> USE ActorsDiffer DEF TypeOK, Quiet, Actors
<1>1. CASE StartCycle
  BY <1>1 DEF StartCycle, Goto, db, cycle, env
<1>2. CASE Reconcile
  BY <1>2 DEF Reconcile, OpenPositions, Goto, db, cycle, env
<1>3. CASE EndReconcile
  BY <1>3 DEF EndReconcile, Goto, db, cycle, env
<1>4. CASE HaltCheck
  BY <1>4 DEF HaltCheck, Goto, db, cycle, env
<1>5. CASE EndScan
  BY <1>5 DEF EndScan, Goto, db, cycle, env
<1>6. CASE RugGate
  BY <1>6 DEF RugGate, Goto, db, cycle, env
<1>7. CASE Size
  BY <1>7 DEF Size, EndAttempt, Goto, db, cycle, env
<1>8. CASE DupCheck
  BY <1>8 DEF DupCheck, EndAttempt, Goto, db, cycle, env
<1>9. CASE MarkExecuted
  BY <1>9 DEF MarkExecuted, EndAttempt, Goto, db, cycle, env
<1>10. CASE Monitor
  BY <1>10 DEF Monitor, OpenPositions, Goto, db, cycle, env
<1>11. CASE EndCycle
  BY <1>11 DEF EndCycle, Goto, db, cycle, env
<1>12. CASE Halt
  BY <1>12 DEF Halt, Goto, db, cycle, env
<1>13. CASE Resume
  BY <1>13 DEF Resume, Goto, db, cycle, env
<1>14. CASE MarketMoves
  BY <1>14 DEF MarketMoves, Goto, db, cycle, env
<1>15. CASE CycleFails
  BY <1>15 DEF CycleFails, Goto, db, cycle, env
<1>16. CASE Crash
  BY <1>16 DEF Crash, Goto, db, cycle, env
<1>17. ASSUME NEW a \in Actors, OpenCheck(a) PROVE Quiet
  BY <1>17 DEF OpenCheck, EndAttempt, Goto, db, cycle, env
<1>18. ASSUME NEW a \in Actors, InsertFails(a) PROVE Quiet
  BY <1>18 DEF InsertFails, EndAttempt, Goto, db, cycle, env
<1>19. ASSUME NEW t \in TradeIds, WatchTrade(t) PROVE Quiet
  <2>1. trades[t].status = "OPEN" => t \in OpenPositions
    BY DEF OpenPositions
  <2> QED
    BY <1>19, <2>1 DEF WatchTrade, Lookup, Goto, db, cycle, env
<1>20. ASSUME NEW s \in Symbols, ScanSymbol(s) PROVE Quiet
  BY <1>20 DEF ScanSymbol, Goto, db, cycle, env
<1>21. ASSUME NEW d \in Web, ExecuteRequest(d) PROVE Quiet
  BY <1>21 DEF ExecuteRequest, Goto, db, cycle, env
<1>22. ASSUME NEW d \in Web, ExecuteSize(d) PROVE Quiet
  BY <1>22 DEF ExecuteSize, Goto, db, cycle, env
<1>23. ASSUME NEW d \in Web, NEW t \in TradeIds, CloseRequest(d, t) PROVE Quiet
  <2>1. trades[t].status = "OPEN" => t \in OpenPositions
    BY DEF OpenPositions
  <2> QED
    BY <1>23, <2>1 DEF CloseRequest, Lookup, Goto, db, cycle, env
<1>24. CASE UNCHANGED vars
  BY <1>24 DEF vars, db, cycle, env
<1> QED
  BY <1>1, <1>2, <1>3, <1>4, <1>5, <1>6, <1>7, <1>8, <1>9, <1>10, <1>11, <1>12, <1>13, <1>14, <1>15, <1>16, <1>17, <1>18, <1>19, <1>20, <1>21, <1>22, <1>23, <1>24
  DEF Next, WorkerNext, WebNext

\* Initially there are no rows.
LEMMA RowInit == Init => RowInv
  BY DEF Init, RowInv, Fresh, OpenRows, ClosedRows, Alone, OneOpenPerActor, Targets, OpenPositions, NoRow

\* An inserted row is the only OPEN one of its actor, and nobody's target.
LEMMA InsertRows ==
  ASSUME TypeOK, RowInv, NEW a \in Actors, Insert(a)
  PROVE  RowInv'
<1>1. PICK g : OpenTrade(a, g)
  BY DEF Insert
<1> DEFINE new == [status |-> "OPEN", opener |-> a, sig |-> g, pnl |-> 0,
                   settlers |-> {}, writes |-> 0]
<1>2. /\ nextId \in TradeIds /\ nextId' = nextId + 1
      /\ trades[nextId] = NoRow
      /\ trades'[nextId] = new
      /\ \A u \in TradeIds : u # nextId => trades'[u] = trades[u]
  BY <1>1 DEF OpenTrade, TypeOK, TradeIds, RowInv, Fresh
<1>3. OpenPositions' = OpenPositions \cup {nextId} /\ nextId \notin OpenPositions
  BY <1>2 DEF OpenPositions, NoRow
<1>4. /\ pc[a] = "insert" /\ pc'[a] # "insert" /\ pc'[a] # "settle"
      /\ \A b \in Actors : b # a => pc'[b] = pc[b]
      /\ pc'[Worker] = "sync" => pc[Worker] = "sync"
      /\ UNCHANGED <<tgt, left>>
  BY DEF Insert, EndAttempt, Goto, TypeOK, Actors
<1>5. Fresh'
  BY <1>2 DEF RowInv, Fresh, TypeOK, TradeIds
<1>6. OpenRows' /\ ClosedRows'
  BY <1>2, <1>3 DEF RowInv, OpenRows, ClosedRows, OpenPositions
<1>7. Alone'
  BY <1>2, <1>3, <1>4 DEF RowInv, Alone, OpenPositions
<1>8. OneOpenPerActor'
  BY <1>2, <1>3, <1>4 DEF RowInv, Alone, OneOpenPerActor, OpenPositions
<1>9. Targets'
  BY <1>2, <1>4 DEF RowInv, Targets, Unsettled, NoRow
<1> QED
  BY <1>5, <1>6, <1>7, <1>8, <1>9 DEF RowInv

\* Closing a row only takes it out of the OPEN ones, and out of reach of the
\* actor that closed it.
LEMMA CloseRows ==
  ASSUME TypeOK, RowInv, NEW a \in Actors, NEW t \in TradeIds, Unsettled(a, t),
         NEW pnl \in Int, CloseTrade(a, t, pnl), nextId' = nextId,
         \A b \in Actors : pc'[b] = "insert" => pc[b] = "insert",
         \A b \in Actors : pc'[b] = "settle" =>
            b # a /\ pc[b] = "settle" /\ tgt'[b] = tgt[b],
         pc'[Worker] = "sync" =>
            /\ pc[Worker] = "sync" /\ left' \subseteq left
            /\ a = Worker => t \notin left'
  PROVE  RowInv'
<1>1. /\ trades'[t].status = "CLOSED"
      /\ trades'[t].settlers = trades[t].settlers \cup {a}
      /\ \A u \in TradeIds : u # t => trades'[u] = trades[u]
  BY CloseEffect
<1>2. OpenPositions' = OpenPositions \ {t}
  BY <1>1 DEF OpenPositions
<1>3. \A u \in OpenPositions' : trades'[u] = trades[u]
  BY <1>1, <1>2 DEF OpenPositions
<1>4. Fresh'
  BY <1>1 DEF RowInv, Fresh, Unsettled, NoRow
<1>5a. ClosedRows'
  BY <1>1 DEF RowInv, ClosedRows
<1>5. OpenRows' /\ Alone' /\ OneOpenPerActor'
  BY <1>2, <1>3 DEF RowInv, OpenRows, Alone, OneOpenPerActor
<1>6. \A b \in Actors, u \in TradeIds :
        Unsettled(b, u) /\ (b = a => u # t) => Unsettled(b, u)'
  BY <1>1 DEF Unsettled
<1>7. Targets'
  BY <1>6 DEF RowInv, Targets, Unsettled, Actors, TypeOK
<1> QED
  BY <1>4, <1>5, <1>5a, <1>7 DEF RowInv

\* Every step preserves the invariant of the rows.
LEMMA RowNext == TypeOK /\ RowInv /\ [Next]_vars => RowInv'
<1> SUFFICES ASSUME TypeOK, RowInv, [Next]_vars PROVE RowInv'
  OBVIOUS
<1>1. CASE Quiet
  <2>1. UNCHANGED OpenPositions
    BY <1>1 DEF Quiet, OpenPositions
  <2>2. Fresh' /\ OpenRows' /\ ClosedRows' /\ OneOpenPerActor'
    BY <1>1, <2>1 DEF Quiet, RowInv, Fresh, OpenRows, ClosedRows, OneOpenPerActor
  <2>3. Alone'
    BY <1>1, <2>1 DEF Quiet, RowInv, Alone
  <2>4. \A a \in Actors : \A t \in OpenPositions : Unsettled(a, t)
    BY DEF RowInv, OpenRows, Unsettled, OpenPositions
  <2>5. Targets'
    BY <1>1, <2>4 DEF Quiet, RowInv, Targets, Unsettled, Actors
  <2> QED
    BY <2>2, <2>3, <2>5 DEF RowInv
<1>2. ASSUME NEW a \in Actors, Insert(a) PROVE RowInv'
  BY <1>2, InsertRows
<1>3. ASSUME NEW a \in Actors, Settle(a) PROVE RowInv'
  <2>1. PICK pnl \in Int : CloseTrade(a, tgt[a], pnl)
    BY <1>3, PnlsType DEF Settle
  <2>2. Unsettled(a, tgt[a]) /\ tgt[a] \in TradeIds
    BY <1>3 DEF Settle, RowInv, Targets, Unsettled
  <2>3. /\ \A b \in Actors : pc'[b] = "insert" => pc[b] = "insert"
        /\ \A b \in Actors : pc'[b] = "settle" =>
             b # a /\ pc[b] = "settle" /\ tgt'[b] = tgt[b]
        /\ pc'[Worker] = "sync" => pc[Worker] = "sync" /\ left' = left /\ a # Worker
        /\ nextId' = nextId
    BY <1>3 DEF Settle, Goto, TypeOK, Actors
  <2> QED
    BY <2>1, <2>2, <2>3, CloseRows
<1>4. ASSUME NEW t \in TradeIds, ReconcileTrade(t) PROVE RowInv'
  <2>1. CASE UNCHANGED trades
    BY <1>4, <2>1 DEF ReconcileTrade, RowInv, Fresh, OpenRows, ClosedRows, Alone,
                      OneOpenPerActor, Targets, Unsettled, OpenPositions
  <2>2. CASE CloseTrade(Worker, t, 0)
    <3>1. Unsettled(Worker, t)
      BY <1>4 DEF ReconcileTrade, RowInv, Targets
    <3>2. /\ \A b \in Actors : pc'[b] = pc[b] /\ tgt'[b] = tgt[b]
          /\ pc[Worker] = "sync" /\ left' = left \ {t} /\ nextId' = nextId
          /\ Worker \in Actors /\ 0 \in Int
      BY <1>4 DEF ReconcileTrade, Actors
    <3> QED
      BY <2>2, <3>1, <3>2, CloseRows
  <2> QED
    BY <1>4, <2>1, <2>2 DEF ReconcileTrade
<1> QED
  BY <1>1, <1>2, <1>3, <1>4, StepKinds

\* The invariant of the rows holds for ever.
THEOREM RowsCorrect == Spec => []RowInv
<1>1. TypeOK /\ RowInv /\ [Next]_vars => RowInv'
  BY RowNext
<1> QED
  BY <1>1, RowInit, TypeCorrect, PTL DEF Spec

\* No actor ever has two OPEN rows of its own.
THEOREM OneOpen == Spec => []OneOpenPerActor
  BY RowsCorrect, PTL DEF RowInv

-----------------------------------------------------------------------------
(* Kill switch                                                             *)

\* Where an actor will create a row without reading the kill switch again.
Committed(a) == {"dup", "mark", "open", "insert"} \cup (IF a = Worker THEN {} ELSE {"size"})
HaltInv ==
  \A a \in Actors : late[a] > 0 => halted /\ late[a] = 1 /\ pc[a] \notin Committed(a)

\* The invariant of the kill switch holds at first and is preserved.
LEMMA HaltInit == Init => HaltInv
  BY DEF Init, HaltInv

\* Every step preserves the invariant of the kill switch.
LEMMA HaltNext == TypeOK /\ HaltInv /\ [Next]_vars => HaltInv'
<1> SUFFICES ASSUME TypeOK, HaltInv, [Next]_vars PROVE HaltInv'
  OBVIOUS
<1> USE ActorsDiffer DEF TypeOK, HaltInv, Committed, Actors
<1>1. CASE StartCycle
  BY <1>1 DEF StartCycle, Goto, db, cycle, env
<1>2. CASE Reconcile
  BY <1>2 DEF Reconcile, OpenPositions, Goto, db, cycle, env
<1>3. CASE EndReconcile
  BY <1>3 DEF EndReconcile, Goto, db, cycle, env
<1>4. CASE HaltCheck
  BY <1>4 DEF HaltCheck, Goto, db, cycle, env
<1>5. CASE EndScan
  BY <1>5 DEF EndScan, Goto, db, cycle, env
<1>6. CASE RugGate
  BY <1>6 DEF RugGate, Goto, db, cycle, env
<1>7. CASE Size
  BY <1>7 DEF Size, EndAttempt, SizerAdmits, Goto, db, cycle, env
<1>8. CASE DupCheck
  BY <1>8 DEF DupCheck, EndAttempt, Goto, db, cycle, env
<1>9. CASE MarkExecuted
  BY <1>9 DEF MarkExecuted, EndAttempt, Goto, db, cycle, env
<1>10. CASE Monitor
  BY <1>10 DEF Monitor, OpenPositions, Goto, db, cycle, env
<1>11. CASE EndCycle
  BY <1>11 DEF EndCycle, Goto, db, cycle, env
<1>12. CASE MarketMoves
  BY <1>12 DEF MarketMoves, Goto, db, cycle, env
<1>13. CASE CycleFails
  BY <1>13 DEF CycleFails, Goto, db, cycle, env
<1>14. CASE Crash
  BY <1>14 DEF Crash, Goto, db, cycle, env
<1>15. ASSUME NEW a \in Actors, OpenCheck(a) PROVE HaltInv'
  BY <1>15 DEF OpenCheck, EndAttempt, Goto, db, cycle, env
<1>16. ASSUME NEW a \in Actors, InsertFails(a) PROVE HaltInv'
  BY <1>16 DEF InsertFails, EndAttempt, Goto, db, cycle, env
<1>17. ASSUME NEW a \in Actors, Settle(a) PROVE HaltInv'
  BY <1>17 DEF Settle, Goto, db, cycle, env
<1>18. ASSUME NEW t \in TradeIds, ReconcileTrade(t) PROVE HaltInv'
  BY <1>18 DEF ReconcileTrade, Goto, db, cycle, env
<1>19. ASSUME NEW t \in TradeIds, WatchTrade(t) PROVE HaltInv'
  BY <1>19 DEF WatchTrade, Lookup, Goto, db, cycle, env
<1>20. ASSUME NEW s \in Symbols, ScanSymbol(s) PROVE HaltInv'
  BY <1>20 DEF ScanSymbol, Goto, db, cycle, env
<1>21. ASSUME NEW d \in Web, ExecuteRequest(d) PROVE HaltInv'
  BY <1>21 DEF ExecuteRequest, Goto, db, cycle, env
<1>22. ASSUME NEW d \in Web, ExecuteSize(d) PROVE HaltInv'
  BY <1>22 DEF ExecuteSize, Goto, db, cycle, env
<1>23. ASSUME NEW d \in Web, NEW t \in TradeIds, CloseRequest(d, t) PROVE HaltInv'
  BY <1>23 DEF CloseRequest, Lookup, Goto, db, cycle, env
<1>24. CASE Halt
  BY <1>24 DEF Halt, cycle, env
<1>25. CASE Resume
  BY <1>25 DEF Resume, cycle, env
<1>26. ASSUME NEW a \in Actors, Insert(a) PROVE HaltInv'
  <2>1. /\ pc'[a] \notin Committed(a) /\ \A b \in Actors : b # a => pc'[b] = pc[b]
        /\ halted' = halted
    BY <1>26 DEF Insert, EndAttempt, Goto
  <2>2. late[a] = 0
    BY <1>26 DEF Insert
  <2>3. /\ late'[a] = IF halted THEN 1 ELSE 0
        /\ \A b \in Actors : b # a => late'[b] = late[b]
    BY <1>26, <2>2 DEF Insert
  <2> QED
    BY <2>1, <2>2, <2>3
<1>27. CASE UNCHANGED vars
  BY <1>27 DEF vars, db, cycle, env
<1> QED
  BY <1>1, <1>2, <1>3, <1>4, <1>5, <1>6, <1>7, <1>8, <1>9, <1>10, <1>11, <1>12, <1>13, <1>14, <1>15, <1>16, <1>17, <1>18, <1>19, <1>20, <1>21, <1>22, <1>23, <1>24, <1>25, <1>26, <1>27
  DEF Next, WorkerNext, WebNext

\* After a halt, and until the operator resumes, each actor creates at most the
\* one row it was working on.
THEOREM HaltBounds == Spec => []HaltBoundsEntries
<1>1. TypeOK /\ HaltInv /\ [Next]_vars => HaltInv'
  BY HaltNext
<1>2. HaltInv => HaltBoundsEntries
  BY DEF HaltInv, HaltBoundsEntries
<1> QED
  BY <1>1, <1>2, HaltInit, TypeCorrect, PTL DEF Spec

-----------------------------------------------------------------------------
(* Signals                                                                 *)

Executed(g) == \E t \in TradeIds : trades[t].sig = g
Pending(g) == g \in queue \/ cur = g

\* A pending signal is in one place; its scanner's mark may be lost, but then
\* the mark at execution will not be; and once it has a row, one of the marks
\* keeps it from a second one.
SignalInv ==
  \A g \in Signals :
    /\ cur = g => g \notin queue
    /\ Pending(g) /\ g \notin seen => g \in faulty
    /\ Executed(g) => g \in execSeen \/ (g \in seen /\ ~ Pending(g))
    /\ cur = g /\ pc[Worker] \in {"open", "insert"}
         => ~ Executed(g) /\ (g \in execSeen \/ g \in seen)

\* The invariant of the signals holds at first and is preserved.
LEMMA SignalInit == Init => SignalInv
  BY NoSignalType DEF Init, SignalInv, Pending, Executed, NoRow

\* Every step preserves the invariant of the signals.
LEMMA SignalNext == TypeOK /\ Held /\ RowInv /\ SignalInv /\ [Next]_vars => SignalInv'
<1> SUFFICES ASSUME TypeOK, Held, RowInv, SignalInv, [Next]_vars PROVE SignalInv'
  OBVIOUS
<1> USE ActorsDiffer, NoSignalType DEF TypeOK, Held, Attempt, SignalInv, Pending, Actors
\* fewer pending signals, the same rows and marks, no step into the insert
<1> DEFINE Drops == /\ UNCHANGED <<seen, execSeen, faulty>>
                    /\ \A g \in Signals : Executed(g)' <=> Executed(g)
                    /\ queue' \subseteq queue /\ cur' \in {cur, NoSignal}
                    /\ pc'[Worker] \in {"open", "insert"} =>
                         pc[Worker] \in {"open", "insert"} \/ cur' = NoSignal
<1>0. ASSUME Drops PROVE SignalInv'
  BY <1>0
<1>1. CASE StartCycle
  BY <1>0, <1>1 DEF StartCycle, Executed, Goto, db, cycle, env
<1>2. CASE Reconcile
  BY <1>0, <1>2 DEF Reconcile, Executed, Goto, db, cycle, env
<1>3. CASE EndReconcile
  BY <1>0, <1>3 DEF EndReconcile, Executed, Goto, db, cycle, env
<1>4. CASE HaltCheck
  BY <1>0, <1>4 DEF HaltCheck, Executed, Goto, db, cycle, env
<1>5. CASE EndScan
  BY <1>0, <1>5 DEF EndScan, Executed, Goto, db, cycle, env
<1>6. CASE Size
  BY <1>0, <1>6 DEF Size, EndAttempt, Executed, Goto, db, cycle, env
<1>7. CASE DupCheck
  BY <1>0, <1>7 DEF DupCheck, EndAttempt, Executed, Goto, db, cycle, env
<1>8. CASE Monitor
  BY <1>0, <1>8 DEF Monitor, Executed, Goto, db, cycle, env
<1>9. CASE EndCycle
  BY <1>0, <1>9 DEF EndCycle, Executed, Goto, db, cycle, env
<1>10. CASE Halt
  BY <1>0, <1>10 DEF Halt, Executed, Goto, db, cycle, env
<1>11. CASE Resume
  BY <1>0, <1>11 DEF Resume, Executed, Goto, db, cycle, env
<1>12. CASE MarketMoves
  BY <1>0, <1>12 DEF MarketMoves, Executed, Goto, db, cycle, env
<1>13. CASE CycleFails
  BY <1>0, <1>13 DEF CycleFails, Executed, Goto, db, cycle, env
<1>14. CASE Crash
  BY <1>0, <1>14 DEF Crash, Executed, Goto, db, cycle, env
<1>15. ASSUME NEW a \in Actors, OpenCheck(a) PROVE SignalInv'
  BY <1>0, <1>15 DEF OpenCheck, EndAttempt, Executed, Goto, db, cycle, env
<1>16. ASSUME NEW a \in Actors, InsertFails(a) PROVE SignalInv'
  BY <1>0, <1>16 DEF InsertFails, EndAttempt, Executed, Goto, db, cycle, env
<1>17. ASSUME NEW t \in TradeIds, WatchTrade(t) PROVE SignalInv'
  BY <1>0, <1>17 DEF WatchTrade, Lookup, Executed, Goto, db, cycle, env
<1>18. ASSUME NEW d \in Web, ExecuteRequest(d) PROVE SignalInv'
  BY <1>0, <1>18 DEF ExecuteRequest, Executed, Goto, db, cycle, env
<1>19. ASSUME NEW d \in Web, ExecuteSize(d) PROVE SignalInv'
  BY <1>0, <1>19 DEF ExecuteSize, Executed, Goto, db, cycle, env
<1>20. ASSUME NEW d \in Web, NEW t \in TradeIds, CloseRequest(d, t) PROVE SignalInv'
  BY <1>0, <1>20 DEF CloseRequest, Lookup, Executed, Goto, db, cycle, env
<1>21. ASSUME NEW a \in Actors, NEW t, NEW pnl \in Int, CloseTrade(a, t, pnl)
      PROVE \A g \in Signals : Executed(g)' <=> Executed(g)
  <2>1. CASE t \in TradeIds
    BY <1>21, <2>1, CloseEffect DEF Executed
  <2>2. CASE t \notin TradeIds
    BY <1>21, <2>2 DEF CloseTrade, Executed
  <2> QED
    BY <2>1, <2>2
<1>22. ASSUME NEW a \in Actors, Settle(a) PROVE SignalInv'
  BY <1>0, <1>21, <1>22, PnlsType DEF Settle, Goto, cycle, env
<1>23. ASSUME NEW t \in TradeIds, ReconcileTrade(t) PROVE SignalInv'
  <2>1. \A g \in Signals : Executed(g)' <=> Executed(g)
    BY <1>21, <1>23 DEF ReconcileTrade, Executed
  <2> QED
    BY <1>0, <1>23, <2>1 DEF ReconcileTrade, cycle, env
<1>24. CASE RugGate
  BY <1>24 DEF RugGate, Executed, Goto, db, env
<1>25. ASSUME NEW s \in Symbols, ScanSymbol(s) PROVE SignalInv'
  BY <1>25 DEF ScanSymbol, Mark, Executed
<1>26. CASE MarkExecuted
  BY <1>26 DEF MarkExecuted, Mark, EndAttempt, Goto, Executed
<1>27. ASSUME NEW a \in Actors, Insert(a) PROVE SignalInv'
  <2> DEFINE h == IF a = Worker THEN cur ELSE NoSignal
  <2>1. \A g \in Signals : Executed(g)' => Executed(g) \/ g = h
    BY <1>27 DEF Insert, OpenTrade, Executed, TradeIds
  <2>2. \A g \in Signals : Executed(g) => Executed(g)'
    BY <1>27 DEF Insert, OpenTrade, RowInv, Fresh, NoRow, Executed, TradeIds
  <2>3. UNCHANGED <<seen, execSeen, faulty, queue>> /\ pc[a] = "insert"
    BY <1>27 DEF Insert, env
  <2>4. CASE a = Worker
    <3>1. cur' = NoSignal
      BY <1>27, <2>4 DEF Insert, EndAttempt
    <3> QED
      BY <2>1, <2>2, <2>3, <2>4, <3>1
  <2>5. CASE a # Worker
    <3>1. cur' = cur /\ pc'[Worker] = pc[Worker]
      BY <1>27, <2>5 DEF Insert, EndAttempt, Goto
    <3> QED
      BY <2>1, <2>2, <2>3, <2>5, <3>1
  <2> QED
    BY <2>4, <2>5
<1>28. CASE UNCHANGED vars
  BY <1>0, <1>28 DEF vars, db, cycle, env, Executed
<1> QED
  BY <1>1, <1>2, <1>3, <1>4, <1>5, <1>6, <1>7, <1>8, <1>9, <1>10, <1>11, <1>12, <1>13, <1>14, <1>15, <1>16, <1>17, <1>18, <1>19, <1>20, <1>22, <1>23, <1>24, <1>25, <1>26, <1>27, <1>28
  DEF Next, WorkerNext, WebNext

\* A signal that gets a row has none yet, so no two rows have the same one.
LEMMA ExecutedOnceNext ==
  TypeOK /\ Held /\ RowInv /\ SignalInv /\ ExecutedOnce /\ [Next]_vars => ExecutedOnce'
<1> SUFFICES ASSUME TypeOK, Held, RowInv, SignalInv, ExecutedOnce, [Next]_vars
             PROVE  ExecutedOnce'
  OBVIOUS
<1>1. CASE Quiet
  BY <1>1 DEF Quiet, ExecutedOnce
<1>2. ASSUME NEW a \in Actors, NEW t, NEW pnl \in Int, CloseTrade(a, t, pnl)
      PROVE  ExecutedOnce'
  <2>1. CASE t \in TradeIds
    <3>1. \A u \in TradeIds : trades'[u].sig = trades[u].sig
      BY <1>2, <2>1, CloseEffect
    <3> QED
      BY <3>1 DEF ExecutedOnce
  <2>2. CASE t \notin TradeIds
    BY <1>2, <2>2 DEF CloseTrade, ExecutedOnce, TypeOK
  <2> QED
    BY <2>1, <2>2
<1>3. ASSUME NEW a \in Actors, Settle(a) PROVE ExecutedOnce'
  BY <1>2, <1>3, PnlsType DEF Settle
<1>4. ASSUME NEW t \in TradeIds, ReconcileTrade(t) PROVE ExecutedOnce'
  BY <1>2, <1>4 DEF ReconcileTrade, ExecutedOnce, Actors
<1>5. ASSUME NEW a \in Actors, Insert(a) PROVE ExecutedOnce'
  <2> DEFINE h == IF a = Worker THEN cur ELSE NoSignal
  <2>1. /\ nextId \in TradeIds
        /\ trades'[nextId].sig = h
        /\ \A u \in TradeIds : u # nextId => trades'[u] = trades[u]
    BY <1>5 DEF Insert, OpenTrade, TypeOK, TradeIds
  <2>2. h # NoSignal => h \in Signals /\ ~ Executed(h)
    BY <1>5 DEF Insert, Held, Attempt, SignalInv, TypeOK
  <2> QED
    BY <2>1, <2>2 DEF ExecutedOnce, Executed
<1> QED
  BY <1>1, <1>3, <1>4, <1>5, StepKinds

\* A scanned signal becomes at most one row, whatever crashes and rescans there
\* are, as long as at most one of its two marks is lost.
THEOREM OnceOnly == Spec => []ExecutedOnce
<1>1. Init => ExecutedOnce
  BY DEF Init, ExecutedOnce, NoRow
<1>2. TypeOK /\ Held /\ RowInv /\ SignalInv /\ [Next]_vars => SignalInv'
  BY SignalNext
<1>3. TypeOK /\ Held /\ RowInv /\ SignalInv /\ ExecutedOnce /\ [Next]_vars => ExecutedOnce'
  BY ExecutedOnceNext
<1> QED
  BY <1>1, <1>2, <1>3, SignalInit, TypeCorrect, RowsCorrect, PTL DEF Spec

-----------------------------------------------------------------------------
(* Refinement                                                              *)

\* Every step of the engine is a step of the trade book, or leaves it alone.
LEMMA BookStep == TypeOK /\ RowInv /\ [Next]_vars => [Book!Next]_BookRows
<1> SUFFICES ASSUME TypeOK, RowInv, [Next]_vars PROVE [Book!Next]_BookRows
  OBVIOUS
<1>1. CASE Quiet
  BY <1>1 DEF Quiet, BookRows
<1>2. ASSUME NEW a \in Actors, NEW t \in TradeIds, NEW pnl \in Int,
             Unsettled(a, t), CloseTrade(a, t, pnl)
      PROVE  Book!Next
  <2>1. Book!Settle(a, t)
    <3>1. /\ trades'[t].status = "CLOSED"
          /\ trades'[t].opener = trades[t].opener
          /\ trades'[t].settlers = trades[t].settlers \cup {a}
          /\ trades'[t].writes = trades[t].writes + 1
          /\ \A u \in TradeIds : u # t => trades'[u] = trades[u]
      BY <1>2, CloseEffect
    <3>2. BookRows[t] = [status |-> trades[t].status, opener |-> trades[t].opener,
                         settlers |-> trades[t].settlers, writes |-> trades[t].writes]
      BY DEF BookRows
    <3>3. BookRows' = [BookRows EXCEPT ![t] =
                         [status |-> "CLOSED", opener |-> trades[t].opener,
                          settlers |-> trades[t].settlers \cup {a},
                          writes |-> trades[t].writes + 1]]
      BY <3>1 DEF BookRows
    <3> QED
      BY <1>2, <3>2, <3>3 DEF Book!Settle, Unsettled
  <2> QED
    BY <2>1 DEF Book!Next
<1>3. ASSUME NEW a \in Actors, Settle(a) PROVE Book!Next
  <2>1. Unsettled(a, tgt[a]) /\ tgt[a] \in TradeIds
    BY <1>3 DEF Settle, RowInv, Targets, Unsettled
  <2> QED
    BY <1>2, <1>3, <2>1, PnlsType DEF Settle
<1>4. ASSUME NEW t \in TradeIds, ReconcileTrade(t) PROVE [Book!Next]_BookRows
  <2>1. Unsettled(Worker, t)
    BY <1>4 DEF ReconcileTrade, RowInv, Targets
  <2>2. CASE CloseTrade(Worker, t, 0)
    BY <1>2, <2>1, <2>2 DEF Actors
  <2>3. CASE UNCHANGED trades
    BY <2>3 DEF BookRows
  <2> QED
    BY <1>4, <2>2, <2>3 DEF ReconcileTrade
<1>5. ASSUME NEW a \in Actors, Insert(a) PROVE Book!Next
  <2>1. /\ nextId \in TradeIds /\ trades[nextId] = NoRow
        /\ \E g : trades'[nextId] = [status |-> "OPEN", opener |-> a, sig |-> g, pnl |-> 0,
                                    settlers |-> {}, writes |-> 0]
        /\ \A u \in TradeIds : u # nextId => trades'[u] = trades[u]
    <3>1. PICK g : OpenTrade(a, g)
      BY <1>5 DEF Insert
    <3>2. nextId \in TradeIds /\ trades[nextId] = NoRow
      BY <3>1 DEF OpenTrade, RowInv, Fresh, TypeOK, TradeIds
    <3> QED
      BY <3>1, <3>2 DEF OpenTrade, TypeOK
  <2>2. \A u \in TradeIds : trades[u].status = "OPEN" => trades[u].opener # a
    BY <1>5 DEF Insert, RowInv, Alone, OpenPositions
  <2>3. Book!Enter(a, nextId)
    <3>1. BookRows[nextId].status = "none"
      BY <2>1 DEF BookRows, NoRow
    <3>2. \A u \in TradeIds : BookRows[u].status = "OPEN" => BookRows[u].opener # a
      BY <2>2 DEF BookRows
    <3>3. /\ trades'[nextId].status = "OPEN" /\ trades'[nextId].opener = a
          /\ trades'[nextId].settlers = {} /\ trades'[nextId].writes = 0
      BY <2>1
    <3>4. BookRows' = [BookRows EXCEPT ![nextId] =
                         [status |-> "OPEN", opener |-> a, settlers |-> {}, writes |-> 0]]
      BY <2>1, <3>3 DEF BookRows
    <3> QED
      BY <3>1, <3>2, <3>4 DEF Book!Enter
  <2> QED
    BY <2>1, <2>3 DEF Book!Next
<1> QED
  BY <1>1, <1>3, <1>4, <1>5, StepKinds

\* The paper trading engine implements the trade book.
THEOREM Refinement == Spec => BookSpec
<1>1. Init => Book!Init
  BY DEF Init, Book!Init, BookRows, NoRow, Book!NoRow
<1>2. TypeOK /\ RowInv /\ [Next]_vars => [Book!Next]_BookRows
  BY BookStep
<1> QED
  BY <1>1, <1>2, TypeCorrect, RowsCorrect, PTL DEF Spec, BookSpec, Book!Spec

-----------------------------------------------------------------------------
(* Position limit                                                          *)

\* Without a dashboard that trades, the table never holds more OPEN rows than the
\* limit: the race of its two actors is the only way past it.
THEOREM WorkerKeepsLimit ==
  ASSUME Web = {}, MaxPositions \in Nat \ {0}
  PROVE  Spec => []PositionLimit
<1>1. RowInv => PositionLimit
  <2> SUFFICES ASSUME RowInv PROVE PositionLimit
    OBVIOUS
  <2>1. \A t, u \in OpenPositions : t = u
    BY DEF RowInv, OneOpenPerActor, OpenRows, Actors
  <2>2. CASE OpenPositions = {}
    BY <2>2, FS_EmptySet DEF PositionLimit
  <2>3. ASSUME NEW t \in OpenPositions PROVE PositionLimit
    <3>1. OpenPositions = {t}
      BY <2>1
    <3> QED
      BY <3>1, FS_Singleton DEF PositionLimit
  <2> QED
    BY <2>2, <2>3
<1> QED
  BY <1>1, RowsCorrect, PTL

-----------------------------------------------------------------------------
(* Results                                                                 *)

\* Without a dashboard that trades, the result of a closed row is final.
THEOREM WorkerResultFinal ==
  ASSUME Web = {}
  PROVE  Spec => ResultFinal
<1> DEFINE Final == \A t \in TradeIds : trades[t].status = "CLOSED" => trades'[t] = trades[t]
<1>1. TypeOK /\ RowInv /\ [Next]_vars => [Final]_vars
  <2> SUFFICES ASSUME TypeOK, RowInv, [Next]_vars PROVE [Final]_vars
    OBVIOUS
  <2>1. CASE Quiet
    BY <2>1 DEF Quiet
  <2>2. ASSUME NEW a \in Actors, NEW t \in TradeIds, NEW pnl \in Int,
               Unsettled(a, t), CloseTrade(a, t, pnl)
        PROVE  Final
    <3>1. trades[t].settlers = {}
      BY <2>2 DEF Unsettled, TypeOK, Trade, Actors
    <3>2. trades[t].status # "CLOSED"
      BY <3>1 DEF RowInv, ClosedRows
    <3> QED
      BY <2>2, <3>2, CloseEffect
  <2>3. ASSUME NEW a \in Actors, Settle(a) PROVE Final
    <3>1. Unsettled(a, tgt[a]) /\ tgt[a] \in TradeIds
      BY <2>3 DEF Settle, RowInv, Targets, Unsettled
    <3> QED
      BY <2>2, <2>3, <3>1, PnlsType DEF Settle
  <2>4. ASSUME NEW t \in TradeIds, ReconcileTrade(t) PROVE Final
    <3>1. Unsettled(Worker, t)
      BY <2>4 DEF ReconcileTrade, RowInv, Targets
    <3> QED
      BY <2>2, <2>4, <3>1 DEF ReconcileTrade, Actors
  <2>5. ASSUME NEW a \in Actors, Insert(a) PROVE Final
    <3>1. trades[nextId] = NoRow \/ nextId \notin TradeIds
      BY DEF RowInv, Fresh, TypeOK, TradeIds
    <3> QED
      BY <2>5, <3>1 DEF Insert, OpenTrade, NoRow, TypeOK
  <2> HIDE DEF Final
  <2> QED
    BY <2>1, <2>3, <2>4, <2>5, StepKinds
<1> QED
  BY <1>1, TypeCorrect, RowsCorrect, PTL DEF Spec, ResultFinal
=============================================================================
