------------------------ MODULE LiveExecutionProofs ------------------------
(***************************************************************************)
(* Theorems about LiveExecution, for any number of rows and restarts: what *)
(* is entered, what protects it, and what reconcile may close.             *)
(***************************************************************************)
EXTENDS LiveExecution, FiniteSetTheorems, TLAPS

\* Between the look at the exchange and the entry there is no position.
PositionInv ==
  /\ pos <= 1
  /\ pc \in {"orders", "halt", "prepare", "entry"} => pos = 0

\* What reconcile was told of a missing position still holds when it acts on it: the one
\* thread enters nothing in between.
SnapshotInv == pc = "sync" /\ flat => pos = 0

\* With a limit of one, an entry is only under way while no row is OPEN; and the
\* row it will create is for a position that has its stop.
EntryInv ==
  /\ pc \in (Before \ {"limit"}) \cup After \cup Emergency => OpenRows = {}
  /\ pc \in {"tp", "save"} /\ pos > 0 => stop
  /\ RowsProtected

-----------------------------------------------------------------------------
\* Every reachable state is well-typed.
LEMMA LiveTypeNext == TypeOK /\ [Next]_vars => TypeOK'
<1> SUFFICES ASSUME TypeOK, [Next]_vars PROVE TypeOK'
  OBVIOUS
<1> USE DEF TypeOK, Before, After, Emergency
<1>1. CASE EngineNext
  <2>1. CASE CheckLimit \/ CheckPosition \/ CheckOrders \/ CheckHalt \/ Prepare \/ GiveUp
    BY <2>1 DEF CheckLimit, CheckPosition, CheckOrders, CheckHalt, Prepare, GiveUp, Pass
  <2>2. CASE PlaceEntry
    BY <2>2 DEF PlaceEntry
  <2>3. CASE PlaceStop
    BY <2>3 DEF PlaceStop
  <2>4. CASE PlaceTakeProfit
    BY <2>4 DEF PlaceTakeProfit
  <2>5. CASE Save
    BY <2>5 DEF Save
  <2>6. CASE EmergencyClose
    BY <2>6 DEF EmergencyClose
  <2>7. CASE Verify
    BY <2>7 DEF Verify
  <2>8. CASE SetHalt \/ SetHaltFails
    BY <2>8 DEF SetHalt, SetHaltFails
  <2> QED
    BY <1>1, <2>1, <2>2, <2>3, <2>4, <2>5, <2>6, <2>7, <2>8 DEF EngineNext
<1>2. CASE Request \/ StartCycle \/ FetchPositions \/ FetchFails \/ WorkerDies
  BY <1>2 DEF Request, StartCycle, FetchPositions, FetchFails, WorkerDies
<1>8. CASE CloseRows \/ CloseFails
  BY <1>8 DEF CloseRows, CloseFails
<1>3. CASE PositionCloses
  BY <1>3 DEF PositionCloses
<1>4. CASE Operator
  BY <1>4 DEF Operator
<1>5. ASSUME NEW r \in RowIds, DashboardClose(r) PROVE TypeOK'
  BY <1>5 DEF DashboardClose
<1>6. CASE Crash
  BY <1>6, LiveBounds DEF Crash
<1>7. CASE UNCHANGED vars
  BY <1>7 DEF vars
<1> QED
  BY <1>1, <1>2, <1>3, <1>4, <1>5, <1>6, <1>7, <1>8 DEF Next

\* The components of every reachable state have their types, in any number of steps.
THEOREM LiveTypeCorrect == Spec => []TypeOK
<1>1. ASSUME Init PROVE TypeOK
  <2>1. rows \in [RowIds -> {"none", "OPEN", "CLOSED"}]
    BY <1>1 DEF Init
  <2>2. crashes \in 0 .. MaxCrashes /\ pos \in Nat
    BY <1>1, LiveBounds DEF Init
  <2>3. /\ halted \in BOOLEAN /\ stop \in BOOLEAN
        /\ tp \in BOOLEAN /\ flat \in BOOLEAN
    BY <1>1, Zenon DEF Init
  <2>4. pc = "idle"
    BY <1>1 DEF Init
  <2> QED
    BY <2>1, <2>2, <2>3, <2>4 DEF TypeOK
<1> QED
  BY <1>1, LiveTypeNext, PTL DEF Spec

-----------------------------------------------------------------------------
\* Every step keeps the position a single entry.
LEMMA PositionNext == TypeOK /\ PositionInv /\ [Next]_vars => PositionInv'
<1> SUFFICES ASSUME TypeOK, PositionInv, [Next]_vars PROVE PositionInv'
  OBVIOUS
<1> USE DEF TypeOK, PositionInv
<1>1. CASE EngineNext
  <2>1. CASE CheckLimit \/ CheckPosition \/ CheckOrders \/ CheckHalt \/ Prepare \/ GiveUp
    BY <2>1 DEF CheckLimit, CheckPosition, CheckOrders, CheckHalt, Prepare, GiveUp, Pass
  <2>2. CASE PlaceEntry
    BY <2>2 DEF PlaceEntry
  <2>3. CASE PlaceStop
    BY <2>3 DEF PlaceStop
  <2>4. CASE PlaceTakeProfit
    BY <2>4 DEF PlaceTakeProfit
  <2>5. CASE Save
    BY <2>5 DEF Save
  <2>6. CASE EmergencyClose
    BY <2>6 DEF EmergencyClose
  <2>7. CASE Verify
    BY <2>7 DEF Verify
  <2>8. CASE SetHalt \/ SetHaltFails
    BY <2>8 DEF SetHalt, SetHaltFails
  <2> QED
    BY <1>1, <2>1, <2>2, <2>3, <2>4, <2>5, <2>6, <2>7, <2>8 DEF EngineNext
<1>2. CASE Request \/ StartCycle \/ FetchPositions \/ FetchFails \/ WorkerDies
  BY <1>2 DEF Request, StartCycle, FetchPositions, FetchFails, WorkerDies
<1>8. CASE CloseRows \/ CloseFails
  BY <1>8 DEF CloseRows, CloseFails
<1>3. CASE PositionCloses
  BY <1>3 DEF PositionCloses
<1>4. CASE Operator \/ Crash
  <2>1. pos' = pos /\ (pc' = pc \/ pc' = "idle")
    BY <1>4 DEF Operator, Crash
  <2> QED
    BY <2>1
<1>5. ASSUME NEW r \in RowIds, DashboardClose(r) PROVE PositionInv'
  BY <1>5 DEF DashboardClose
<1>6. CASE UNCHANGED vars
  BY <1>6 DEF vars
<1> QED
  BY <1>1, <1>2, <1>3, <1>4, <1>5, <1>6, <1>8 DEF Next

\* An entry is never added to a position, whatever answers are lost.
THEOREM SinglePosition == Spec => []OnePosition
<1>1. Init => PositionInv
  BY DEF Init, PositionInv
<1>2. TypeOK /\ PositionInv /\ [Next]_vars => PositionInv'
  BY PositionNext
<1>3. PositionInv => OnePosition
  BY DEF PositionInv, OnePosition
<1> QED
  BY <1>1, <1>2, <1>3, LiveTypeCorrect, PTL DEF Spec

-----------------------------------------------------------------------------
\* A limit of one that is not reached means that no row is OPEN.
LEMMA LimitOfOne ==
  ASSUME MaxPositions = 1, Cardinality(OpenRows) < MaxPositions
  PROVE  OpenRows = {}
<1>1. IsFiniteSet(RowIds)
  BY LiveBounds, FS_Interval DEF RowIds
<1>2. IsFiniteSet(OpenRows)
  BY <1>1, FS_Subset DEF OpenRows
<1>3. Cardinality(OpenRows) \in Nat
  BY <1>2, FS_CardinalityType
<1> QED
  BY <1>2, <1>3, FS_EmptySet

\* Every step keeps what the table shows as open protected.
LEMMA EntryNext ==
  ASSUME MaxPositions = 1
  PROVE  TypeOK /\ EntryInv /\ [Next]_vars => EntryInv'
<1> SUFFICES ASSUME TypeOK, EntryInv, [Next]_vars PROVE EntryInv'
  OBVIOUS
<1> USE DEF TypeOK, EntryInv, RowsProtected, Before, After, Emergency
<1>0. \A r \in RowIds : rows[r] = "OPEN" => r \in OpenRows
  BY DEF OpenRows
<1>1. CASE EngineNext
  <2>1. CASE CheckPosition \/ CheckOrders \/ CheckHalt \/ Prepare \/ GiveUp
    BY <2>1 DEF CheckPosition, CheckOrders, CheckHalt, Prepare, GiveUp, Pass, OpenRows
  <2>2. CASE CheckLimit
    BY <2>2, LimitOfOne DEF CheckLimit, Pass, OpenRows
  <2>3. CASE PlaceEntry \/ PlaceStop \/ PlaceTakeProfit
    BY <2>3 DEF PlaceEntry, PlaceStop, PlaceTakeProfit, OpenRows
  <2>4. CASE Save
    BY <2>4 DEF Save, OpenRows
  <2>5. CASE EmergencyClose \/ Verify \/ SetHalt \/ SetHaltFails
    BY <2>5 DEF EmergencyClose, Verify, SetHalt, SetHaltFails, OpenRows
  <2> QED
    BY <1>1, <2>1, <2>2, <2>3, <2>4, <2>5 DEF EngineNext
<1>2. CASE Request \/ StartCycle \/ FetchPositions \/ FetchFails \/ WorkerDies
  BY <1>2 DEF Request, StartCycle, FetchPositions, FetchFails, WorkerDies, OpenRows
<1>8. CASE CloseRows \/ CloseFails
  <2>1. OpenRows' \subseteq OpenRows
    BY <1>8 DEF CloseRows, CloseFails, OpenRows
  <2> QED
    BY <1>8, <2>1 DEF CloseRows, CloseFails
<1>3. CASE PositionCloses
  BY <1>3 DEF PositionCloses, OpenRows
<1>7. CASE Operator
  <2>1. UNCHANGED <<rows, pos, stop, pc>>
    BY <1>7 DEF Operator
  <2> QED
    BY <2>1 DEF OpenRows
<1>4. ASSUME NEW r \in RowIds, DashboardClose(r) PROVE EntryInv'
  <2>1. OpenRows' \subseteq OpenRows
    BY <1>4 DEF DashboardClose, OpenRows
  <2> QED
    BY <1>4, <2>1 DEF DashboardClose
<1>5. CASE Crash
  BY <1>5 DEF Crash, OpenRows
<1>6. CASE UNCHANGED vars
  BY <1>6 DEF vars, OpenRows
<1> QED
  BY <1>1, <1>2, <1>3, <1>4, <1>5, <1>6, <1>7, <1>8 DEF Next

\* Under the default limit of one position, what the table shows as open has its
\* stop on the exchange.
THEOREM OpenRowsProtected ==
  ASSUME MaxPositions = 1
  PROVE  Spec => []RowsProtected
<1>1. Init => EntryInv
  BY DEF Init, EntryInv, RowsProtected, OpenRows, Before, After, Emergency
<1>2. TypeOK /\ EntryInv /\ [Next]_vars => EntryInv'
  BY EntryNext
<1>3. EntryInv => RowsProtected
  BY DEF EntryInv
<1> QED
  BY <1>1, <1>2, <1>3, LiveTypeCorrect, PTL DEF Spec

-----------------------------------------------------------------------------
\* Every step keeps the answer that reconcile holds true.
LEMMA SnapshotNext == TypeOK /\ SnapshotInv /\ [Next]_vars => SnapshotInv'
<1> SUFFICES ASSUME TypeOK, SnapshotInv, [Next]_vars, pc' = "sync", flat' PROVE pos' = 0
  BY DEF SnapshotInv
<1>1. CASE FetchPositions
  BY <1>1 DEF FetchPositions
<1>2. CASE EngineNext
  <2>1. pc' # "sync"
    BY <1>2 DEF EngineNext, CheckLimit, CheckPosition, CheckOrders, CheckHalt, Prepare,
                GiveUp, Pass, PlaceEntry, PlaceStop, PlaceTakeProfit, Save, EmergencyClose,
                Verify, SetHalt, SetHaltFails
  <2> QED
    BY <2>1
<1>3. CASE Request \/ StartCycle \/ FetchFails \/ CloseRows \/ CloseFails \/ WorkerDies \/ Crash
  BY <1>3 DEF Request, StartCycle, FetchFails, CloseRows, CloseFails, WorkerDies, Crash
<1>4. CASE PositionCloses
  BY <1>4 DEF PositionCloses
<1>5. CASE Operator \/ UNCHANGED vars \/ \E r \in RowIds : DashboardClose(r)
  <2>1. UNCHANGED <<pos, pc, flat>>
    BY <1>5 DEF Operator, vars, DashboardClose
  <2> QED
    BY <2>1 DEF SnapshotInv
<1> QED
  BY <1>1, <1>2, <1>3, <1>4, <1>5 DEF Next

\* Reconciliation never closes the row of a position that is on the exchange, although it
\* acts on an answer that is a step old (ReconciliationService.reconcile).
THEOREM ReconcilesSoundly == Spec => ReconcileSound
<1> DEFINE Kept == \A r \in RowIds :
             pc = "sync" /\ pc' = "idle" /\ rows[r] = "OPEN" /\ pos > 0 => rows'[r] = "OPEN"
<1>1. Init => SnapshotInv
  BY DEF Init, SnapshotInv
<1>2. TypeOK /\ SnapshotInv /\ [Next]_vars => [Kept]_vars
  <2> SUFFICES ASSUME TypeOK, SnapshotInv, Next, pc = "sync", pc' = "idle", pos > 0
               PROVE  \A r \in RowIds : rows[r] = "OPEN" => rows'[r] = "OPEN"
    OBVIOUS
  <2>1. ~ flat
    BY DEF SnapshotInv
  <2>2. CASE CloseRows \/ CloseFails
    BY <2>1, <2>2 DEF CloseRows, CloseFails, TypeOK
  <2>3. CASE Crash
    BY <2>3 DEF Crash
  <2>4. CASE EngineNext
    BY <2>4 DEF EngineNext, CheckLimit, CheckPosition, CheckOrders, CheckHalt, Prepare,
                GiveUp, Pass, PlaceEntry, PlaceStop, PlaceTakeProfit, Save, EmergencyClose,
                Verify, SetHalt, SetHaltFails, Before
  <2>6. CASE Request \/ StartCycle \/ FetchPositions \/ FetchFails \/ WorkerDies
             \/ PositionCloses \/ Operator
    BY <2>6 DEF Request, StartCycle, FetchPositions, FetchFails, WorkerDies, PositionCloses,
                Operator
  <2>5. ASSUME NEW r \in RowIds, DashboardClose(r) PROVE FALSE
    BY <2>5 DEF DashboardClose
  <2> QED
    BY <2>2, <2>3, <2>4, <2>5, <2>6 DEF Next
<1> QED
  BY <1>1, <1>2, SnapshotNext, LiveTypeCorrect, PTL DEF Spec, ReconcileSound
=============================================================================
