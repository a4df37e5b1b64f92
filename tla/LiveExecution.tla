---------------------------- MODULE LiveExecution ----------------------------
(***************************************************************************)
(* The live path: ExecutionEngine.execute_signal places a market entry, a  *)
(* protective stop and a take profit on the exchange and records a row;    *)
(* ReconciliationService.reconcile closes rows whose position is gone, at  *)
(* the start of each cycle of the worker, which has none while it is       *)
(* halted.  One thread does both; every call to the exchange may be        *)
(* refused, or carried out and its answer lost (an exception to the caller *)
(* either way), and the process may be killed between two calls.           *)
(***************************************************************************)
EXTENDS Integers, FiniteSets

CONSTANTS
  MaxPositions,  \* settings.max_simultaneous_positions
  MaxRows,       \* bound: rows the trades table may get
  MaxCrashes     \* bound: how often the process is killed

ASSUME LimitType == MaxPositions \in Int
ASSUME LiveBounds == MaxRows \in Nat /\ MaxCrashes \in Nat

VARIABLES
  rows,     \* table trades: row id -> its status
  halted,   \* table kill_switch
  pos,      \* the position on the exchange, in entries it is made of
  stop,     \* whether a protective stop order is live there
  tp,       \* whether a take profit order is
  pc,       \* what the engine does next
  flat,     \* what reconcile was told: no position
  crashes   \* how often the process was killed

vars == <<rows, halted, pos, stop, tp, pc, flat, crashes>>

RowIds == 1 .. MaxRows
OpenRows == {r \in RowIds : rows[r] = "OPEN"}

\* the steps of can_enter and of what precedes the entry
Before == {"limit", "position", "orders", "halt", "prepare", "entry"}
\* the steps after it
After == {"stop", "tp", "save"}
\* the steps when the stop was refused
Emergency == {"close", "verify", "sethalt"}

TypeOK ==
  /\ rows \in [RowIds -> {"none", "OPEN", "CLOSED"}]
  /\ halted \in BOOLEAN /\ stop \in BOOLEAN /\ tp \in BOOLEAN /\ flat \in BOOLEAN
  /\ pos \in Nat
  /\ pc \in {"idle", "recon", "sync", "dead"} \cup Before \cup After \cup Emergency
  /\ crashes \in 0 .. MaxCrashes

Init ==
  /\ rows = [r \in RowIds |-> "none"]
  /\ halted = FALSE /\ pos = 0 /\ stop = FALSE /\ tp = FALSE
  /\ pc = "idle" /\ flat = FALSE /\ crashes = 0

-----------------------------------------------------------------------------
(* Entering                                                                *)

\* execute_signal is called: its in-process lock is free, since the one thread that
\* runs the engine released it.
Request ==
  /\ pc = "idle"
  /\ pc' = "limit"
  /\ UNCHANGED <<rows, halted, pos, stop, tp, flat, crashes>>

\* Any read may raise and most may reject the signal; execute_signal answers.
GiveUp ==
  /\ pc \in Before
  /\ pc' = "idle"
  /\ UNCHANGED <<rows, halted, pos, stop, tp, flat, crashes>>

\* Step from one check to the next.
Pass(from, to) ==
  /\ pc = from /\ pc' = to
  /\ UNCHANGED <<rows, halted, pos, stop, tp, flat, crashes>>

\* can_enter: the rows, ...
CheckLimit == Cardinality(OpenRows) < MaxPositions /\ Pass("limit", "position")

\* Seeded fault: the exchange is not asked.
CheckNoPosition == Pass("position", "orders")

\* ... the position on the exchange, ...
CheckPosition == pos = 0 /\ Pass("position", "orders")

\* ... its pending entries, of which a market order never is one, ...
CheckOrders == Pass("orders", "halt")

\* ... and the kill switch.
CheckHalt == ~ halted /\ Pass("halt", "prepare")

\* Size, round, validate, and the gate of the live flags and the marker file.
Prepare == Pass("prepare", "entry")

\* The market entry: filled and reported so; filled while the answer is lost or
\* reports no quantity yet; or nothing happened (GiveUp).
PlaceEntry ==
  /\ pc = "entry"
  /\ pos' = pos + 1
  /\ pc' \in {"stop", "idle"}
  /\ UNCHANGED <<rows, halted, stop, tp, flat, crashes>>

-----------------------------------------------------------------------------
(* Protecting                                                              *)

\* Seeded fault: an answer without an order id passes for a stop.
PlaceStopUnverified ==
  /\ pc = "stop"
  /\ pc' = "tp"
  /\ stop' \in {stop, TRUE}
  /\ UNCHANGED <<rows, halted, pos, tp, flat, crashes>>

\* The stop: placed and answered with its id; placed while the answer is lost;
\* refused with an exception; or answered without an id.
PlaceStop ==
  /\ pc = "stop"
  /\ \/ stop' = TRUE /\ pc' \in {"tp", "idle"}
     \/ UNCHANGED stop /\ pc' \in {"close", "idle"}
  /\ UNCHANGED <<rows, halted, pos, tp, flat, crashes>>

\* The take profit: its failure is not fatal.
PlaceTakeProfit ==
  /\ pc = "tp"
  /\ tp' \in {tp, TRUE}
  /\ pc' = "save"
  /\ UNCHANGED <<rows, halted, pos, stop, flat, crashes>>

\* The row, unless the INSERT raises.
Save ==
  /\ pc = "save"
  /\ pc' = "idle"
  /\ \/ \E r \in RowIds : rows[r] = "none" /\ rows' = [rows EXCEPT ![r] = "OPEN"]
     \/ UNCHANGED rows
  /\ UNCHANGED <<halted, pos, stop, tp, flat, crashes>>

\* _emergency_close sells what was filled, or fails silently, ...
EmergencyClose ==
  /\ pc = "close"
  /\ pc' = "verify"
  /\ pos' \in {pos, IF pos > 0 THEN pos - 1 ELSE 0}
  /\ UNCHANGED <<rows, halted, stop, tp, flat, crashes>>

\* ... and halts when the position is still there or cannot be read, ...
Verify ==
  /\ pc = "verify"
  /\ pc' = "sethalt"
  /\ halted' \in IF pos > 0 THEN {TRUE} ELSE {halted, TRUE}
  /\ UNCHANGED <<rows, pos, stop, tp, flat, crashes>>

\* ... and its caller halts in any case.
SetHalt ==
  /\ pc = "sethalt"
  /\ halted' = TRUE
  /\ pc' = "idle"
  /\ UNCHANGED <<rows, pos, stop, tp, flat, crashes>>

\* A statement that sets the kill switch raises: execute_signal answers an error.
SetHaltFails ==
  /\ pc \in {"verify", "sethalt"}
  /\ pc' = "idle"
  /\ UNCHANGED <<rows, halted, pos, stop, tp, flat, crashes>>

-----------------------------------------------------------------------------
(* Reconciling                                                             *)

\* main's loop starts a cycle, unless the kill switch is set ...
StartCycle ==
  /\ pc = "idle" /\ ~ halted
  /\ pc' = "recon"
  /\ UNCHANGED <<rows, halted, pos, stop, tp, flat, crashes>>

\* ... which begins with a look at the exchange ...
FetchPositions ==
  /\ pc = "recon"
  /\ pc' = "sync"
  /\ flat' = (pos = 0)
  /\ UNCHANGED <<rows, halted, pos, stop, tp, crashes>>

\* ... and does not reconcile when that raises.
FetchFails ==
  /\ pc = "recon"
  /\ pc' = "idle"
  /\ UNCHANGED <<rows, halted, pos, stop, tp, flat, crashes>>

\* Seeded fault: the snapshot is not looked at.
CloseAllRows ==
  /\ pc = "sync"
  /\ pc' = "idle"
  /\ rows' = [r \in RowIds |-> IF rows[r] = "OPEN" THEN "CLOSED" ELSE rows[r]]
  /\ UNCHANGED <<halted, pos, stop, tp, flat, crashes>>

\* Seeded fault: rows stay OPEN.
KeepRows ==
  /\ pc = "sync"
  /\ pc' = "idle"
  /\ UNCHANGED <<rows, halted, pos, stop, tp, flat, crashes>>

\* What it was told closes the OPEN rows without a position.
CloseRows ==
  /\ pc = "sync"
  /\ pc' = "idle"
  /\ rows' = [r \in RowIds |-> IF flat /\ rows[r] = "OPEN" THEN "CLOSED" ELSE rows[r]]
  /\ UNCHANGED <<halted, pos, stop, tp, flat, crashes>>

\* A statement raises on the way: what was closed before stays closed.
CloseFails ==
  /\ pc = "sync"
  /\ pc' = "idle"
  /\ \E done \in SUBSET OpenRows :
       rows' = [r \in RowIds |-> IF flat /\ r \in done THEN "CLOSED" ELSE rows[r]]
  /\ UNCHANGED <<halted, pos, stop, tp, flat, crashes>>

-----------------------------------------------------------------------------
(* The environment                                                         *)

\* A statement of the loop raises, and so do the heartbeats that report it: the worker
\* thread is gone while the process lives on.
WorkerDies ==
  /\ pc \in {"idle", "recon"}
  /\ pc' = "dead"
  /\ UNCHANGED <<rows, halted, pos, stop, tp, flat, crashes>>

\* The position is closed: by its stop, its take profit or the operator.  Its
\* other orders go with it or stay.
PositionCloses ==
  /\ pos > 0
  /\ pos' = 0
  /\ stop' \in {stop, FALSE} /\ tp' \in {tp, FALSE}
  /\ UNCHANGED <<rows, halted, pc, flat, crashes>>

\* The operator closes a row on the dashboard, which asks no exchange.
DashboardClose(r) ==
  /\ rows[r] = "OPEN"
  /\ rows' = [rows EXCEPT ![r] = "CLOSED"]
  /\ UNCHANGED <<halted, pos, stop, tp, pc, flat, crashes>>

\* The operator halts and resumes.
Operator ==
  /\ halted' = ~ halted
  /\ UNCHANGED <<rows, pos, stop, tp, pc, flat, crashes>>

Crash ==
  /\ crashes < MaxCrashes
  /\ crashes' = crashes + 1
  /\ pc' = "idle"
  /\ UNCHANGED <<rows, halted, pos, stop, tp, flat>>

-----------------------------------------------------------------------------
EngineNext ==
  \/ CheckLimit \/ CheckPosition \/ CheckOrders \/ CheckHalt \/ Prepare \/ GiveUp
  \/ PlaceEntry \/ PlaceStop \/ PlaceTakeProfit \/ Save
  \/ EmergencyClose \/ Verify \/ SetHalt \/ SetHaltFails

Next ==
  \/ EngineNext \/ Request
  \/ StartCycle \/ FetchPositions \/ FetchFails \/ CloseRows \/ CloseFails \/ WorkerDies
  \/ PositionCloses \/ Operator \/ Crash
  \/ \E r \in RowIds : DashboardClose(r)

Spec == Init /\ [][Next]_vars

\* A call returns or raises; the loop comes round again, whatever else the engine is
\* asked meanwhile; and among the cycles there are always some whose look at the
\* exchange succeeds, and among those some whose writes do.
FairSpec ==
  /\ Spec
  /\ WF_vars(EngineNext)
  /\ SF_vars(StartCycle) /\ SF_vars(FetchPositions) /\ SF_vars(CloseRows)

-----------------------------------------------------------------------------
(* Properties                                                              *)

\* An entry is never added to a position: an entry whose answer was lost, or that
\* no row records, still keeps the next signal out.
OnePosition == pos <= 1

\* What the table shows as open is protected on the exchange.
RowsProtected == OpenRows # {} /\ pos > 0 => stop

\* A row whose position is gone is closed in the end, unless the kill switch keeps being
\* set or the worker thread is gone: reconcile only runs within a cycle.
RowsCatchUp ==
  <>[](~ halted /\ pc # "dead") =>
    \A r \in RowIds : rows[r] = "OPEN" /\ pos = 0 ~> rows[r] = "CLOSED"

\* A row is only closed when its position is, or by the operator's hand.
ReconcileSound ==
  [][\A r \in RowIds : pc = "sync" /\ pc' = "idle" /\ rows[r] = "OPEN" /\ pos > 0
       => rows'[r] = "OPEN"]_vars

\* A protective stop that was not placed halts the engine before it turns to anything
\* else, as execution.py:102-106 has it (the run has no restarts).
RefusedStopHalts == [][pc = "stop" /\ pc' = "idle" => (stop \/ halted)']_vars
=============================================================================
