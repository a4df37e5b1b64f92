---------------------------- MODULE MCDashboard ----------------------------
(***************************************************************************)
(* What the dashboard serves: the operator's account, and the figures it   *)
(* draws over candles and trades.  They share no state, so that a small    *)
(* instance of both need not interleave them: a behaviour is of the        *)
(* account or of the figures, and leaves the other as it began.            *)
(***************************************************************************)
EXTENDS MCAnalytics, Accounts

DashboardInit == Init /\ FiguresInit

AccountStep == FiguresInit /\ Next /\ UNCHANGED figureVars
FiguresStep == Init /\ FiguresNext /\ UNCHANGED vars

DashboardNext == AccountStep \/ FiguresStep

\* Tokens and requests to change the password are told apart by nothing else.
Swaps == Permutations(Tokens) \cup Permutations(Requests)

DashboardSpec == DashboardInit /\ [][DashboardNext]_<<vars, figureVars>>
=============================================================================
