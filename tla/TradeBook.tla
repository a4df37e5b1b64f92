------------------------------ MODULE TradeBook ------------------------------
(***************************************************************************)
(* What the paper trading engine promises about the rows of the trades     *)
(* table, with every cause abstracted away: which actors there are, which  *)
(* of them may hold an entry, and how often a row may be settled.          *)
(*                                                                         *)
(*   - a row is created OPEN by one actor, and an actor never has two OPEN *)
(*     rows of its own;                                                    *)
(*   - a row that was settled never becomes OPEN again;                    *)
(*   - each actor settles a row at most once, so its profit or loss is     *)
(*     written at most as often as there are actors.                       *)
(*                                                                         *)
(* PaperEngine implements this specification (PaperEngine!Book).           *)
(***************************************************************************)
EXTENDS Naturals

CONSTANTS Actors,   \* the worker thread and the dashboard's event loop
          NoActor,  \* the opener of an unused row
          TradeIds  \* identities of rows

VARIABLE book       \* row id -> its status and opener, who settled it, how often

NoRow == [status |-> "none", opener |-> NoActor, settlers |-> {}, writes |-> 0]

Init == book = [t \in TradeIds |-> NoRow]

(***************************************************************************)
(* Actor a creates row t.                                                  *)
(***************************************************************************)
Enter(a, t) ==
  /\ book[t].status = "none"
  /\ \A u \in TradeIds : book[u].status = "OPEN" => book[u].opener # a
  /\ book' = [book EXCEPT ![t] = [status |-> "OPEN", opener |-> a,
                                    settlers |-> {}, writes |-> 0]]

(***************************************************************************)
(* Actor a writes the result of row t, whether or not another actor did.   *)
(***************************************************************************)
Settle(a, t) ==
  /\ book[t].status # "none"
  /\ a \notin book[t].settlers
  /\ book' = [book EXCEPT ![t] = [status |-> "CLOSED", opener |-> @.opener,
                                   settlers |-> @.settlers \cup {a},
                                   writes |-> @.writes + 1]]

Next == \E a \in Actors, t \in TradeIds : Enter(a, t) \/ Settle(a, t)

Spec == Init /\ [][Next]_book
=============================================================================
