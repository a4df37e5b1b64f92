----------------------------- MODULE MCBacktest -----------------------------
(* Small instances of Backtest. *)
EXTENDS Backtest

MCPnls == {-6, 10}
=============================================================================
