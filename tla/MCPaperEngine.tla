--------------------------- MODULE MCPaperEngine ---------------------------
(***************************************************************************)
(* Small instances of PaperEngine.  Signals are candles of one symbol       *)
(* (MCSameSymbol), or belong to a symbol each (MCSymbolOf).                *)
(* Money is counted in units of one loss: the balance is 200 units, so     *)
(* that the default daily limit of 1% is two losses at the default risk of *)
(* 0.5% per trade.                                                         *)
(***************************************************************************)
EXTENDS PaperEngine

CONSTANTS g1, g2, s1, s2

MCSymbolOf == [g \in {g1, g2} |-> IF g = g1 THEN s1 ELSE s2]
MCSameSymbol == [g \in Signals |-> s1]

\* signals of one symbol are interchangeable
MCSwap == { [x \in {g1, g2} |-> x],
            [x \in {g1, g2} |-> IF x = g1 THEN g2 ELSE g1] }

MCLoss == {-1}
MCPnls == {-1, 1}
=============================================================================
