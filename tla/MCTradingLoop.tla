--------------------------- MODULE MCTradingLoop ---------------------------
(* Instances of TradingLoop for TLC. *)
EXTENDS TradingLoop, TLC

CONSTANTS s1, s2   \* symbols

Symmetric == Permutations(Symbols)
=============================================================================
