-------------------------- MODULE MCCircuitBreaker --------------------------
(* Instances of CircuitBreaker for TLC. *)
EXTENDS CircuitBreaker

\* 100 dollars: one dollar of P/L is one percent.
MCPnl == -3..5

Limits(mode) ==
  [max_loss_pct |-> -2, target_pct |-> 3, giveback_pct |-> 25,
   target_mode |-> mode, flatten_on_max_loss |-> TRUE,
   flatten_on_target |-> FALSE]

GivebackCfg == Limits("giveback")
=============================================================================
