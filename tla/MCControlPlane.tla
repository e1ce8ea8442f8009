--------------------------- MODULE MCControlPlane ---------------------------
(* Instances of ControlPlane for TLC. *)
EXTENDS ControlPlane, TLC

CONSTANTS w1, w2   \* workers of the local API

Table(max_loss, override) ==
  [max_loss |-> max_loss, daily_risk |-> 5, override |-> override,
   legacy_override |-> FALSE, risk |-> 1, target |-> 7, paper |-> TRUE,
   scan |-> FALSE]

\* A database the installer's config.json was migrated into, and one without.
MCRows == {Table(-2, FALSE), Table(NoRow, NoRow)}

FreshRows == {Table(NoRow, NoRow)}

\* The override with a risk below the limit, a lower limit, live trading without
\* its confirmation, and a number field that was cleared.
MCPatches ==
  {"override" :> TRUE @@ "risk" :> 4,
   "max_loss" :> 3,
   "paper" :> FALSE,
   "target" :> Bad @@ "paper" :> FALSE @@ "live_mode_confirmed" :> TRUE}

MCBase ==
  [max_loss_pct |-> 0, target_pct |-> 0, giveback_pct |-> 25,
   target_mode |-> "giveback", flatten_on_max_loss |-> TRUE,
   flatten_on_target |-> FALSE, stop_loss_pct |-> 2, position_size_pct |-> 25,
   override_risk |-> FALSE, risk_per_trade_pct |-> 0]
=============================================================================
