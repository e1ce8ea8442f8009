------------------------------ MODULE MCSizing ------------------------------
(* An instance of SizingCheck for TLC. *)
EXTENDS SizingCheck

MCEquities == {-10, 0, 90, 100, 1000}

MCBuyingPowers == {-5, 0, 7, 100, 250}

MCPrices == {1, 3, 7, 40}

\* Both signs of the daily loss, overrides below, at and above it, and the
\* degenerate stop, slice and risk.
MCConfigs ==
  [max_loss_pct : {-5, 0, 3}, stop_loss_pct : {0, 2, 7},
   position_size_pct : {0, 33, 100}, risk_per_trade_pct : {0, 2, 3, 4},
   override_risk : BOOLEAN]
=============================================================================
