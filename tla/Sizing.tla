------------------------------- MODULE Sizing -------------------------------
(***************************************************************************)
(* Risk-based position sizing: bot/engine/sizing.py and the goal-post of   *)
(* bot/engine/config.py.  Money and percentages are integers and every     *)
(* floor of a quotient is one integer division of the multiplied-out       *)
(* fraction; float rounding is not modelled.                               *)
(***************************************************************************)
EXTENDS Integers

\* What sizing reads of an ExecutionConfig.
IsSizingConfig(c) ==
  /\ c.max_loss_pct \in Int /\ c.stop_loss_pct \in Nat
  /\ c.position_size_pct \in Nat /\ c.risk_per_trade_pct \in Nat
  /\ c.override_risk \in BOOLEAN

Magnitude(x) == IF x < 0 THEN -x ELSE x

Least(a, b) == IF a <= b THEN a ELSE b

\* The override counts only below the daily number.
EffectiveRiskUnchecked(c) ==
  IF c.override_risk THEN c.risk_per_trade_pct ELSE Magnitude(c.max_loss_pct)
EffectiveRisk(c) ==
  IF c.override_risk /\ c.risk_per_trade_pct < Magnitude(c.max_loss_pct)
  THEN c.risk_per_trade_pct
  ELSE Magnitude(c.max_loss_pct)

\* floor(equity * risk% / (price * stop%)), before the caps.
RiskShares(equity, price, c) ==
  (equity * EffectiveRisk(c)) \div (price * c.stop_loss_pct)

\* The two buying-power caps.
CapsNoSlice(buying_power, price, c) == buying_power \div price
Caps(buying_power, price, c) ==
  Least((buying_power * c.position_size_pct) \div (100 * price),
        buying_power \div price)

ComputeSharesSkipsOne(equity, buying_power, price, c) ==
  IF price * c.stop_loss_pct <= 0 \/ RiskShares(equity, price, c) <= 1
  THEN 0
  ELSE LET n == Least(RiskShares(equity, price, c), Caps(buying_power, price, c))
       IN  IF n < 1 THEN 0 ELSE n
\* compute_shares: the number of shares to buy, 0 when the entry is skipped.
ComputeShares(equity, buying_power, price, c) ==
  IF price * c.stop_loss_pct <= 0 \/ RiskShares(equity, price, c) < 1
  THEN 0
  ELSE LET n == Least(RiskShares(equity, price, c), Caps(buying_power, price, c))
       IN  IF n < 1 THEN 0 ELSE n

\* goalpost_trade_count: ceil(|daily loss| / risk per trade), 1 without risk.
GoalpostFloor(c) ==
  IF EffectiveRisk(c) <= 0 THEN 1
  ELSE Magnitude(c.max_loss_pct) \div EffectiveRisk(c)
GoalpostTradeCount(c) ==
  IF EffectiveRisk(c) <= 0 THEN 1
  ELSE (Magnitude(c.max_loss_pct) + EffectiveRisk(c) - 1) \div EffectiveRisk(c)
=============================================================================
