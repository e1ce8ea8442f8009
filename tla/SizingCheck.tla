---------------------------- MODULE SizingCheck ----------------------------
(***************************************************************************)
(* Position sizing as a machine that answers one question: an account, a   *)
(* price and a configuration are given, and Size works out the entry.  The *)
(* invariants say what every answer of compute_shares and                  *)
(* goalpost_trade_count is, in terms of the limits and never of the        *)
(* formula.                                                                *)
(***************************************************************************)
EXTENDS Sizing

CONSTANTS Equities, BuyingPowers, Prices, Configs

ASSUME InputsAssumption ==
  /\ Equities \subseteq Int /\ BuyingPowers \subseteq Int
  /\ Prices \subseteq Nat \ {0}
  /\ \A c \in Configs : IsSizingConfig(c)

VARIABLES equity, buying_power, price, config,  \* the question
          answered, shares, trades              \* the answer

question == <<equity, buying_power, price, config>>
sizing_vars == <<question, answered, shares, trades>>

SizingTypeOK ==
  /\ equity \in Equities /\ buying_power \in BuyingPowers
  /\ price \in Prices /\ config \in Configs
  /\ answered \in BOOLEAN /\ shares \in Nat /\ trades \in Nat

SizingInit ==
  /\ equity \in Equities /\ buying_power \in BuyingPowers
  /\ price \in Prices /\ config \in Configs
  /\ answered = FALSE /\ shares = 0 /\ trades = 0

Size ==
  /\ ~answered
  /\ answered' = TRUE
  /\ shares' = ComputeShares(equity, buying_power, price, config)
  /\ trades' = GoalpostTradeCount(config)
  /\ UNCHANGED question

Done == answered /\ UNCHANGED sizing_vars

SizingNext == Size \/ Done

SizingSpec == SizingInit /\ [][SizingNext]_sizing_vars

-----------------------------------------------------------------------------
(* Properties *)

\* n shares lose no more than the risk budget when the stop is hit, and cost no
\* more than the slice of buying power for one position and than all of it.
WithinRisk(n) == n * (price * config.stop_loss_pct) <= equity * EffectiveRisk(config)

WithinSlice(n) == 100 * (n * price) <= buying_power * config.position_size_pct

WithinPower(n) == n * price <= buying_power

\* An entry keeps to all three limits, whatever the three floors and the two
\* skips of compute_shares do to one another (sizing.py:49-88).
KeepsLimits ==
  answered /\ shares > 0 => WithinRisk(shares) /\ WithinSlice(shares) /\ WithinPower(shares)

\* One share more would break one of them: nothing is lost to the order of the
\* floors, and an entry is skipped only when a single share is too much.
IsLargest ==
  answered /\ price * config.stop_loss_pct > 0 =>
    LET n == shares + 1 IN ~(WithinRisk(n) /\ WithinSlice(n) /\ WithinPower(n))

\* So many losing trades use up the daily loss, and one less do not: the
\* goal-post is neither early nor late (config.py:70-77).
GoalpostIsExact ==
  answered /\ EffectiveRisk(config) > 0 =>
    /\ trades * EffectiveRisk(config) >= Magnitude(config.max_loss_pct)
    /\ (trades - 1) * EffectiveRisk(config) < Magnitude(config.max_loss_pct)
=============================================================================
