---------------------------- MODULE DailyLimits ----------------------------
(***************************************************************************)
(* The daily circuit breakers of the trading engine, as operators:         *)
(* bot/engine/circuit_breaker.py.  A day is the DailyState record, a cfg   *)
(* the part of ExecutionConfig the breakers read.                          *)
(*                                                                         *)
(* Money is an integer number of dollars and a percentage an integer, and  *)
(* every comparison of the code is multiplied out, so that it is exact:    *)
(* pnl / equity * 100 <= k  is  100 * pnl <= k * equity.  Float rounding   *)
(* is not modelled.  halt_reason keeps only which breaker fired.           *)
(***************************************************************************)
EXTENDS Integers

Reasons == {"none", "max_loss", "target", "giveback"}

\* DailyAction.
Verdicts == {"none", "halt", "flatten_and_halt"}

Days == [equity : Int, realized : Int, unrealized : Int, halted : BOOLEAN,
         reason : Reasons, high : Int, armed : BOOLEAN]

\* What the breakers read of an ExecutionConfig.
IsLimitConfig(c) ==
  /\ c.max_loss_pct \in Int /\ c.target_pct \in Int /\ c.giveback_pct \in Int
  /\ c.target_mode \in {"stop", "giveback"}
  /\ c.flatten_on_max_loss \in BOOLEAN /\ c.flatten_on_target \in BOOLEAN

\* start_day: every field but the equity snapshot has its default.
NewDay(equity) ==
  [equity |-> equity, realized |-> 0, unrealized |-> 0, halted |-> FALSE,
   reason |-> "none", high |-> 0, armed |-> FALSE]

TotalPnl(d) == d.realized + d.unrealized

\* total_pnl_pct <= k and >= k; the percentage is 0 without positive equity.
PctAtMost(d, k) ==
  IF d.equity <= 0 THEN 0 <= k ELSE 100 * TotalPnl(d) <= k * d.equity

PctAtLeast(d, k) ==
  IF d.equity <= 0 THEN 0 >= k ELSE 100 * TotalPnl(d) >= k * d.equity

MaxLossHit(d, c) == PctAtMost(d, c.max_loss_pct)

TargetHit(d, c) == PctAtLeast(d, c.target_pct)

\* Giveback mode: the running high-water mark, and the latch armed at the
\* activation threshold.
TrackArmOnly(d, c) == [d EXCEPT !.armed = IF TargetHit(d, c) THEN TRUE ELSE @]
TrackHighWater(d, c) ==
  [d EXCEPT !.high = IF TotalPnl(d) > @ THEN TotalPnl(d) ELSE @,
            !.armed = IF TargetHit(d, c) THEN TRUE ELSE @]

GaveBackOfPeak(d, c) == 100 * TotalPnl(d) <= d.high * c.giveback_pct
GaveBack(d, c) ==
  d.armed /\ 100 * TotalPnl(d) <= d.high * (100 - c.giveback_pct)

HaltWithoutFlatten(d, why, flatten) ==
  [day |-> [d EXCEPT !.halted = TRUE, !.reason = why], verdict |-> "halt"]
Halt(d, why, flatten) ==
  [day |-> [d EXCEPT !.halted = TRUE, !.reason = why],
   verdict |-> IF flatten THEN "flatten_and_halt" ELSE "halt"]

Go(d) == [day |-> d, verdict |-> "none"]

\* The profit-side breaker of each mode.
CheckStop(d, c) ==
  IF TargetHit(d, c) THEN Halt(d, "target", c.flatten_on_target) ELSE Go(d)

CheckGiveback(d, c) ==
  LET t == TrackHighWater(d, c)
  IN  IF GaveBack(t, c) THEN Halt(t, "giveback", TRUE) ELSE Go(t)

\* check_daily_limits: the updated day and the action to take.
CheckForgetsHalt(d, realized, unrealized, c) ==
  LET m == [d EXCEPT !.realized = realized, !.unrealized = unrealized]
  IN  CASE MaxLossHit(m, c) -> Halt(m, "max_loss", c.flatten_on_max_loss)
        [] ~MaxLossHit(m, c) /\ c.target_mode = "stop" -> CheckStop(m, c)
        [] OTHER -> CheckGiveback(m, c)

CheckDailyLimits(d, realized, unrealized, c) ==
  LET m == [d EXCEPT !.realized = realized, !.unrealized = unrealized]
  IN  CASE m.halted -> [day |-> m, verdict |-> "halt"]
        [] ~m.halted /\ MaxLossHit(m, c) ->
             Halt(m, "max_loss", c.flatten_on_max_loss)
        [] ~m.halted /\ ~MaxLossHit(m, c) /\ c.target_mode = "stop" ->
             CheckStop(m, c)
        [] OTHER -> CheckGiveback(m, c)
=============================================================================
