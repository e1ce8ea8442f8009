------------------------- MODULE MCExecutionSession -------------------------
(* Instances of ExecutionSession for TLC. *)
EXTENDS ExecutionSession

CONSTANTS s1, s2   \* the symbols

Candle(close, bullish, fresh, turning) ==
  [close |-> close, bullish |-> bullish, fresh |-> fresh, turning |-> turning]

MCPrices == {10, 12}

\* An entry candle at either price, a quiet one and a reversal.
MCCandles ==
  {Candle(10, TRUE, TRUE, FALSE), Candle(12, TRUE, FALSE, FALSE),
   Candle(12, FALSE, FALSE, FALSE), Candle(10, FALSE, FALSE, TRUE)}

\* One price, for the runs in which money plays no part.
FlatPrices == {10}

FlatCandles ==
  {Candle(10, TRUE, TRUE, FALSE), Candle(10, FALSE, FALSE, FALSE),
   Candle(10, FALSE, FALSE, TRUE), Candle(10, TRUE, FALSE, TRUE)}

Account(equity, buying_power, pdt) ==
  [equity |-> equity, buying_power |-> buying_power, intraday |-> 0, pdt |-> pdt]

MCAccounts == {Account(100, 100, FALSE), Account(100, 100, TRUE)}

\* What two trades of at most three shares at those prices can add up to.
MCPnl == {2 * k : k \in -6..6}

\* 3 shares at 10, 2 at 12; one lost share of 2 dollars is 2%.
Config(mode, exit_mode) ==
  [max_loss_pct |-> -4, target_pct |-> 4, giveback_pct |-> 25,
   target_mode |-> mode, flatten_on_max_loss |-> TRUE,
   flatten_on_target |-> FALSE,
   stop_loss_pct |-> 12, position_size_pct |-> 50,
   override_risk |-> FALSE, risk_per_trade_pct |-> 1,
   take_profit_pct |-> 20, trailing_stop |-> FALSE, trailing_stop_pct |-> 10,
   exit_mode |-> exit_mode, trail_off_trigger |-> "candle_pattern",
   fraction_pct |-> 25, force_close |-> TRUE]

DumpGiveback == Config("giveback", "dump")
TrailGiveback == Config("giveback", "trail_off")
TrailStop == Config("stop", "trail_off")
=============================================================================
