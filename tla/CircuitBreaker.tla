--------------------------- MODULE CircuitBreaker ---------------------------
(***************************************************************************)
(* One trading day as the circuit breakers see it: checks with any P/L     *)
(* figures, and entries while the day is not halted.  It is the abstract   *)
(* specification that the execution session implements (ExecutionSession), *)
(* and the machine on which the breakers' own laws are stated.             *)
(***************************************************************************)
EXTENDS DailyLimits

CONSTANTS Equity,     \* day_start_equity: what get_account reports at the open
          Pnl,        \* the realized and unrealized figures a check may see
          Cfg,        \* the configuration of the day
          MaxTrades   \* bound of the model: entries in a day

ASSUME EquityAssumption == Equity \in Int
ASSUME PnlAssumption == Pnl \subseteq Int
ASSUME CfgAssumption == IsLimitConfig(Cfg)
ASSUME MaxTradesAssumption == MaxTrades \in Nat

VARIABLES day,       \* the DailyState
          verdict,   \* what the last check returned
          entered    \* trades entered so far

vars == <<day, verdict, entered>>

TypeOK == day \in Days /\ verdict \in Verdicts /\ entered \in 0..MaxTrades

Init == day = NewDay(Equity) /\ verdict = "none" /\ entered = 0

Check(realized, unrealized) ==
  LET r == CheckDailyLimits(day, realized, unrealized, Cfg)
  IN  day' = r.day /\ verdict' = r.verdict /\ UNCHANGED entered

\* _process_entries runs only when the halted flag is down.
Enter ==
  /\ ~day.halted
  /\ entered < MaxTrades
  /\ entered' = entered + 1
  /\ UNCHANGED <<day, verdict>>

Next == (\E r, u \in Pnl : Check(r, u)) \/ Enter

Spec == Init /\ [][Next]_vars

-----------------------------------------------------------------------------
(* Properties *)

\* A giveback halt can only follow a day that really reached its target: once
\* the breaker is armed, the high-water mark it trails is at or above the
\* activation threshold (circuit_breaker.py:87-98, mark and latch are updated
\* in separate statements).
ArmedAboveTarget ==
  day.armed /\ day.equity > 0 => 100 * day.high >= Cfg.target_pct * day.equity

\* While a giveback day trades on, its P/L is below the mark and above the
\* trigger: every figure that passed a check is bracketed by the two levels.
BracketedWhileArmed ==
  day.armed /\ ~day.halted =>
    /\ TotalPnl(day) <= day.high
    /\ 100 * TotalPnl(day) > day.high * (100 - Cfg.giveback_pct)

\* Halting is a latch that no later recovery of the P/L undoes, it keeps the
\* reason it was set for, and the order to flatten is given at most once, by
\* the check that sets it (circuit_breaker.py:58-59).
HaltLatch ==
  [][ /\ day.halted => day'.halted /\ day'.reason = day.reason
      /\ day' # day /\ verdict' = "flatten_and_halt" => ~day.halted
      /\ day.halted => entered' = entered ]_vars
=============================================================================
