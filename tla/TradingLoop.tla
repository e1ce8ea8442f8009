---------------------------- MODULE TradingLoop ----------------------------
(***************************************************************************)
(* One market day of run.py's _trading_loop, with the ranking that the     *)
(* scans write, the order table of the bot's database and the account at   *)
(* the broker.                                                             *)
(*                                                                         *)
(* The loop and the scan loop are coroutines of one event loop; scans and  *)
(* cycles run in executor threads while the coroutine awaits them, so a    *)
(* scan's ranking may arrive at any step of the other.                     *)
(*                                                                         *)
(* Abstractions.  A position is a symbol and an order a number, in the     *)
(* order of placing.  A cycle is one step, with the exits and entries of   *)
(* ExecutionSession as free choices; its clock is read at its beginning.   *)
(* A cycle takes less than the five minutes before the close, so that one  *)
(* begins in them.                                                         *)
(***************************************************************************)
EXTENDS Integers, FiniteSets

CONSTANTS Symbols,
          MaxOrders,  \* bound of the model: orders in the day
          MaxFaults   \* bound of the model: exceptions and failed writes

ASSUME SymbolsAssumption == IsFiniteSet(Symbols)
ASSUME BoundsAssumption == MaxOrders \in Nat /\ MaxFaults \in Nat

VARIABLES time,       \* the wall clock against the real session
          up,         \* whether the process runs
          pc,         \* where the coroutine is
          ranking,    \* the rows with state 'active' in active_tickers
          ranked,     \* the ranking the day began with
          current,    \* the symbols of the running cycle
          bars,       \* those whose bars could be fetched
          late_close, \* whether the session's clock closes after the market
          force_close, \* the session's setting force_close_at_close
          last_call,  \* whether a cycle began in the last five minutes
          positions,  \* _open_trades of the session
          halted,     \* whether its circuit breakers have halted the day
          orders,     \* orders_submitted of the session's result
          ledger,     \* the orders table
          held,       \* what the account holds
          placed,     \* orders placed so far
          crashed,    \* whether the process has ended once (bound: one crash)
          faults      \* faults so far (bound)

session == <<positions, halted, orders>>
account == <<held, placed>>
vars == <<time, up, pc, ranking, ranked, current, bars, late_close, force_close,
          last_call, session, ledger, account, crashed, faults>>

Times == {"open", "near_close", "closed", "past"}

TypeOK ==
  /\ time \in Times /\ up \in BOOLEAN
  /\ pc \in {"scan", "start", "sleep", "cycle", "persist", "over"}
  /\ ranking \subseteq Symbols /\ ranked \subseteq Symbols
  /\ current \subseteq Symbols /\ bars \subseteq Symbols
  /\ late_close \in BOOLEAN /\ force_close \in BOOLEAN /\ last_call \in BOOLEAN
  /\ halted \in BOOLEAN /\ crashed \in BOOLEAN
  /\ positions \subseteq Symbols /\ orders \subseteq 1..MaxOrders
  /\ ledger \subseteq 1..MaxOrders /\ held \subseteq Symbols
  /\ placed \in 0..MaxOrders /\ faults \in 0..MaxFaults

Init ==
  /\ time = "open" /\ up = TRUE /\ pc = "scan"
  /\ ranking \in SUBSET Symbols
  /\ ranked = {} /\ current = {} /\ bars = {}
  /\ late_close = FALSE /\ force_close = FALSE /\ last_call = FALSE
  /\ positions = {} /\ halted = FALSE /\ orders = {} /\ ledger = {}
  /\ crashed = FALSE /\ held = {} /\ placed = 0 /\ faults = 0

Fault ==
  /\ faults < MaxFaults
  /\ faults' = faults + 1

-----------------------------------------------------------------------------
(* The world *)

Tick ==
  /\ time # "past"
  /\ time = "near_close" => last_call \/ ~up \/ pc \in {"scan", "start", "over"}
  /\ time' = CASE time = "open" -> "near_close"
               [] time = "near_close" -> "closed"
               [] OTHER -> "past"
  /\ UNCHANGED <<up, pc, ranking, ranked, current, bars, late_close, force_close,
                 last_call, session, ledger, account, faults, crashed>>

\* A scan triggered over the control plane replaces the ranking.
TriggeredScan(r) ==
  /\ up /\ ranking # r
  /\ ranking' = r
  /\ UNCHANGED <<time, up, pc, ranked, current, bars, late_close, force_close,
                 last_call, session, ledger, account, faults, crashed>>

\* The process ends, and what only the session knew is gone.
Crash ==
  /\ up /\ ~crashed
  /\ crashed' = TRUE
  /\ up' = FALSE
  /\ pc' = "scan"
  /\ ranked' = {} /\ current' = {} /\ bars' = {}
  /\ late_close' = FALSE /\ force_close' = FALSE
  /\ positions' = {} /\ halted' = FALSE /\ orders' = {}
  /\ UNCHANGED <<time, ranking, last_call, ledger, account, faults>>

\* The loop begins anew; when the market is closed it only waits.
Restart ==
  /\ ~up
  /\ up' = TRUE
  /\ pc' = IF time \in {"open", "near_close"} THEN "scan" ELSE "over"
  /\ UNCHANGED <<time, ranking, ranked, current, bars, late_close, force_close,
                 last_call, session, ledger, account, faults, crashed>>

-----------------------------------------------------------------------------
(* Starting the day *)

\* The scan before the session yields a ranking, or nothing: it raises, or the
\* hour is outside its window.  Without one the stored ranking is used.
PreSessionScan(r) ==
  /\ up /\ pc = "scan"
  /\ \/ ranking' = r /\ ranked' = r
     \/ ranking' = ranking /\ ranked' = ranking
  /\ pc' = "start"
  /\ UNCHANGED <<time, up, current, bars, late_close, force_close, last_call,
                 session, ledger, account, faults, crashed>>

\* The settings of the day are read, force_close_at_close among them.  The
\* calendar gives the close; when it cannot be fetched the session's clock closes
\* six and a half hours from now.  Then start_day takes its snapshot...
StartSession ==
  /\ up /\ pc = "start"
  /\ \/ late_close' = FALSE /\ UNCHANGED faults
     \/ late_close' = TRUE /\ Fault
  /\ force_close' \in BOOLEAN
  /\ positions' = {} /\ halted' = FALSE /\ orders' = {}
  /\ pc' = "sleep"
  /\ UNCHANGED <<time, up, ranking, ranked, current, bars, last_call, ledger,
                 account, crashed>>

\* ... or raises, and the loop starts over.
StartFails ==
  /\ up /\ pc = "start" /\ Fault
  /\ pc' = IF time \in {"open", "near_close"} THEN "scan" ELSE "over"
  /\ UNCHANGED <<time, up, ranking, ranked, current, bars, late_close,
                 force_close, last_call, session, ledger, account, crashed>>

-----------------------------------------------------------------------------
(* A minute of the day *)

\* The close by the session's clock.  A late clock closes after the day that is
\* modelled.
SessionClosed == time \in {"closed", "past"} /\ ~late_close

CurrentRankedFromTable == ranking
CurrentRanked == IF ranking # {} THEN ranking ELSE ranked

\* With nothing ranked, or when the bars cannot be fetched at all, the cycle is
\* skipped.  The bars of a symbol may be missing.
FetchBars(b) ==
  /\ up /\ pc = "sleep"
  /\ ~(time = "past" /\ ~late_close)
  /\ CurrentRanked # {} /\ b \subseteq CurrentRanked
  /\ current' = CurrentRanked /\ bars' = b
  /\ pc' = "cycle"
  /\ UNCHANGED <<time, up, ranking, ranked, late_close, force_close, last_call,
                 session, ledger, account, faults, crashed>>

SkipCycle ==
  /\ up /\ pc = "sleep"
  /\ ~(time = "past" /\ ~late_close)
  /\ CurrentRanked = {}
  /\ last_call' = (last_call \/ time = "near_close")
  /\ UNCHANGED <<time, up, pc, ranking, ranked, current, bars, late_close,
                 force_close, session, ledger, account, faults, crashed>>

\* What the orders of a cycle do: sales empty a position, purchases open one,
\* each is an order.
Trade(sold, bought) ==
  LET n == Cardinality(sold) + Cardinality(bought)
  IN  /\ placed' = placed + n
      /\ orders' = orders \cup ((placed + 1)..(placed + n))
      /\ held' = (held \ sold) \cup bought
      /\ positions' = (positions \ sold) \cup bought

\* The bound on orders leaves room to sell what is tracked.
Room == placed' + Cardinality(positions') <= MaxOrders

\* Near the close, by its own clock, the session sells everything, if its setting
\* says so.  A late clock is not near its close on the day that is modelled.
ForcesClose == force_close /\ time = "near_close" /\ ~late_close

\* run_cycle once its clock has closed...
ClosedCycle == SessionClosed /\ Trade({}, {}) /\ UNCHANGED halted

\* ... when the breakers have halted the day, or do now: exits, or a flatten ...
HaltedCycle ==
  /\ ~SessionClosed
  /\ halted' = TRUE
  /\ \E sold \in (SUBSET (positions \cap bars)) \cup {positions} : Trade(sold, {})

\* ... near the close ...
ForcedCloseOnlyRanked ==
  /\ ~SessionClosed /\ ~halted /\ ForcesClose
  /\ Trade(positions \cap current, {})
  /\ UNCHANGED halted
ForcedClose ==
  /\ ~SessionClosed /\ ~halted /\ ForcesClose
  /\ Trade(positions, {})
  /\ UNCHANGED halted

\* ... or otherwise: exits of positions with bars, then entries.
TradingCycle ==
  /\ ~SessionClosed /\ ~halted /\ ~ForcesClose
  /\ \E sold \in SUBSET (positions \cap bars) :
       \E bought \in SUBSET (bars \ (positions \ sold)) : Trade(sold, bought) /\ Room
  /\ UNCHANGED halted

RunCycle ==
  /\ up /\ pc = "cycle"
  /\ last_call' = (last_call \/ time = "near_close")
  /\ ClosedCycle \/ HaltedCycle \/ ForcedClose \/ TradingCycle
  /\ pc' = "persist"
  /\ UNCHANGED <<time, up, ranking, ranked, current, bars, late_close,
                 force_close, ledger, faults, crashed>>

\* It raises after some of its orders, which are in the result that the loop
\* does not see.  Positions that were sold are still tracked when the loop over
\* the exits, or over all positions in a flatten, is left; entries come after
\* them.  What becomes of the order that raised is left to ExecutionSession.
CycleRaises(sold, kept, bought) ==
  /\ up /\ pc = "cycle" /\ ~SessionClosed /\ Fault
  /\ last_call' = (last_call \/ time = "near_close")
  /\ halted' \in {halted, TRUE}
  /\ sold \subseteq IF halted' \/ ForcesClose THEN positions ELSE positions \cap bars
  /\ kept \subseteq sold
  /\ bought # {} => /\ ~halted' /\ ~ForcesClose /\ kept = {}
                    /\ bought \subseteq bars \ (positions \ sold)
  /\ placed' = placed + Cardinality(sold) + Cardinality(bought)
  /\ orders' = orders \cup ((placed + 1)..placed')
  /\ held' = (held \ sold) \cup bought
  /\ positions' = (positions \ (sold \ kept)) \cup bought
  /\ Room
  /\ pc' = "sleep"
  /\ UNCHANGED <<time, up, ranking, ranked, current, bars, late_close,
                 force_close, ledger, crashed>>

\* The orders of the result, which is the result of the whole day, are inserted
\* unless present, and committed.  An insertion that fails is passed over.
PersistNewestOnly ==
  /\ up /\ pc = "persist"
  /\ ledger' = ledger \cup (orders \cap {placed})
  /\ pc' = "sleep"
  /\ UNCHANGED <<time, up, ranking, ranked, current, bars, late_close,
                 force_close, last_call, session, account, faults, crashed>>
Persist ==
  /\ up /\ pc = "persist"
  /\ \/ ledger' = ledger \cup orders /\ UNCHANGED faults
     \/ /\ \E failed \in SUBSET (orders \ ledger) :
             failed # {} /\ ledger' = ledger \cup (orders \ failed)
        /\ Fault
  /\ pc' = "sleep"
  /\ UNCHANGED <<time, up, ranking, ranked, current, bars, late_close,
                 force_close, last_call, session, account, crashed>>

\* A minute after the close the loop calls end_day, which sells what is left as
\* far as the broker lets it, and drops the session.  These orders are not
\* stored.
EndDay ==
  /\ up /\ pc = "sleep"
  /\ time = "past" /\ ~late_close
  /\ \/ held' = held \ positions
        /\ placed' = placed + Cardinality(positions)
        /\ UNCHANGED faults
     \/ \E sold \in SUBSET positions :
          /\ held' = held \ sold
          /\ placed' = placed + Cardinality(sold)
          /\ Fault
  /\ positions' = {} /\ halted' = FALSE /\ orders' = {}
  /\ pc' = "over"
  /\ UNCHANGED <<time, up, ranking, ranked, current, bars, late_close,
                 force_close, last_call, ledger, crashed>>

\* The day is over, or its bounds are used up.
Done ==
  /\ time = "past"
  /\ UNCHANGED vars

-----------------------------------------------------------------------------

Next ==
  \/ Tick \/ Crash \/ Restart
  \/ \E r \in SUBSET Symbols : TriggeredScan(r) \/ PreSessionScan(r) \/ FetchBars(r)
  \/ StartSession \/ StartFails \/ SkipCycle \/ RunCycle \/ Persist \/ EndDay
  \/ \E sold, kept, bought \in SUBSET Symbols : CycleRaises(sold, kept, bought)
  \/ Done

Spec == Init /\ [][Next]_vars

-----------------------------------------------------------------------------
(* Properties *)

\* With force_close_at_close set, a day whose ranking was known at its start, that
\* no breaker halts and on which nothing fails, holds nothing when the market
\* closes, however the scans of the day change or empty the ranking (run.py:944,
\* session.py:203).  With the setting off only end_day sells, after the close.
FlatAtClose ==
  time \in {"closed", "past"} /\ force_close /\ ranked # {} /\ ~halted /\ ~late_close
    /\ ~crashed /\ faults = 0
    => held = {}

\* Once the orders of a cycle are stored without failure, every order of the
\* day is: those of an earlier cycle that raised after selling, and those whose
\* insertion failed before, included (run.py:965-998).
LedgerCatchesUp ==
  [][pc = "persist" /\ pc' = "sleep" /\ faults' = faults /\ ~crashed =>
       1..placed \subseteq ledger']_vars

\* Every position of the session is among the symbols whose bars a cycle gets,
\* so that its exits are looked at (run.py:944-953).
TrackedForExits == pc = "cycle" => positions \subseteq current
=============================================================================
