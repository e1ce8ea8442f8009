------------------------- MODULE TradingLoop_proofs -------------------------
(***************************************************************************)
(* Proofs about the market day of the trading loop, for any symbols and    *)
(* any bounds: an undisturbed day holds nothing at the close, and the      *)
(* order table catches up with everything that was placed.                 *)
(***************************************************************************)
EXTENDS TradingLoop, FiniteSetTheorems, TLAPS

\* The orders placed so far leave room to sell what is tracked.
Bounded == placed + Cardinality(positions) <= MaxOrders

\* Until the process dies, its result has every order of the day.
Recorded ==
  ~crashed => /\ up
              /\ pc \in {"scan", "start"} => placed = 0 /\ positions = {}
              /\ pc \in {"scan", "start", "sleep", "cycle", "persist"} => orders = 1..placed

\* A day on which nothing has failed.
Undisturbed == ~crashed /\ faults = 0

\* On such a day the session tracks what the account holds, and with the forced
\* close set, once a cycle has begun in the last minutes there is nothing left to
\* track, unless nothing was ranked or the breakers halted it.
Tracking ==
  Undisturbed =>
    /\ ~late_close /\ held = positions
    /\ pc \in {"scan", "start"} => ~last_call
    /\ pc = "over" => positions = {}
    /\ last_call => time # "open"
    /\ force_close /\ ranked # {} /\ ~halted /\ (last_call \/ time \in {"closed", "past"})
         => positions = {}

IInv == TypeOK /\ Bounded /\ Recorded /\ Tracking

-----------------------------------------------------------------------------
(* Counting *)

LEMMA FiniteSubset ==
  ASSUME NEW S \in SUBSET Symbols
  PROVE  IsFiniteSet(S) /\ Cardinality(S) \in Nat
BY SymbolsAssumption, FS_Subset, FS_CardinalityType

\* What is sold and what is left add up.
LEMMA SoldAndLeft ==
  ASSUME NEW P \in SUBSET Symbols, NEW S \in SUBSET P
  PROVE  Cardinality(P) = Cardinality(S) + Cardinality(P \ S)
<1>1. /\ IsFiniteSet(S) /\ IsFiniteSet(P \ S)
      /\ Cardinality(S) \in Nat /\ Cardinality(P \ S) \in Nat
  BY FiniteSubset
<1>2. S \cup (P \ S) = P /\ S \cap (P \ S) = {}
  OBVIOUS
<1> QED
  BY <1>1, <1>2, FS_Union, FS_EmptySet

\* The numbers of the orders of a cycle follow those of the day.
LEMMA NextNumbers ==
  ASSUME NEW p \in Nat, NEW n \in Nat
  PROVE  /\ (1..p) \cup ((p + 1)..(p + n)) = 1..(p + n)
         /\ p + n <= MaxOrders => (p + 1)..(p + n) \subseteq 1..MaxOrders
  BY BoundsAssumption

-----------------------------------------------------------------------------
(* The invariant *)

LEMMA InitInv == Init => IInv
<1> SUFFICES ASSUME Init PROVE IInv
  OBVIOUS
<1>1. TypeOK
  <2>1. /\ up \in BOOLEAN /\ late_close \in BOOLEAN /\ force_close \in BOOLEAN
        /\ last_call \in BOOLEAN /\ halted \in BOOLEAN /\ crashed \in BOOLEAN
    BY DEF Init
  <2>2. placed \in 0..MaxOrders /\ faults \in 0..MaxFaults
    BY BoundsAssumption DEF Init
  <2>3. time \in Times /\ pc \in {"scan", "start", "sleep", "cycle", "persist", "over"}
    BY DEF Init, Times
  <2> QED
    BY <2>1, <2>2, <2>3, Zenon DEF Init, TypeOK
<1>2. Bounded
  BY BoundsAssumption, FS_EmptySet DEF Init, Bounded
<1>3. Recorded /\ Tracking
  BY DEF Init, Recorded, Tracking, Undisturbed
<1> QED
  BY <1>1, <1>2, <1>3 DEF IInv

\* Steps of the world, and those of the loop that place no order.
LEMMA QuietInv ==
  ASSUME IInv,
         \/ Tick \/ Crash \/ Restart \/ Done \/ UNCHANGED vars
         \/ \E r \in SUBSET Symbols : TriggeredScan(r) \/ PreSessionScan(r) \/ FetchBars(r)
         \/ StartSession \/ StartFails \/ SkipCycle \/ Persist
  PROVE  IInv'
<1> USE BoundsAssumption
        DEF IInv, TypeOK, Times, Bounded, Recorded, Tracking, Undisturbed, session, account
<1>1. CASE Tick
  BY <1>1 DEF Tick
<1>2. CASE Crash
  <2>1. TypeOK'
    BY <1>2 DEF Crash
  <2>2. Bounded'
    <3>1. positions' = {} /\ placed' = placed /\ Cardinality(positions) \in Nat
      BY <1>2, FiniteSubset DEF Crash
    <3> QED
      BY <3>1, FS_EmptySet
  <2>3. crashed' = TRUE
    BY <1>2 DEF Crash
  <2> QED
    BY <2>1, <2>2, <2>3
<1>3. CASE Restart
  <2>1. TypeOK'
    BY <1>3 DEF Restart
  <2>2. crashed = TRUE /\ UNCHANGED <<positions, placed, crashed>>
    BY <1>3 DEF Restart
  <2> QED
    BY <2>1, <2>2
<1>4. CASE Done \/ UNCHANGED vars
  <2>1. UNCHANGED vars
    BY <1>4 DEF Done
  <2> QED
    BY <2>1 DEF vars
<1>5. ASSUME NEW r \in SUBSET Symbols, TriggeredScan(r) PROVE IInv'
  <2>1. UNCHANGED <<Bounded, Recorded, Tracking>>
    BY <1>5 DEF TriggeredScan
  <2>2. TypeOK'
    BY <1>5 DEF TriggeredScan
  <2> QED
    BY <2>1, <2>2
<1>6. ASSUME NEW r \in SUBSET Symbols, PreSessionScan(r) PROVE IInv'
  BY <1>6 DEF PreSessionScan
<1>7. ASSUME NEW r \in SUBSET Symbols, FetchBars(r) PROVE IInv'
  BY <1>7 DEF FetchBars, CurrentRanked
<1>8. CASE StartSession
  <2>1. /\ pc = "start" /\ pc' = "sleep" /\ up = TRUE
        /\ positions' = {} /\ halted' = FALSE /\ orders' = {}
        /\ late_close' \in BOOLEAN /\ force_close' \in BOOLEAN
        /\ UNCHANGED <<time, up, ranking, ranked, current, bars, last_call,
                       ledger, held, placed, crashed>>
    BY <1>8 DEF StartSession
  <2>2. faults' \in 0..MaxFaults /\ (faults' = 0 => faults = 0 /\ ~late_close')
    BY <1>8 DEF StartSession, Fault
  <2>3. placed + Cardinality(positions') <= MaxOrders
    BY <2>1, FS_EmptySet
  <2>4. ~crashed => placed = 0 /\ positions = {} /\ orders' = 1..placed
    BY <2>1
  <2> QED
    BY <2>1, <2>2, <2>3, <2>4
<1>9. CASE StartFails
  BY <1>9 DEF StartFails, Fault
<1>10. CASE SkipCycle
  BY <1>10 DEF SkipCycle, CurrentRanked
<1>11. CASE Persist
  <2>1. ledger' \subseteq 1..MaxOrders
    BY <1>11 DEF Persist
  <2>2. faults' \in 0..MaxFaults /\ (faults' = 0 => faults = 0)
    BY <1>11 DEF Persist, Fault
  <2>3. /\ pc = "persist" /\ pc' = "sleep"
        /\ UNCHANGED <<time, up, ranking, ranked, current, bars, late_close,
                       force_close, last_call, positions, halted, orders, held,
                       placed, crashed>>
    BY <1>11 DEF Persist
  <2> QED
    BY <2>1, <2>2, <2>3
<1> QED
  BY <1>1, <1>2, <1>3, <1>4, <1>5, <1>6, <1>7, <1>8, <1>9, <1>10, <1>11

\* What the orders of a cycle do to the counters, when there is room for them.
LEMMA TradeEffect ==
  ASSUME IInv, NEW S \in SUBSET positions, NEW B \in SUBSET Symbols, Trade(S, B), Room
  PROVE  /\ positions' \subseteq Symbols /\ held' \subseteq Symbols
         /\ placed' \in 0..MaxOrders /\ orders' \subseteq 1..MaxOrders
         /\ orders = 1..placed => orders' = 1..placed'
         /\ held = positions => held' = positions'
         /\ Bounded'
<1> DEFINE n == Cardinality(S) + Cardinality(B)
<1>1. /\ positions \subseteq Symbols /\ held \subseteq Symbols
      /\ placed \in 0..MaxOrders /\ orders \subseteq 1..MaxOrders
  BY DEF IInv, TypeOK
<1>2. n \in Nat
  BY <1>1, FiniteSubset
<1>3. /\ placed' = placed + n /\ orders' = orders \cup ((placed + 1)..(placed + n))
      /\ held' = (held \ S) \cup B /\ positions' = (positions \ S) \cup B
  BY DEF Trade
<1> HIDE DEF n
<1>4. positions' \subseteq Symbols
  BY <1>1, <1>3
<1>5. placed' + Cardinality(positions') <= MaxOrders /\ Cardinality(positions') \in Nat
  BY <1>4, FiniteSubset DEF Room
<1>6. placed \in Nat /\ placed + n <= MaxOrders
  BY <1>1, <1>2, <1>3, <1>5, BoundsAssumption
<1>7. /\ (1..placed) \cup ((placed + 1)..(placed + n)) = 1..(placed + n)
      /\ (placed + 1)..(placed + n) \subseteq 1..MaxOrders
  BY <1>2, <1>6, NextNumbers
<1> QED
  BY <1>1, <1>2, <1>3, <1>4, <1>5, <1>6, <1>7, BoundsAssumption DEF Bounded

\* There is always room for a sale.
LEMMA SaleHasRoom ==
  ASSUME IInv, NEW S \in SUBSET positions, Trade(S, {}) PROVE Room
<1>1. /\ positions \subseteq Symbols /\ placed \in 0..MaxOrders
      /\ placed + Cardinality(positions) <= MaxOrders
  BY DEF IInv, TypeOK, Bounded
<1>2. /\ Cardinality(positions) = Cardinality(S) + Cardinality(positions \ S)
      /\ Cardinality(S) \in Nat /\ Cardinality(positions \ S) \in Nat
  BY <1>1, SoldAndLeft, FiniteSubset
<1>3. placed' = placed + Cardinality(S) /\ positions' = positions \ S
  BY <1>2, FS_EmptySet DEF Trade
<1> QED
  BY <1>1, <1>2, <1>3 DEF Room

LEMMA CycleInv == ASSUME IInv, RunCycle PROVE IInv'
<1> USE DEF IInv
<1>1. /\ up /\ pc = "cycle" /\ pc' = "persist"
      /\ last_call' = (last_call \/ time = "near_close")
      /\ UNCHANGED <<time, up, ranking, ranked, current, bars, late_close,
                     force_close, ledger, faults, crashed>>
  BY DEF RunCycle
<1>2. PICK S \in SUBSET positions, B \in SUBSET Symbols :
        /\ Trade(S, B) /\ Room /\ halted' \in BOOLEAN
        /\ SessionClosed => S = {} /\ B = {} /\ halted' = halted
        /\ halted => halted'
        /\ ~SessionClosed /\ ~halted' /\ ForcesClose => S = positions /\ B = {}
  <2>1. CASE ClosedCycle
    BY <2>1, SaleHasRoom DEF ClosedCycle, TypeOK
  <2>2. CASE HaltedCycle
    BY <2>2, SaleHasRoom DEF HaltedCycle, TypeOK
  <2>3. CASE ForcedClose
    BY <2>3, SaleHasRoom DEF ForcedClose, TypeOK
  <2>4. CASE TradingCycle
    BY <2>4 DEF TradingCycle, TypeOK
  <2> QED
    BY <2>1, <2>2, <2>3, <2>4 DEF RunCycle
<1>3. /\ positions' \subseteq Symbols /\ held' \subseteq Symbols
      /\ placed' \in 0..MaxOrders /\ orders' \subseteq 1..MaxOrders
      /\ orders = 1..placed => orders' = 1..placed'
      /\ held = positions => held' = positions'
      /\ Bounded'
  BY <1>2, TradeEffect
<1>4. positions' = (positions \ S) \cup B
  BY <1>2 DEF Trade
<1>5. TypeOK'
  BY <1>1, <1>2, <1>3 DEF TypeOK
<1>6. Recorded'
  BY <1>1, <1>3 DEF Recorded
<1>7. Tracking'
  BY <1>1, <1>2, <1>3, <1>4 DEF Tracking, Undisturbed, SessionClosed, ForcesClose, TypeOK, Times
<1> QED
  BY <1>3, <1>5, <1>6, <1>7

LEMMA RaiseInv ==
  ASSUME IInv, NEW S \in SUBSET Symbols, NEW K \in SUBSET Symbols, NEW B \in SUBSET Symbols,
         CycleRaises(S, K, B)
  PROVE  IInv'
<1> USE DEF IInv
<1>1. /\ pc = "cycle" /\ pc' = "sleep"
      /\ last_call' = (last_call \/ time = "near_close") /\ halted' \in BOOLEAN
      /\ S \subseteq positions /\ K \subseteq S
      /\ placed' = placed + Cardinality(S) + Cardinality(B)
      /\ orders' = orders \cup ((placed + 1)..placed')
      /\ held' = (held \ S) \cup B
      /\ positions' = (positions \ (S \ K)) \cup B
      /\ UNCHANGED <<time, up, ranking, ranked, current, bars, late_close,
                     force_close, ledger, crashed>>
  BY DEF CycleRaises, TypeOK
<1>2. Room /\ faults' \in 0..MaxFaults /\ faults' # 0
  BY BoundsAssumption DEF CycleRaises, Fault, TypeOK
<1>3. positions' \subseteq Symbols /\ held' \subseteq Symbols
  BY <1>1 DEF TypeOK
<1>4. /\ Cardinality(S) + Cardinality(B) \in Nat /\ Cardinality(positions') \in Nat
      /\ placed \in Nat
  BY <1>3, FiniteSubset, BoundsAssumption DEF TypeOK
<1> DEFINE n == Cardinality(S) + Cardinality(B)
<1>5. /\ placed' = placed + n /\ placed' + Cardinality(positions') <= MaxOrders
      /\ Cardinality(S) \in Nat /\ Cardinality(B) \in Nat
  BY <1>1, <1>2, <1>4, FiniteSubset DEF Room
<1>6. placed' \in 0..MaxOrders /\ placed + n <= MaxOrders
  BY <1>4, <1>5, BoundsAssumption
<1>7. /\ (1..placed) \cup ((placed + 1)..placed') = 1..placed'
      /\ (placed + 1)..placed' \subseteq 1..MaxOrders
  BY <1>4, <1>5, <1>6, NextNumbers
<1>8. TypeOK'
  BY <1>1, <1>2, <1>3, <1>6, <1>7 DEF TypeOK
<1>9. Bounded'
  BY <1>5 DEF Bounded
<1>10. Recorded' /\ Tracking'
  BY <1>1, <1>2, <1>7 DEF Recorded, Tracking, Undisturbed
<1> QED
  BY <1>8, <1>9, <1>10

LEMMA EndInv == ASSUME IInv, EndDay PROVE IInv'
<1> USE DEF IInv
<1>1. /\ pc' = "over" /\ positions' = {} /\ halted' = FALSE /\ orders' = {}
      /\ UNCHANGED <<time, up, ranking, ranked, current, bars, late_close,
                     force_close, last_call, ledger, crashed>>
  BY DEF EndDay
<1>2. PICK S \in SUBSET positions :
        /\ held' = held \ S /\ placed' = placed + Cardinality(S)
        /\ (S = positions /\ faults' = faults) \/ Fault
  BY DEF EndDay
<1>3. faults' \in 0..MaxFaults /\ (faults' = 0 => faults = 0 /\ S = positions)
  BY <1>2, BoundsAssumption DEF Fault, TypeOK
<1>4. placed' \in 0..MaxOrders
  <2>1. /\ Cardinality(positions) = Cardinality(S) + Cardinality(positions \ S)
        /\ Cardinality(S) \in Nat /\ Cardinality(positions \ S) \in Nat
    BY SoldAndLeft, FiniteSubset DEF TypeOK
  <2> QED
    BY <1>2, <2>1, BoundsAssumption DEF Bounded, TypeOK
<1>5. TypeOK'
  BY <1>1, <1>2, <1>3, <1>4 DEF TypeOK
<1>6. Bounded'
  BY <1>1, <1>4, FS_EmptySet, BoundsAssumption DEF Bounded
<1>7. Recorded'
  BY <1>1 DEF Recorded
<1>8. Tracking'
  BY <1>1, <1>2, <1>3 DEF Tracking, Undisturbed
<1> QED
  BY <1>5, <1>6, <1>7, <1>8

LEMMA NextInv == IInv /\ [Next]_vars => IInv'
<1> SUFFICES ASSUME IInv, [Next]_vars PROVE IInv'
  OBVIOUS
<1> QED
  BY QuietInv, CycleInv, RaiseInv, EndInv DEF Next

LEMMA Invariance == Spec => []IInv
  BY InitInv, NextInv, PTL DEF Spec

-----------------------------------------------------------------------------
(* The theorems *)

\* Every variable keeps its type; with it, there is always an order left to
\* sell what is tracked.
THEOREM TypeCorrect == Spec => []TypeOK
<1>1. IInv => TypeOK
  BY DEF IInv
<1> QED
  BY <1>1, Invariance, PTL

\* A day on which nothing fails, with force_close_at_close set, a ranking from its
\* start and no halt, is flat when the market closes, however the scans of the day
\* change or empty the ranking (run.py:944, session.py:203).
THEOREM FlatAtTheClose == Spec => []FlatAtClose
<1>1. IInv => FlatAtClose
  BY DEF IInv, Tracking, Undisturbed, FlatAtClose
<1> QED
  BY <1>1, Invariance, PTL

\* One cycle whose orders are stored without failure stores every order of the
\* day so far, whatever raised or failed to be inserted before (run.py:965-998).
THEOREM LedgerIsComplete == Spec => LedgerCatchesUp
<1> DEFINE Caught == pc = "persist" /\ pc' = "sleep" /\ faults' = faults /\ ~crashed
                       => 1..placed \subseteq ledger'
<1>1. IInv /\ [Next]_vars => [Caught]_vars
  <2> SUFFICES ASSUME IInv, Next, pc = "persist", pc' = "sleep", faults' = faults, ~crashed
               PROVE  1..placed \subseteq ledger'
    OBVIOUS
  <2>1. orders = 1..placed /\ up
    BY DEF IInv, Recorded
  <2>2. Persist
    BY <2>1 DEF Next, Tick, Crash, Restart, TriggeredScan, PreSessionScan, FetchBars,
                StartSession, StartFails, SkipCycle, RunCycle, EndDay, CycleRaises,
                Done, vars
  <2>3. faults \in Int
    BY BoundsAssumption DEF IInv, TypeOK
  <2> QED
    BY <2>1, <2>2, <2>3 DEF Persist, Fault
<1> QED
  BY <1>1, Invariance, PTL DEF Spec, LedgerCatchesUp
=============================================================================
