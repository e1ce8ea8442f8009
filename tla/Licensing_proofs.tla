--------------------------- MODULE Licensing_proofs ---------------------------
(***************************************************************************)
(* Proofs about the licence validator: the type invariant, that the cached *)
(* permission is backed by a confirmed time, that dashboard and gate       *)
(* agree, and that trading stops in time, for every grace period, every    *)
(* interval and every number of faults.                                    *)
(***************************************************************************)
EXTENDS Licensing, TLAPS

\* Where a check is, and what it has read and committed so far.
CheckInv ==
  /\ pc # "idle" => up = TRUE /\ asked = clock
  /\ pc = "saving" => answer = "active"
  /\ pc = "asked" => known = rowTs
  /\ pc \in {"persisting", "persisted"} /\ answer # "active" => known = rowTs
  /\ pc \in {"saving", "persisting", "persisted"} /\ answer = "active" => confirmed = asked
  /\ pc \in {"persisting", "persisted"} /\ answer = "active" => rowTs = asked

\* The times are in order, and an allowing row has one.
TimeInv ==
  /\ rowTs <= confirmed /\ confirmed <= clock
  /\ rowAllowed = TRUE => rowTs # Never
  /\ rowState = "active" => rowAllowed = TRUE

\* Memory and rows differ only between the last commit and its adoption.
MemoryInv ==
  /\ pc = "persisted" => /\ rowState = VerdictState(answer)
                         /\ rowAllowed = VerdictAllowed(answer, known, asked)
  /\ up = TRUE /\ pc # "persisted" => state = rowState /\ allowed = rowAllowed

\* What the last check granted ends with the next one.
DueInv ==
  /\ up = TRUE => clock <= due
  /\ fresh = TRUE /\ up = TRUE /\ allowed = TRUE =>
        confirmed # Never /\ due - Interval - confirmed < Grace

IInv == TypeOK /\ CheckInv /\ TimeInv /\ MemoryInv /\ DueInv

USE DEF Never

\* The rows, memory and times of the first start are in order.
LEMMA InitInv == Init => IInv
<1> SUFFICES ASSUME Init PROVE IInv
  OBVIOUS
<1>1. TypeOK
  <2>1. clock \in Nat /\ faults \in Nat /\ due \in Nat /\ asked \in Nat
    BY DEF Init
  <2>2. confirmed \in Nat \cup {Never} /\ rowTs \in Nat \cup {Never} /\ known \in Nat \cup {Never}
    BY DEF Init
  <2>3. licence \in {"missing", "active", "expired", "revoked"}
    BY DEF Init
  <2>4. rowState \in States /\ state \in States
    BY DEF Init, States
  <2>5. /\ up \in BOOLEAN /\ rowAllowed \in BOOLEAN
        /\ allowed \in BOOLEAN /\ fresh \in BOOLEAN
    BY DEF Init
  <2>6. /\ pc \in {"idle", "asked", "saving", "persisting", "persisted"}
        /\ answer \in {"active", "expired", "revoked", "other", "offline"}
    BY DEF Init
  <2> QED
    BY <2>1, <2>2, <2>3, <2>4, <2>5, <2>6 DEF TypeOK
<1>2. CheckInv /\ MemoryInv
  BY DEF Init, CheckInv, MemoryInv
<1>3. TimeInv /\ DueInv
  BY DEF Init, TimeInv, DueInv
<1> QED
  BY <1>1, <1>2, <1>3 DEF IInv

\* A verdict is one of the states a row may hold.
LEMMA VerdictType ==
  ASSUME NEW a \in {"active", "expired", "revoked", "other", "offline"},
         NEW ts, NEW t
  PROVE  /\ VerdictState(a) \in States
         /\ VerdictAllowed(a, ts, t) \in BOOLEAN
         /\ VerdictState(a) = "active" => a = "active"
         /\ a = "active" => VerdictAllowed(a, ts, t)
  BY DEF VerdictState, VerdictAllowed, States, WithinGrace

\* A fault leaves every variable in its type.
LEMMA FaultsType == TypeOK /\ (Crash \/ WriteRaises) => TypeOK'
<1> SUFFICES ASSUME TypeOK, Crash \/ WriteRaises PROVE TypeOK'
  OBVIOUS
<1>1. faults' \in Nat
  BY DEF TypeOK, Fault, Crash, WriteRaises
<1>2. CASE Crash
  BY <1>1, <1>2, Zenon DEF TypeOK, Crash, world, rows, check, memory
<1>3. CASE WriteRaises
  <2>1. due' \in Nat
    BY <1>3, LicenceAssumption DEF TypeOK, WriteRaises
  <2> QED
    BY <1>1, <1>3, <2>1, Zenon DEF TypeOK, WriteRaises, world, rows, check
<1> QED
  BY <1>2, <1>3

\* Every step keeps the invariant: one case for each action.
LEMMA NextInv == IInv /\ [Next]_vars => IInv'
<1> SUFFICES ASSUME IInv, [Next]_vars PROVE IInv'
  OBVIOUS
<1> USE LicenceAssumption DEF IInv, TypeOK, CheckInv, TimeInv, MemoryInv, DueInv, world, rows,
                                check, memory, States
<1>1. CASE Tick
  BY <1>1 DEF Tick
<1>2. CASE LicenceChanges
  BY <1>2 DEF LicenceChanges
<1>3. CASE Crash
  <2>1. TypeOK'
    BY <1>3, FaultsType
  <2>2. CheckInv' /\ TimeInv'
    BY <1>3 DEF Crash, Fault
  <2>3. MemoryInv' /\ DueInv'
    BY <1>3 DEF Crash, Fault
  <2> QED
    BY <2>1, <2>2, <2>3
<1>4. CASE Start
  <2>1. TypeOK'
    BY <1>4 DEF Start
  <2>2. CheckInv' /\ TimeInv'
    BY <1>4 DEF Start
  <2>3. MemoryInv' /\ DueInv'
    BY <1>4 DEF Start
  <2> QED
    BY <2>1, <2>2, <2>3
<1>5. CASE Ask
  BY <1>5 DEF Ask
<1>6. CASE Answered
  BY <1>6 DEF Answered, Receive
<1>7. CASE Save
  BY <1>7 DEF Save
<1>8. CASE Persist
  <2>1. TypeOK'
    BY <1>8, VerdictType DEF Persist
  <2>2. CheckInv'
    BY <1>8 DEF Persist
  <2>3. (rowState' = "active" => rowAllowed' = TRUE) /\ (rowAllowed' = TRUE => rowTs' # Never)
    <3>1. CASE answer = "active"
      BY <1>8, <3>1 DEF Persist, VerdictAllowed
    <3>2. CASE answer # "active"
      BY <1>8, <3>2 DEF Persist, VerdictAllowed, VerdictState, WithinGrace
    <3> QED
      BY <3>1, <3>2
  <2>4. TimeInv'
    BY <1>8, <2>3 DEF Persist
  <2>5. MemoryInv' /\ DueInv'
    BY <1>8 DEF Persist
  <2> QED
    BY <2>1, <2>2, <2>4, <2>5
<1>9. CASE Adopt
  BY <1>9, VerdictType DEF Adopt, VerdictAllowed, WithinGrace
<1>10. CASE Unanswered
  BY <1>10 DEF Unanswered, Receive, Fault
<1>11. CASE WriteRaises
  <2>1. TypeOK'
    BY <1>11, FaultsType
  <2>2. CheckInv' /\ TimeInv'
    BY <1>11 DEF WriteRaises, Fault
  <2>3. MemoryInv' /\ DueInv'
    BY <1>11 DEF WriteRaises, Fault
  <2> QED
    BY <2>1, <2>2, <2>3
<1>12. CASE UNCHANGED vars
  BY <1>12 DEF vars
<1> QED
  BY <1>1, <1>2, <1>3, <1>4, <1>5, <1>6, <1>7, <1>8, <1>9, <1>10, <1>11, <1>12
  DEF Next, CheckStep

\* The invariant holds throughout every behaviour.
LEMMA Invariance == Spec => []IInv
  BY InitInv, NextInv, PTL DEF Spec

\* Every variable keeps its type (validator.py:40-52, 192-225).
THEOREM TypeCorrect == Spec => []TypeOK
<1>1. IInv => TypeOK
  BY DEF IInv
<1> QED
  BY <1>1, Invariance, PTL

\* Whatever crashes, is lost or fails to commit, a row that says "allowed" is
\* backed by a row with a time the server confirmed (validator.py:104-106).
THEOREM PermissionIsBacked == Spec => []AllowedIsBacked
<1>1. IInv => AllowedIsBacked
  BY DEF IInv, TimeInv, AllowedIsBacked, TypeOK
<1> QED
  BY <1>1, Invariance, PTL

\* Between checks the dashboard's notice and the gate agree, restarts and
\* failed writes included (handlers.py:251-263).
THEOREM NoticeAgrees == Spec => []DashboardAgrees
<1>1. IInv => DashboardAgrees
  BY DEF IInv, TypeOK, TimeInv, MemoryInv, DashboardAgrees, Notice
<1> QED
  BY <1>1, Invariance, PTL

\* A validator whose last check went through stops trading less than the grace
\* period and one interval after the last confirmation (validator.py:134-190).
THEOREM GraceIsBounded == Spec => []StopsInTime
<1>1. IInv => StopsInTime
  BY LicenceAssumption DEF IInv, TypeOK, TimeInv, DueInv, StopsInTime, TradingAllowed
<1> QED
  BY <1>1, Invariance, PTL

\* The licence has ended, the grace of the last confirmation is over, and
\* neither memory nor rows allow trading.
Blocked ==
  /\ licence \in {"expired", "revoked"}
  /\ confirmed # Never => clock - confirmed >= Grace
  /\ rowAllowed = FALSE
  /\ up = TRUE => allowed = FALSE

\* No answer, no fault and no restart leads out of it.
LEMMA StaysBlocked == IInv /\ Blocked /\ [Next]_vars => Blocked'
<1> SUFFICES ASSUME IInv, Blocked, [Next]_vars PROVE Blocked'
  OBVIOUS
<1> USE LicenceAssumption DEF IInv, TypeOK, CheckInv, TimeInv, MemoryInv, Blocked, world, rows,
                                check, memory
<1>1. ~VerdictAllowed(answer, known, asked) \/ pc \notin {"persisting", "persisted"}
  BY DEF VerdictAllowed, WithinGrace
<1>2. CASE Tick \/ LicenceChanges
  BY <1>2 DEF Tick, LicenceChanges
<1>3. CASE Crash \/ Start \/ Ask
  BY <1>3 DEF Crash, Start, Ask
<1>4. CASE Answered \/ Unanswered
  BY <1>4 DEF Answered, Unanswered, Receive
<1>5. CASE Save \/ WriteRaises
  BY <1>5 DEF Save, WriteRaises
<1>6. CASE Persist \/ Adopt
  BY <1>1, <1>6, VerdictType DEF Persist, Adopt
<1>7. CASE UNCHANGED vars
  BY <1>7 DEF vars
<1> QED
  BY <1>2, <1>3, <1>4, <1>5, <1>6, <1>7 DEF Next, CheckStep

\* After the grace period of a licence that has ended, a running validator that
\* blocks trading blocks it for good: no cached row, no lost answer, no odd
\* answer and no restart brings it back (validator.py:119-130, 164-183).
THEOREM BlockedForGood ==
  Spec => []( /\ licence \in {"expired", "revoked"}
              /\ confirmed # Never => clock - confirmed >= Grace
              /\ up /\ pc = "idle" /\ ~TradingAllowed
              => []~TradingAllowed)
<1> DEFINE Stopped == /\ licence \in {"expired", "revoked"}
                      /\ confirmed # Never => clock - confirmed >= Grace
                      /\ up /\ pc = "idle" /\ ~TradingAllowed
<1>1. IInv /\ Stopped => Blocked
  BY DEF IInv, TypeOK, MemoryInv, Blocked, TradingAllowed
<1>2. IInv /\ Blocked => ~TradingAllowed
  BY DEF IInv, TypeOK, Blocked, TradingAllowed
<1>3. Spec => [](Stopped => []~TradingAllowed)
  <2> HIDE DEF Stopped
  <2> QED
    BY <1>1, <1>2, StaysBlocked, Invariance, PTL DEF Spec
<1> QED
  BY <1>3

\* Without a fault nothing is allowed but by the verdict of the last check.
CheckedOnly ==
  /\ faults = 0
  /\ up = FALSE => rowAllowed = FALSE
  /\ up = TRUE /\ allowed = TRUE => fresh = TRUE

LEMMA NextChecked ==
  ASSUME MaxFaults = 0 PROVE IInv /\ CheckedOnly /\ [Next]_vars => CheckedOnly'
<1> SUFFICES ASSUME IInv, CheckedOnly, [Next]_vars PROVE CheckedOnly'
  OBVIOUS
<1> USE DEF CheckedOnly, world, rows, check, memory
<1>1. ~Fault
  BY DEF Fault
<1>2. CASE Tick \/ LicenceChanges \/ Start \/ Ask
  BY <1>2 DEF Tick, LicenceChanges, Start, Ask
<1>3. CASE Crash \/ Unanswered \/ WriteRaises
  BY <1>1, <1>3 DEF Crash, Unanswered, WriteRaises
<1>4. CASE Answered \/ Save \/ Persist \/ Adopt
  BY <1>4 DEF Answered, Receive, Save, Persist, Adopt, IInv, CheckInv
<1>5. CASE UNCHANGED vars
  BY <1>5 DEF vars
<1> QED
  BY <1>2, <1>3, <1>4, <1>5 DEF Next, CheckStep

\* What the module's comment promises (validator.py:7) is true of a validator
\* that is never restarted and whose writes and requests never fail: for any
\* grace period and any interval it allows trading for less than their sum after
\* the last confirmation.
THEOREM BlockedWithoutFaults ==
  ASSUME MaxFaults = 0 PROVE Spec => []BlockedPastGrace
<1>1. Init => CheckedOnly
  BY DEF Init, CheckedOnly
<1>2. Spec => []CheckedOnly
  BY <1>1, NextChecked, Invariance, PTL DEF Spec
<1>3. IInv /\ CheckedOnly => BlockedPastGrace
  BY LicenceAssumption DEF IInv, TypeOK, TimeInv, DueInv, CheckedOnly, BlockedPastGrace,
                          TradingAllowed
<1> QED
  BY <1>2, <1>3, Invariance, PTL
=============================================================================
