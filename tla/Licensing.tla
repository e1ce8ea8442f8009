------------------------------ MODULE Licensing ------------------------------
(***************************************************************************)
(* The licence validator (bot/src/bot/license/validator.py) between the    *)
(* licence server and the settings table it caches its verdict in.         *)
(*                                                                         *)
(* A check asks the server, waits for the answer, and commits twice: the   *)
(* time of the last "active" answer first, then the verdict; the verdict   *)
(* in memory is replaced last.  The process may die between any two of     *)
(* these steps, and either write may raise.  A restart loads the rows.     *)
(*                                                                         *)
(* Abstractions.  The clock is coarse: a check takes less than one unit of *)
(* it, and run_periodic wakes up on time.  A write that raises has written *)
(* nothing: the lock of the database is taken by its first statement.  The *)
(* text of the reason is left out; it follows from state and verdict.      *)
(***************************************************************************)
EXTENDS Integers

CONSTANTS Grace,       \* GRACE_PERIOD_SECONDS
          Interval,    \* interval_seconds of run_periodic
          LastEvent,   \* bound: the licence changes no later than this
          LastFault,   \* bound: nothing fails later than this
          MaxTime,     \* bound of the clock
          MaxFaults    \* bound: crashes, failed requests and failed writes

ASSUME LicenceAssumption ==
  /\ Grace \in Nat \ {0} /\ Interval \in Nat \ {0}
  /\ {LastEvent, LastFault, MaxTime, MaxFaults} \subseteq Nat

Never == -1    \* last_valid_ts is None

VARIABLES clock,
          licence,    \* what the server holds: "missing", "active", "expired", "revoked"
          confirmed,  \* the latest check that was answered "active", or Never
          faults,     \* faults so far
          rowTs, rowState, rowAllowed,  \* the cached rows
          up,         \* a validator exists
          pc,         \* where its check is
          asked,      \* check_once: now
          known,      \* check_once: last_valid_ts
          answer,     \* check_once: server_status, "offline" for an exception
          state, allowed,  \* self._state
          fresh,      \* the verdict in memory is the one of its last check
          due         \* when run_periodic wakes up

world == <<clock, licence>>
rows == <<rowTs, rowState, rowAllowed>>
check == <<asked, known, answer>>
memory == <<state, allowed, fresh>>
vars == <<world, confirmed, faults, rows, up, pc, check, memory, due>>

States == {"active", "revoked", "offline", "unknown"}

TypeOK ==
  /\ clock \in Nat /\ faults \in Nat /\ due \in Nat
  /\ licence \in {"missing", "active", "expired", "revoked"}
  /\ confirmed \in Nat \cup {Never} /\ rowTs \in Nat \cup {Never}
  /\ asked \in Nat /\ known \in Nat \cup {Never}
  /\ rowState \in States /\ rowAllowed \in BOOLEAN
  /\ up \in BOOLEAN
  /\ state \in States /\ allowed \in BOOLEAN /\ fresh \in BOOLEAN
  /\ pc \in {"idle", "asked", "saving", "persisting", "persisted"}
  /\ answer \in {"active", "expired", "revoked", "other", "offline"}

\* A new database: _load_cached finds no rows.
Init ==
  /\ clock = 0 /\ licence \in {"missing", "active"}
  /\ confirmed = Never /\ faults = 0
  /\ rowTs = Never /\ rowState = "unknown" /\ rowAllowed = FALSE
  /\ up = FALSE /\ pc = "idle"
  /\ asked = 0 /\ known = Never /\ answer = "offline"
  /\ state = "unknown" /\ allowed = FALSE /\ fresh = FALSE
  /\ due = 0

-----------------------------------------------------------------------------
(* The verdict *)

GraceInclusive(ts, now) == ts # Never /\ now - ts <= Grace
AnyTimeIsGrace(ts, now) == ts # Never
WithinGrace(ts, now) == ts # Never /\ now - ts < Grace

\* _interpret, and _handle_offline for a request that raised.
VerdictState(a) ==
  CASE a = "active" -> "active"
    [] a \in {"revoked", "expired"} -> "revoked"
    [] a = "offline" -> "offline"
    [] OTHER -> "unknown"

VerdictAllowed(a, ts, now) ==
  \/ a = "active"
  \/ a \in {"revoked", "expired", "offline"} /\ WithinGrace(ts, now)

-----------------------------------------------------------------------------
(* The world *)

\* No check that is due is put off, and a check takes no time of this clock.
Tick ==
  /\ clock < MaxTime
  /\ up => pc = "idle" /\ clock < due
  /\ clock' = clock + 1
  /\ UNCHANGED <<licence, confirmed, faults, rows, up, pc, check, memory, due>>

\* The licence is seeded, passes its expiry date, or is revoked for good.
LicenceChanges ==
  /\ clock <= LastEvent
  /\ \/ licence = "missing" /\ licence' = "active"
     \/ licence = "active" /\ licence' = "expired"
     \/ licence \in {"active", "expired"} /\ licence' = "revoked"
  /\ UNCHANGED <<clock, confirmed, faults, rows, up, pc, check, memory, due>>

Fault == clock <= LastFault /\ faults < MaxFaults /\ faults' = faults + 1

Crash ==
  /\ up /\ Fault
  /\ up' = FALSE /\ pc' = "idle"
  /\ UNCHANGED <<world, confirmed, rows, check, memory, due>>

-----------------------------------------------------------------------------
(* The validator *)

\* The constructor, _load_cached, and the start of run_periodic.
Start ==
  /\ ~up
  /\ up' = TRUE
  /\ state' = rowState /\ allowed' = rowAllowed /\ fresh' = FALSE
  /\ due' = clock
  /\ UNCHANGED <<world, confirmed, faults, rows, pc, check>>

\* check_once as far as the request.
Ask ==
  /\ up /\ pc = "idle" /\ clock >= due
  /\ asked' = clock /\ known' = rowTs
  /\ pc' = "asked"
  /\ UNCHANGED <<world, confirmed, faults, rows, up, answer, memory, due>>

\* The answer: a key the server does not know is a 404, which raises, and so
\* does a request that fails; a gateway may answer something else.
ReceiveUnsaved(a) ==
  /\ pc = "asked"
  /\ answer' = a
  /\ confirmed' = IF a = "active" THEN asked ELSE confirmed
  /\ pc' = "persisting"
  /\ UNCHANGED <<world, rows, up, asked, known, memory, due>>
Receive(a) ==
  /\ pc = "asked"
  /\ answer' = a
  /\ confirmed' = IF a = "active" THEN asked ELSE confirmed
  /\ pc' = IF a = "active" THEN "saving" ELSE "persisting"
  /\ UNCHANGED <<world, rows, up, asked, known, memory, due>>

Answered == Receive(IF licence = "missing" THEN "offline" ELSE licence) /\ UNCHANGED faults
Unanswered == Fault /\ \E a \in {"offline", "other"} : Receive(a)

\* _save_last_valid_ts.
Save ==
  /\ pc = "saving"
  /\ rowTs' = asked
  /\ pc' = "persisting"
  /\ UNCHANGED <<world, confirmed, faults, rowState, rowAllowed, up, check, memory, due>>

\* _persist: the three rows of the verdict, in one commit.
Persist ==
  /\ pc = "persisting"
  /\ rowState' = VerdictState(answer)
  /\ rowAllowed' = VerdictAllowed(answer, known, asked)
  /\ pc' = "persisted"
  /\ UNCHANGED <<world, confirmed, faults, rowTs, up, check, memory, due>>

\* The verdict goes to memory, and run_periodic sleeps.
Adopt ==
  /\ pc = "persisted"
  /\ state' = VerdictState(answer)
  /\ allowed' = VerdictAllowed(answer, known, asked)
  /\ fresh' = TRUE
  /\ pc' = "idle" /\ due' = clock + Interval
  /\ UNCHANGED <<world, confirmed, faults, rows, up, check>>

\* The database is locked: run_periodic logs it and sleeps, the old verdict stands.
AdoptAnyway ==
  /\ pc \in {"saving", "persisting"} /\ Fault
  /\ pc' = "idle" /\ due' = clock + Interval
  /\ state' = VerdictState(answer)
  /\ allowed' = VerdictAllowed(answer, known, asked)
  /\ fresh' = FALSE
  /\ UNCHANGED <<world, confirmed, rows, up, check>>
WriteRaises ==
  /\ pc \in {"saving", "persisting"} /\ Fault
  /\ pc' = "idle" /\ due' = clock + Interval
  /\ fresh' = FALSE
  /\ UNCHANGED <<world, confirmed, rows, up, check, state, allowed>>

CheckStep == Answered \/ Save \/ Persist \/ Adopt

Next ==
  \/ Tick \/ LicenceChanges \/ Crash
  \/ Start \/ Ask \/ CheckStep \/ Unanswered \/ WriteRaises

\* Time passes, the process is restarted, and a check under way goes on.
Fairness == WF_vars(Tick) /\ WF_vars(Start) /\ WF_vars(Ask) /\ WF_vars(CheckStep)

Spec == Init /\ [][Next]_vars /\ Fairness

-----------------------------------------------------------------------------
(* Properties *)

\* What trading_allowed() answers.
TradingAllowed == up /\ allowed

\* The licence part of _build_notices, which reads the rows.
Notice == IF rowState = "active" THEN "none"
          ELSE IF rowAllowed THEN "warning" ELSE "error"

\* A validator whose last check went through allows trading for less than the
\* grace period plus one interval after the server last confirmed the licence,
\* whatever crashed, failed or was lost before (validator.py:83-108, 134-190).
StopsInTime ==
  fresh /\ TradingAllowed => /\ confirmed # Never
                             /\ clock - confirmed < Grace + Interval

\* The cached permission is never ahead of the time it rests on: whenever the
\* process dies, the rows say "allowed" only together with a time at which the
\* server did confirm the licence (validator.py:104-106, 205-225).
AllowedIsBacked == rowAllowed => rowTs # Never /\ rowTs <= confirmed

\* Between checks the dashboard's notice and the gate tell the same story, also
\* after failed writes and restarts (handlers.py:251-263).
DashboardAgrees ==
  (up /\ pc = "idle") =>
     /\ (Notice = "error") = (~allowed)
     /\ (Notice = "none") = (state = "active")

\* A licence that has ended stops the trading in the end, and for good
\* (validator.py:119-130, 164-183).
EndedIsBlocked == (licence \in {"expired", "revoked"}) ~> [](~TradingAllowed)

\* validator.py:7: "once the window expires, trading is blocked until a valid
\* response is received".
BlockedPastGrace ==
  TradingAllowed => confirmed # Never /\ clock - confirmed < Grace + Interval
=============================================================================
