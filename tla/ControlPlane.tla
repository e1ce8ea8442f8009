---------------------------- MODULE ControlPlane ----------------------------
(***************************************************************************)
(* The settings of the bot and everything that writes them: the handlers   *)
(* of control/handlers.py behind the relay and behind the local API, the   *)
(* scan request of run.py's _scan_loop, and the ExecutionConfig a trading  *)
(* day is started with.                                                    *)
(*                                                                         *)
(* Two SQLite connections reach one database.  The event loop owns `main`: *)
(* remote calls, the scan loop and the trading loop take turns on it and   *)
(* run each handler to its end.  The local API serves its requests in      *)
(* worker threads that share `local`.  Python opens a transaction at the   *)
(* first write and nothing here ever rolls one back, so what a failed      *)
(* handler wrote stays open, with the write lock of the database, until    *)
(* the next commit on that connection.                                     *)
(*                                                                         *)
(* Abstractions.  The rows are those the risk rules, the live-mode gate    *)
(* and the scan request read; `target` stands for every other number.  A   *)
(* row that is absent from the table and has no default is NoRow; a value  *)
(* that int() or float() refuses is Bad.  SQLite is external: one          *)
(* connection at a time may hold uncommitted writes, and a write that      *)
(* waits for it may give up (the five seconds of sqlite3.connect).         *)
(***************************************************************************)
EXTENDS DailyLimits, Sizing, Functions

CONSTANTS Workers,      \* threads of the local API
          Loop,         \* the event loop
          InitialRows,  \* the table after the installer and the migration
          Patches,      \* the patches that clients send
          BaseCfg,      \* the parts of ExecutionConfig not read from these rows
          MaxFaults,    \* bound of the model: crashes and patches with a bad value
          NoRow, Bad, Idle, NoConn, NoCfg

Threads == Workers \cup {Loop}

Conn(t) == IF t = Loop THEN "main" ELSE "local"

Optional(S) == S \cup {NoRow}

Rows == [max_loss : Optional(Int), daily_risk : Int, override : Optional(BOOLEAN),
         legacy_override : BOOLEAN, risk : Int, target : Int, paper : BOOLEAN,
         scan : BOOLEAN]

\* What the write loop makes of a value, by key.  No client patches the row of
\* the scan request.
Columns == [max_loss |-> Int, daily_risk |-> Int, override |-> BOOLEAN,
            legacy_override |-> BOOLEAN, risk |-> Int, target |-> Int, paper |-> BOOLEAN]

\* The keys of a patch that are not written.
Unwritten == {"live_mode_confirmed", "goal_post_trade_count"}

ASSUME LoopAssumption == Loop \notin Workers
ASSUME RowsAssumption == InitialRows \subseteq Rows
ASSUME PatchesAssumption ==
  \A p \in Patches : \A k \in DOMAIN p \ Unwritten :
    k \in DOMAIN Columns /\ (p[k] = Bad \/ p[k] \in Columns[k])
ASSUME BaseCfgAssumption ==
  {"max_loss_pct", "override_risk", "risk_per_trade_pct", "target_pct"} \subseteq DOMAIN BaseCfg
ASSUME NoConnAssumption == NoConn \notin {"main", "local"}
ASSUME FaultsAssumption == MaxFaults \in Nat

VARIABLES rows,      \* the committed settings
          image,     \* what the connection that holds the write lock sees
          writer,    \* that connection
          req,       \* what the request of each thread has still to write
          up,        \* whether the process runs
          scanning,  \* whether a triggered scan runs
          unserved,  \* whether a scan was requested since one last began
          cfg,       \* the configuration of the trading day
          wrote,     \* what each running request has written and no other write
                     \* has replaced since (history)
          promised,  \* the same of the requests that were accepted (history)
          faults     \* crashes and patches with a bad value so far (bound)

store == <<rows, image, writer>>
history == <<wrote, promised>>
vars == <<store, req, up, scanning, unserved, cfg, history, faults>>

TypeOK ==
  /\ rows \in Rows /\ image \in Rows /\ writer \in {"main", "local", NoConn}
  /\ \A t \in Threads : req[t] # Idle =>
       \A k \in DOMAIN req[t] :
         k \in DOMAIN Columns /\ (req[t][k] = Bad \/ req[t][k] \in Columns[k])
  /\ up \in BOOLEAN /\ scanning \in BOOLEAN /\ unserved \in BOOLEAN
  /\ cfg # NoCfg => /\ cfg.max_loss_pct \in Int /\ cfg.risk_per_trade_pct \in Int
                     /\ cfg.override_risk \in BOOLEAN
  /\ DOMAIN wrote = Threads /\ DOMAIN promised \subseteq DOMAIN Columns
  /\ \A t \in Threads : DOMAIN wrote[t] \subseteq DOMAIN Columns
  /\ faults \in 0..MaxFaults

Init ==
  /\ rows \in InitialRows /\ image = rows /\ writer = NoConn
  /\ req = [t \in Threads |-> Idle]
  /\ up = TRUE /\ scanning = FALSE /\ unserved = FALSE /\ cfg = NoCfg /\ faults = 0
  /\ wrote = [t \in Threads |-> << >>] /\ promised = << >>

-----------------------------------------------------------------------------
(* The store *)

View(c) == IF writer = c THEN image ELSE rows

CanWrite(c) == writer \in {c, NoConn}

\* A write on c waits until a handler at work on the other connection is done,
\* and gives up when the lock was left behind by one that failed.
GivesUp(c) ==
  ~CanWrite(c) /\ \A t \in Threads : Conn(t) = writer => req[t] = Idle

\* commit() after the writes that made the view v.
Publish(v) ==
  /\ rows' = v /\ image' = v
  /\ writer' = NoConn

-----------------------------------------------------------------------------
(* update_settings *)

Get(p, k, default) == IF k \in DOMAIN p THEN p[k] ELSE default

OverrideOn(v) == IF v.override # NoRow THEN v.override ELSE v.legacy_override

DailyRisk(v) == IF v.max_loss # NoRow THEN v.max_loss ELSE v.daily_risk

NewOverride(p, v) == Get(p, "override", Get(p, "legacy_override", OverrideOn(v)))

NewDaily(p, v) == Get(p, "max_loss", Get(p, "daily_risk", DailyRisk(v)))

\* What raises before anything is written: live trading without its
\* confirmation, a daily limit that is no number, and a risk per trade that is
\* not below the daily limit.
Refused(p, v) ==
  \/ "paper" \in DOMAIN p /\ ~p["paper"] /\ "live_mode_confirmed" \notin DOMAIN p
  \/ NewDaily(p, v) = Bad
  \/ /\ "risk" \in DOMAIN p /\ NewOverride(p, v)
     /\ p["risk"] = Bad \/ p["risk"] >= Magnitude(NewDaily(p, v))

\* The keys the write loop writes.
Written(p, v) ==
  DOMAIN p \ (Unwritten \cup (IF NewOverride(p, v) THEN {} ELSE {"risk"}))

\* A request that is refused or has an empty patch changes nothing.
Begin(t, p) ==
  /\ up /\ req[t] = Idle
  /\ ~Refused(p, View(Conn(t)))
  /\ req' = [req EXCEPT ![t] = Restrict(p, Written(p, View(Conn(t))))]
  /\ IF \E k \in DOMAIN p : p[k] = Bad
     THEN faults < MaxFaults /\ faults' = faults + 1
     ELSE UNCHANGED faults
  /\ UNCHANGED <<store, up, scanning, unserved, cfg, history>>

\* Finite maps: f without a key, and f laid over g (the @@ of the TLC module).
Without(f, k) == Restrict(f, DOMAIN f \ {k})
Over(f, g) == [k \in DOMAIN f \cup DOMAIN g |-> IF k \in DOMAIN f THEN f[k] ELSE g[k]]

\* The keys come in the order of the client's object: any order.
Write(t, k) ==
  /\ req[t] # Idle /\ k \in DOMAIN req[t] /\ req[t][k] # Bad
  /\ CanWrite(Conn(t))
  /\ image' = [View(Conn(t)) EXCEPT ![k] = req[t][k]]
  /\ writer' = Conn(t)
  /\ req' = [req EXCEPT ![t] = Without(@, k)]
  /\ wrote' = [u \in Threads |-> IF u = t THEN Over([j \in {k} |-> req[t][k]], wrote[t])
                                 ELSE Without(wrote[u], k)]
  /\ promised' = Without(promised, k)
  /\ UNCHANGED <<rows, up, scanning, unserved, cfg, faults>>

\* A value is refused, or the write lock does not come free: the exception is
\* answered as an error, and what was written stays as it is.
FailRollingBack(t) ==
  /\ req[t] # Idle
  /\ \E k \in DOMAIN req[t] : req[t][k] = Bad \/ GivesUp(Conn(t))
  /\ IF writer = Conn(t) THEN Publish(rows) ELSE UNCHANGED store
  /\ req' = [req EXCEPT ![t] = Idle]
  /\ wrote' = [wrote EXCEPT ![t] = << >>]
  /\ UNCHANGED <<up, scanning, unserved, cfg, promised, faults>>
Fail(t) ==
  /\ req[t] # Idle
  /\ \E k \in DOMAIN req[t] : req[t][k] = Bad \/ GivesUp(Conn(t))
  /\ req' = [req EXCEPT ![t] = Idle]
  /\ wrote' = [wrote EXCEPT ![t] = << >>]
  /\ UNCHANGED <<store, up, scanning, unserved, cfg, promised, faults>>

Commit(t) ==
  /\ req[t] # Idle /\ DOMAIN req[t] = {}
  /\ IF writer = Conn(t) THEN Publish(image) ELSE UNCHANGED store
  /\ req' = [req EXCEPT ![t] = Idle]
  /\ wrote' = [wrote EXCEPT ![t] = << >>]
  /\ promised' = Over(wrote[t], promised)
  /\ UNCHANGED <<up, scanning, unserved, cfg, faults>>

\* trigger_scan, one write and its commit; when the lock is taken the caller
\* gets an error.
TriggerScan(t) ==
  /\ up /\ req[t] = Idle /\ CanWrite(Conn(t))
  /\ Publish([View(Conn(t)) EXCEPT !.scan = TRUE])
  /\ unserved' = TRUE
  /\ UNCHANGED <<req, up, scanning, cfg, history, faults>>

-----------------------------------------------------------------------------
(* The other coroutines of the event loop.  None of them runs while a       *)
(* handler does.                                                            *)

LoopFree == up /\ req[Loop] = Idle

Stop ==
  /\ up' = FALSE
  /\ image' = rows /\ writer' = NoConn
  /\ req' = [t \in Threads |-> Idle]
  /\ scanning' = FALSE /\ cfg' = NoCfg
  /\ wrote' = [t \in Threads |-> << >>]
  /\ UNCHANGED <<rows, unserved, promised>>

\* _scan_loop sees the request, clears it, and begins the scan...
ScanBeginsBetweenDays ==
  /\ LoopFree /\ ~scanning /\ View("main").scan /\ CanWrite("main") /\ cfg = NoCfg
  /\ Publish([View("main") EXCEPT !.scan = FALSE])
  /\ scanning' = TRUE /\ unserved' = FALSE
  /\ UNCHANGED <<req, up, cfg, history, faults>>
ScanBegins ==
  /\ LoopFree /\ ~scanning /\ View("main").scan /\ CanWrite("main")
  /\ Publish([View("main") EXCEPT !.scan = FALSE])
  /\ scanning' = TRUE /\ unserved' = FALSE
  /\ UNCHANGED <<req, up, cfg, history, faults>>

\* ... or cannot clear it: the exception is outside the try statement, leaves
\* asyncio.gather, and ends the process.
ScanLocked ==
  /\ LoopFree /\ ~scanning /\ View("main").scan /\ GivesUp("main")
  /\ Stop
  /\ UNCHANGED faults

\* The scan ends, without a result or with one that is written and committed.
ScanEndsClearingFlag ==
  /\ LoopFree /\ scanning
  /\ scanning' = FALSE
  /\ CanWrite("main") /\ Publish([View("main") EXCEPT !.scan = FALSE])
  /\ UNCHANGED <<req, up, unserved, cfg, history, faults>>
ScanEnds ==
  /\ LoopFree /\ scanning
  /\ scanning' = FALSE
  /\ \/ UNCHANGED store
     \/ writer = "main" /\ Publish(image)
  /\ UNCHANGED <<req, up, unserved, cfg, history, faults>>

\* The trading loop stores the orders of a cycle; what is of interest here is
\* its commit.
PersistOrders ==
  /\ LoopFree /\ cfg # NoCfg
  /\ writer = "main" /\ Publish(image)
  /\ UNCHANGED <<req, up, scanning, unserved, cfg, history, faults>>

\* The ExecutionConfig of _trading_loop.  It reads the canonical rows only.
ExecutionConfigWithoutDefault(v) ==
  [BaseCfg EXCEPT !.max_loss_pct = v.max_loss,
                  !.override_risk = IF v.override = NoRow THEN FALSE ELSE v.override,
                  !.risk_per_trade_pct = v.risk,
                  !.target_pct = v.target]
ExecutionConfig(v) ==
  [BaseCfg EXCEPT !.max_loss_pct = IF v.max_loss = NoRow THEN 5 ELSE v.max_loss,
                  !.override_risk = IF v.override = NoRow THEN FALSE ELSE v.override,
                  !.risk_per_trade_pct = v.risk,
                  !.target_pct = v.target]

StartDay ==
  /\ LoopFree
  /\ cfg' = ExecutionConfig(View("main"))
  /\ UNCHANGED <<store, req, up, scanning, unserved, history, faults>>

Crash ==
  /\ up /\ faults < MaxFaults
  /\ Stop
  /\ faults' = faults + 1

Restart ==
  /\ ~up
  /\ up' = TRUE
  /\ UNCHANGED <<store, req, scanning, unserved, cfg, history, faults>>

-----------------------------------------------------------------------------

Proceed(t) == (\E k \in DOMAIN rows : Write(t, k)) \/ Fail(t) \/ Commit(t)

Next ==
  \/ \E t \in Threads, p \in Patches : Begin(t, p)
  \/ \E t \in Threads : Proceed(t)
  \/ \E t \in Threads : TriggerScan(t)
  \/ ScanBegins \/ ScanLocked \/ ScanEnds
  \/ PersistOrders \/ StartDay
  \/ Crash \/ Restart

\* A handler goes on, a scan ends, and the operating system's autostart or the
\* owner brings a stopped bot back.  Fairness is strong where a step needs what
\* others may take again and again: the write lock, which SQLite tries for until
\* it is free, and the event loop, which lets every coroutine that woke have its
\* turn.
Fairness ==
  /\ \A t \in Threads : SF_vars(Proceed(t))
  /\ SF_vars(ScanBegins \/ ScanLocked) /\ SF_vars(ScanEnds)
  /\ WF_vars(Restart)

Spec == Init /\ [][Next]_vars /\ Fairness

-----------------------------------------------------------------------------
(* Properties *)

\* What an accepted update wrote is in the database from then on, until a later
\* update writes the same row: although the threads of the local API share a
\* connection, on which any of them commits or fails while another is half-way,
\* and neither connection nor crash takes back what its client was told
\* (handlers.py:416-434, local_api.py:46).
AcceptedIsKept == \A k \in DOMAIN promised : rows[k] = promised[k]

\* A scan that was requested and has not begun is on record in the database, so
\* neither a scan that is running nor a crash loses it (run.py:483).
RequestKept == unserved => rows.scan

\* Every accepted request is followed by the beginning of a scan.
ScanHonoured == unserved ~> ~unserved

\* No trade of a day risks more than the day may lose, although sequences and
\* races of updates can store such a pair: the check of update_settings sees
\* one patch at a time (handlers.py:399-412, config.py:63-68).
TradeRiskWithinDay ==
  cfg # NoCfg => EffectiveRisk(cfg) <= Magnitude(cfg.max_loss_pct)

\* A day that has neither won nor lost anything trades on: the loss limit the
\* settings hand to the breakers is a loss (config.py:15).
FlatDayGoesOn ==
  cfg # NoCfg => CheckDailyLimits(NewDay(100), 0, 0, cfg).verdict = "none"
=============================================================================
