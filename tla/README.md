# QuickStockBot in TLA+

A verification project for QuickStockBot: a trading bot (Python), a relay that
connects bots with browsers (TypeScript on Node) and a web application. The
modules here are translated from the source; paths below are relative to the
repository, and `PROJECT.json` maps every definition to its lines.

## 1. The system

| Component | State it keeps | Operations | Interacts with |
|---|---|---|---|
| Daily circuit breakers `bot/src/bot/engine/circuit_breaker.py` | `DailyState`: day P/L, halted, reason, high-water mark, armed | `check_daily_limits` | called by the session at the start of every cycle |
| Position sizing `engine/sizing.py`, `engine/config.py` | none | `compute_shares`, `goalpost_trade_count`, `effective_risk_pct` | called by the session before an entry |
| Execution session `engine/session.py`, `exits.py`, `gate.py` | open trades, counters, day state, result of the day | `start_day`, `run_cycle`, `end_day` | orders through the Alpaca client, driven by the trading loop |
| Alpaca client `alpaca/client.py` | none | `submit_order`, `poll_order`, market data, retries | the broker |
| Trading loop `run.py:610-1020` | the ranking of the day, the session object | scan, start the session, a cycle a minute, store orders, end the day | session, scanner, database, relay |
| Scan loop `run.py:464-607` | the request flag and the ranking table | poll the flag, scan, write the ranking | control handlers set the flag; the trading loop reads the table |
| Control handlers `control/handlers.py`, `control/db.py` | settings, lists, orders, tickers in SQLite | reads, `update_settings`, `update_lists`, `trigger_scan` | called by the relay client and by the local API |
| Local API `control/local_api.py` | one SQLite connection shared by worker threads | the same handlers over HTTP | browser on the same host |
| Relay client `control/relay_client.py` | socket, back-off, log filter | connect, register, serve calls, reconnect | relay; the processes of one machine may share an identity |
| Relay `relay/src/server.ts`, `routing.ts` | sockets, routing tables, subscribers, pending calls, timers | register, replace, close, heartbeat, forward calls and answers | bots, web clients, licence API |
| Licence validator `license/validator.py` | verdict in memory and in SQLite, time of the last confirmation | `check_once`, `run_periodic`, `trading_allowed` | web API; the dashboard's notice reads its rows; nothing in the running bot creates it |
| Scanner `scanner/*.py` | float cache of the day | `run_scan`, `assign_roles`, `build_active_set`, `get_float_shares` | called by the two loops in executor threads; market data, Finnhub |
| Installer `installer/wizard/*.py` | the page's step and fields; `.env`, `config.json`, executable, service | validate, check the relay, install, uninstall | writes what `run.py` starts from, starts the service and a process |
| Start of the bot `run.py:1019-1130` | settings rows, port 8765, one relay client per process | take over `config.json`, bind, connect | installer, service manager, relay |
| Technical analysis, news, learning | none that outlives a call | scoring | scanner (learning has no caller) |
| Web API and pages, shared schemas | accounts, licences, subscriptions | requests, webhooks | relay, bot, installer |

What makes the system hard:

- *Two loops and two connections.* The trading loop, the scan loop and the
  relay client are coroutines on one event loop with one SQLite connection;
  scans and cycles run in executor threads; the local API's worker threads
  share a second connection. SQLite serializes writers and a transaction that
  nobody commits or rolls back keeps the write lock.
- *Orders that do not just fill.* Market orders are polled for a bounded time
  and may end, be refused, be accepted without an answer, or fill after nobody
  looks any more. An exception leaves a cycle half done.
- *A day that is a protocol.* Z-hour, trading, forced close, close, end of day,
  with halts that may come at any check, and a process that may die with
  everything the session knows.
- *Several processes, one identity.* The installer enables a service, starts it, and
  launches a process besides, and the user may launch another; each of these steps may
  fail. All read the same `.env`, connect to the relay under the bot id they
  found there, and only one can bind the port of the local API.
- *Writes without a transaction around them.* The licence check commits twice and then
  changes memory; an installation is five steps that can raise; settings come from
  `config.json` and from the dashboard.
- *Registration with an await.* The relay continues a registration after the
  licence server answered, when the socket may have closed or the same bot may
  have registered again; answers, timeouts and disconnections race for a call.

What makes each part correct:

- breakers: a halt is final and ordered once; an armed day trades only inside
  its bracket;
- sizing: an entry keeps three limits and is the largest that does;
- session: its books agree with the account, each trade is counted once, halts
  and the forced close leave nothing open, the day ends;
- relay: the routing tables are consistent, nobody hears a bot of another
  account, and every call taken on is settled exactly once;
- settings: what is accepted stays in the database, whatever happens to other requests on
  the same connection, a requested scan is not lost, and the configuration of a day is sane;
- licence: trading stops in time after the last confirmation, whatever fails or dies, and
  what the dashboard says is what the gate does;
- scanner: the active tickers are the best candidates, leaders lead connected groups,
  a failed look-up is not repeated, and a session begins with its own day's ranking;
- deployment: what is installed was validated, what the user set survives, and a bot
  whose service was started comes back and becomes reachable;
- trading loop: positions are looked at and are closed before the market is,
  and the orders of the day reach the order table.

`PROJECT.json` lists the hazards behind these, each at its line.

## 2. The modules

| Module | What it is | Code |
|---|---|---|
| `DailyLimits` | the breakers as operators | `circuit_breaker.py` |
| `CircuitBreaker` | the abstract day: checks with any P/L figures, entries while not halted | `session.py:163-213`, `548-560` |
| `Sizing` | `compute_shares`, effective risk, goal post | `sizing.py`, `config.py:63-77` |
| `SizingCheck` | a machine that asks `Sizing` one question, and what its answers mean | `session.py:282-297` |
| `RiskLimits_proofs` | the laws of the breakers and of sizing, proved | |
| `ExecutionSession` | the session and the broker, composed of the two above | `session.py`, `exits.py`, `gate.py`, `client.py` |
| `ExecutionSession_proofs` | trade accounting, types, flattening, books, purchases in time, no short sale, and the refinement of `CircuitBreaker`, proved | |
| `RpcService` | abstract: what the relay promises about a call | `server.ts:453-545` |
| `Relay` | connections, routing and calls; implements `RpcService` | `server.ts`, `routing.ts` |
| `Relay_proofs` | its tables, and that a call is settled at most once, proved | |
| `ControlPlane` | settings, scan requests, two connections, the configuration of the day; uses `DailyLimits` and `Sizing` | `handlers.py`, `db.py`, `local_api.py`, `run.py` |
| `ControlPlane_proofs` | types, scan requests on record, accepted updates kept, risk within the day, proved | |
| `TradingLoop` | a market day of the loop with ranking, order table, account, crash and restart | `run.py:610-1020` |
| `TradingLoop_proofs` | a flat close and a complete order table, proved | |
| `Licensing` | the licence check, its rows, its verdict and the world it asks | `validator.py`, `handlers.py:238-263` |
| `Licensing_proofs` | its three safety invariants, and that a block is for good, proved | |
| `Scanner` | window, filters, clusters and roles, active set as operators | `scanner/*.py` |
| `ScanService` | the two callers' scans in their threads, the float cache, the ticker table and the session's ranking; uses `Scanner` | `scanner.py`, `fundamentals.py`, `run.py:491-607`, `694-817` |
| `ScanService_proofs` | the active tickers, the roles, floats asked for once and the ranking of today, proved | |
| `SetupWizard` | the wizard's page and server, and the installation | `installer/wizard/*.py` |
| `Deployment` | the service and the launched processes of a machine, their settings and relay connections, composed with `SetupWizard` | `run.py:422-461`, `1019-1130`, `relay_client.py`, `config_writer.py` |
| `Deployment_proofs` | validated installations and surviving settings, proved | |
| `MC...` | instances for TLC (`Licensing` and `Deployment` are their own) | |

### How state and actions correspond

*Numbers.* Money is whole dollars and a percentage a whole number. Every
comparison of a quotient is multiplied out and every floor of a quotient is one
integer division, so the models are exact where the code computes in floats.
Float rounding is not modelled.

*ExecutionSession.* `trades` is `_open_trades`, `day` the `DailyState`, and
`entered`, `exited`, `realized` the counters of `SessionResult`; `held`, `cash`
and `working` are the account at the broker. A call of `run_cycle` is
`BeginCycle`, one step per symbol of each loop, and the end of the loop
(`ExitsDone`, `LastExitsDone`, `EntriesDone`, `FlattenDone`): these are the points where an
exception can leave the call and where clock and broker can act. An order with
its poll is one step with five outcomes: it fills; it fills and so does a twin
that a repeated POST created; it ends with some of its shares filled; it is
refused; it is accepted and nobody learns what becomes of it. The seven checks of
the entry gate are abstracted to the candle they look at, and may skip any
symbol.

*Relay.* One event handler is one action. `handleRegister` is two
(`Register`, and `Accept` or `Reject`), because it awaits the licence server.
A socket is open, closing (the relay called `close()` or `terminate()`; messages
on the wire still arrive) or closed (its close event ran). Rate limits are a
message that may be dropped; logs and state updates change nothing in the relay.

*ControlPlane.* `rows` is what is committed, `writer` the connection with an
open transaction, and `image` what that connection sees. `update_settings` is
`Begin` (checks and the discarded keys), a `Write` per key in any order, and
`Commit`, or `Fail` with what was written left as it is: nothing in this code
rolls back. The handlers on the event loop run to their end (`LoopFree`), those
of the local API interleave. Eight rows are modelled: those that the risk rules,
the live-mode gate and the scan request read, and one that stands for every
other number. SQLite is external: one connection at a time may have uncommitted writes,
and a write that waits for a lock that was left behind gives up. `wrote` and `promised` are
history variables: what each request has written and what the accepted ones have, as far
as no later write replaced it.

*TradingLoop.* `pc` is where the coroutine is. A cycle is one step, whose exits
and entries are free within what `run_cycle` allows in its zone; the steps
around it (`FetchBars`, `Persist`, `EndDay`) are the awaits. `ranked` is the list
the day began with, `ranking` the table, `current` what the cycle was given. An
order is a number in the order of placing; the order table is the set of those
inserted. `force_close` is the setting `force_close_at_close`, read when the session starts,
with either value. Scale-outs are left out: they are orders that leave a position open.

*Licensing.* `rowTs`, `rowState`, `rowAllowed` are the cached rows, `state` and
`allowed` the verdict in memory. `check_once` is `Ask`, the answer (`Answered` or
`Unanswered`), `Save` (only for "active"), `Persist`, and `Adopt`: a crash fits between any
two. `confirmed` is a history variable: the latest check that the server answered "active", whether or
not anybody remembers. A write that raises (`WriteRaises`) ends the check and
keeps the old verdict. The clock counts units in which a check takes no time.

*Scanner and ScanService.* A scan is `Begin`, one step per symbol (`Drop`, `Hit`, or
`Miss` and `Answer` around the request to Finnhub) and `Write`; the session's
continues with `Rank` after its report to the relay. The volume's history is not
fetched by the code, and not in the model either: the relative volume is made of today's
volume alone. Percentages are compared multiplied out. Patterns, MACD and score
choose nothing but leaders; MACD's favour is a number of the quote.
Lists are visited as sets of their indexes. The pair loop of the union-find is two
recursive functions, `JoinRow` and `Clusters`. A stable sort that is then cut is the set of
the indexes with fewer than n others `Ahead` of them: better in the sorted figure, or equal
and earlier in the list. `SortSeq` of the standard modules cannot say it: its definition
sorts by strict comparison only and gives no value when two elements tie.

*SetupWizard and Deployment.* `inflight` counts the validations whose answers are on
their way; `nextStep` moves on, when one arrives, from wherever the page is by then.
`hurried` records that the user touched the page meanwhile. An installation is
`WriteEnv`, `WriteConfig`, `SetPassword`, `Extract`, `Enable`,
`LaunchAfterInstall`, and `Break` is the exception handler of `/api/install`. Each of the first
four can end in it: a failure of `WriteConfig` leaves a new `.env` beside the old settings, and one of
`Extract` both beside the old executable. `Enable` and `LaunchAfterInstall` have handlers of their
own. `registered` is an enabled service, `started` one that the service manager was told to run:
by the second command of `_autostart_linux`, which can fail after the first, or by a login.
Every launch, by the installer or the shortcut, is a new process, whatever runs already; as many run
at once as `Launched` has members. An uninstallation ends the service only, and leaves the others as `orphans`. `Start`
is `main` and `_run` up to the point where four coroutines run; `Bind` is uvicorn's
bind, which ends every process but the first; `Register` may come before it. The service
manager is the one of Linux.

## 3. The runs

| Run | Instance | Shows |
|---|---|---|
| `breaker` | equity 100, P/L from -3 to 5, limit -2%, target 3%, giveback 25% | `ArmedAboveTarget`, `BracketedWhileArmed`, `HaltLatch` |
| `sizing` | 5 equities, 5 buying powers, 4 prices, 216 configurations | `KeepsLimits`, `IsLargest`, `GoalpostIsExact` |
| `session_reliable` | 2 symbols, 2 prices, 4 candles, every order fills | `BooksMatchBroker`, `FlatWhenToldToFlatten`, `ForceCloseHonoured`, `DayEndsFlat`, `ImplementsCircuitBreaker` |
| `session_faulty` | 2 symbols, 1 price, one fault of any kind | `ExitAccounting`, `BuysInTime`, `DayCompletes` |
| `relay` | 2 connections, 2 bots, 2 accounts, 1 web client, 1 call | `RoutesInverse`, `AccountIndex`, `SubscribersScoped`, `PendingCalls`, `ImplementsRpcService`, `LostBotsLeave` |
| `control` | the event loop and 2 API threads, 4 patches, one crash or bad value | `RequestKept`, `TradeRiskWithinDay`, `AcceptedIsKept`, `ScanHonoured` |
| `loop` | 2 symbols, 4 orders, forced close on or off, one failure and one crash | `FlatAtClose`, `LedgerCatchesUp` |
| `session_x_flatten` | 1 symbol, one order that ends early; violated | `FlattenSellsAll` |
| `session_x_loss` | 1 symbol, every order fills; violated | `MaxLossSeesOpenLoss` |
| `licence` | grace 3, interval 2, time to 10, 3 faults | `StopsInTime`, `AllowedIsBacked`, `DashboardAgrees`, `EndedIsBlocked` |
| `scan` | 3 symbols, 2 scans, 2 days of 4 slots, 1 active ticker | `ActiveAreTheMovers`, `RolesAgree`, `AskedOnce`, `RankedFresh` |
| `deploy` | service and 2 launched processes, 2 relay checks, 2 installations, 3 faults | `CollectedIsValid`, `SettingsSurvive`, `BotComesBack`, `BotIsReachable` |

A `TypeOK` is checked where it says more than types do (`session_faulty`,
`control`); those of the other modules document their variables, hold in the
same instances, and are proved for the state machines of section 5.

### Bounds, and why they are enough

- *breaker*: the breakers compare one sum with three thresholds; the range has
  values on, above and below each, and any number of checks.
- *sizing*: prices and percentages that divide and that do not divide one another,
  zero and negative accounts, overrides below, at and above the daily limit.
  The theorems cover the rest.
- *session*: two symbols are needed for an exception in the middle of a loop;
  two prices give a gain and a loss, and the configuration puts the loss limit,
  the target and the take-profit within reach of one trade. `MaxTrades = 2` lets a
  symbol be entered again after it was closed. With every order filling, no fault
  is needed; with faults, one is enough to break off a loop at each point, and the
  accounting is proved for any number.
- *relay*: a connection is used once, so replacement needs two connections; two
  bots and two accounts let one bot come back under another account and let
  one bot's departure meet another's call.
- *control*: two threads on one connection and the event loop on the other give
  every interleaving of two handlers on a connection and across connections;
  the four patches are the override with a risk below the limit, a lower limit,
  live trading without confirmation (always refused), and a bad value beside a
  good one. `MaxFaults` bounds crashes and bad values together.
- *loop*: two symbols let a ranking change to another, to both and to none.
  `MaxOrders = 4` is two purchases and two sales, or a position that is
  entered twice. The bound stops purchases, never sales (`Room`).

- *licence*: the grace period is longer than the interval and no multiple of it, so that
  checks fall on both sides of its end; `LastFault` leaves time for a check without faults
  before the clock stops. Three faults break a check at every step and the next one too.
- *scan*: three symbols are the least for a group that two links connect in any
  order; two scans overlap, and two days let one read what the other left. The
  quotes have a symbol that is best by rise, one that is best by MACD, and symbols without
  bars; floats lie on both sides of the limit.
- *deploy*: two installations with two ids let processes of different identity
  live together, and with two launched processes the second installation may launch one beside
  that of the first and beside the service. Three faults can take down each of the three processes, or
  break a connection and then both that held one; races for the port and replacements at the relay
  are no faults and not bounded.
  The first three steps begin with wrong fields, which is what `MoveOn` and `Ask` must stop, but
  `MaxWrong = 0` keeps the user from spoiling a step that was validated: form and processes together
  are too many states. Two other instances were run besides and pass: `MaxWrong = 1` with one fault
  (1.9 million states), and for the form alone `CollectedIsValid` with `MaxWrong = 2`,
  `MaxInflight = 2` (a double click), one launched process and no fault. `InstalledIsValid` of section 5
  proves it for every bound.

### Fairness, and why the code justifies it

- *session*: weak fairness of the session's own steps, since they run in a thread that
  nothing blocks (each poll has a time limit, `client.py:364-379`), and of the clock.
  Cycles themselves need not happen.
- *relay*: weak fairness of a call's timer, of the heartbeat for a connection
  that is lost, and of the close event of a socket that is closing (the ws
  library destroys it after 30 seconds). None of bots or web clients.
- *control*: strong fairness of a handler's next step and of the scan loop's
  two steps. A writer that waits is let in between others' transactions because
  sqlite3 retries for five seconds, and asyncio gives every coroutine that woke its
  turn; weak fairness would let the lock be taken away at each moment it
  is free. Weak fairness of the restart stands for the autostart entry or the
  owner. Clients need not call.
- *licence*: weak fairness of the clock, of the start (service manager), and of a check's steps: the
  loop has no way out and its request a time limit (`validator.py:76`).
- *deploy*: weak fairness of `Bind` and `Register` of each process (the relay client's
  loop never ends, `relay_client.py:75`) and of the service manager's restart
  (`config_writer.py:293`). None of the user. `BotComesBack` and `BotIsReachable` ask for a service
  that was started, for files that stay in place, and that no process of an earlier installation
  runs on (section 4 says what happens otherwise).
- *scan*: none; it has no liveness property.
- *loop*: none; it has no liveness property. One assumption on time is built
  into its `Tick`: a cycle takes less than the last five minutes, so that one
  begins in them while a session runs. `FlatAtClose` needs it, and so does the
  code: the forced close is only looked for at the beginning of a cycle.

Deadlock is checked in every run but four: `relay` really stops once its
connections and calls are used up, `licence` and `scan` when their clock has run out, and
`deploy` when the user stops.

## 4. What the violated properties say

- `FlattenSellsAll`: `_execute_exit` never looks at the status of the order it polled
  (`session.py:474-478`; an entry does, at 310). The run buys three shares; the forced close sells them,
  the order ends with nothing filled, the engine books three shares as sold and forgets the trade, and the account
  holds them into the night. The docstrings say "Market-sell all remaining open positions." (498) and
  "Force-close any remaining positions and return the session result." (216).
- `MaxLossSeesOpenLoss`: open P/L is computed at the high-water mark, so a falling
  position never reaches the loss limit.

Four properties are stated in the modules, violated, and have no run of their own;
put as the INVARIANT of a copy of the cfg, TLC finds them at once:

- `TrackedForExits` (`TradingLoop`, with `MCTradingLoop.cfg`): bars are fetched for
  ranked symbols only (`run.py:944`), and exits need bars: a position whose symbol drops out of the
  ranking waits for the forced close. `docs/user-setup-guide.md:114-115` says that such tickers
  are "still tracked for exit management".
- `FlatDayGoesOn` (`ControlPlane`, with `MCControlPlane.cfg` and `InitialRows <- MCRows`): the loss
  limit defaults to +5.0 in `run.py:825` and is stored with whatever sign a client sends; the
  breakers need a negative number and halt a day at 0% otherwise. The installer
  stores -2.0. `FlatDayGoesOnExactly` proves the exact condition: a loss limit below zero and a
  target above it.
- `BlockedPastGrace` (`Licensing`, with `MCLicensing.cfg`): a restart after a long stop
  loads the cached permission without a look at its age, and allows trading until the first check
  is through. `validator.py:7-8` says "once the window expires, trading is blocked until a
  valid response is received". `BlockedWithoutFaults` proves it of a validator that is never
  restarted and whose requests and writes succeed.

- `NeverShort` (`ExecutionSession`, with `MCSession_x_flatten.cfg` and the
  outcomes "filled" and "unanswered"): when the poll of a sale times
  out, `remaining_shares` is not reduced (`session.py:474-478`), the next cycle sells the shares
  again, and when both orders fill the account is short. `NeverSellsShort` proves that this takes an
  order that outlives its poll, or a POST that doubles one. No text of the repository promises
  it, so there is no finding.

Met while modelling, visible in the models, and without a run of their own:

- A sale that raises while the day is flattened loses the flatten order: later
  checks answer HALT (`circuit_breaker.py:58`), which only runs exits.
  `FlatWhenToldToFlatten` holds in `session_reliable` only.
- On a day halted without flattening, the forced close is never reached
  (`session.py:198-205`), and positions wait for `end_day` after the close.
  `FlatAtClose` excludes such days.
- With `force_close_at_close` off (`session.py:203`), positions wait for `end_day` as well.
- The exits of a cycle may take the day past its loss limit and the entries of
  that cycle still follow.
- `end_day` is a single attempt; one refused sale leaves the rest open.
- `unregisterBot` fails the pending calls of every bot (`routing.ts:51-55`).
- A bot socket that closes while its licence is checked is routed after its
  close event, and nothing removes it (`server.ts:292-327`).
- Orders of `end_day`, and the final status of any order, never reach the
  order table.
- Settings take effect on the next trading day, although the guide says at once.
- *Scanner.* Relative volume is today's volume over today's volume, extrapolated and scaled
  back: 1 after the open and 0 before (`scanner.py:240-249`, `filters.py:43-52`), so the
  default threshold of 2.0 refuses every symbol; and both callers pass no news while
  `require_news` defaults to true. With its defaults a scan finds nothing.
- *Scanner.* The guide counts the scan duration from the open (`user-setup-guide.md:109`); the code
  counts it from the start of the window (`window.py:80-81`). Nothing
  re-scans every `scanner_refresh_seconds`.
- *Scanner.* Two scans may both miss a symbol in the float cache; the later answer, a
  failure too, replaces the earlier for the day.
- *Scanner.* When no scan of the day has written the table, the session begins with the active
  rows of an earlier day (`run.py:812-817`).
- *Licence.* `LicenseValidator` is created by tests only: the running bot's trading is not gated by
  it, and the dashboard shows its notice of an unknown licence.
- *Wizard.* A second click on Next while step 1 is validated passes step 2, with
  its password, unchecked (`html_wizard.py:595-606`): `CollectedIsValid` excludes hurried pages.
- *Wizard.* The check of the relay reports success once its registration is sent, before the
  relay's verdict (`reachability.py:65-85`), and draws a new id each time.
- *Installer.* An installation beside a running bot writes `.env` with a new id and then fails at
  the copy of the executable; the running process keeps the old id.
- *Installer.* "Re-run the installer to reset your configuration" (`run.py:402`) does
  not: rows in the database are never overwritten (`run.py:445-446`).
- *Installer.* The uninstallation leaves launched processes running, on a deleted database. One that holds
  the port ends every process of a later installation at its start. A process of an installation that
  was replaced goes on too, under an id that `.env` no longer has. `BotComesBack` and
  `BotIsReachable` exclude both (`NoLeftovers`): without it `BotIsReachable`, which is about the identity in
  `.env`, is violated.
- *Installer.* A service that was enabled and could not be started (`config_writer.py:300-301`, caught
  at `server.py:146`) is not restarted by anyone until the next login: one crash of the launched
  process leaves nothing up. With `registered` in place of `started`, `BotComesBack` is
  violated.
- *Installer.* An empty number field of step 7 arrives as null and makes `_write_config_json` raise after
  `.env` is written.
- *Relay client.* The back-off is reset only when a session ends cleanly
  (`relay_client.py:77-100`), which a lost connection does not.
- A setting that is refused half-way leaves the local API's transaction open;
  the next scan request then ends the process on "database is locked"
  (`ScanLocked`). `ScanHonoured` holds since the restart serves the request.

## 5. What is proved

All of it by `tlapm`, for every value of the constants that satisfies the
named assumptions of the modules, with no bound on runs. Every inductive invariant
was first checked by TLC on the instance of its module. Every safety and every action
property of a passing run of section 3 has a theorem.

**`RiskLimits_proofs`**, breakers: `TypeCorrect`, `ArmedOnlyAboveTarget`,
`TradesInsideTheBracket`, `HaltIsFinal`. None of the state properties is inductive by
itself: the bracket needs the mark to be at least the threshold, and both speak
of figures that a check has just stored. `Inv` is `Safe(day)`, a predicate of
the record alone. `CheckEffect` says what one check does to a safe record in all
branches, from `GivebackEffect` and `StopEffect`; `NextInv` and `HaltIsFinal`
both rest on it.
Sizing: `EntriesKeepLimits`, `EntriesAreLargest`,
`GoalpostExact`, from `FloorIsLargest` (the floor of a quotient is the largest
multiplier that fits) and `AllowedIsExact` (a number of shares keeps the limits
exactly when it is at most the least of the three floors).
`FlatDayGoesOnExactly` is one check of a day without gain or loss: it goes on if and only if the
stored loss limit is negative and the target positive.

**`ExecutionSession_proofs`**, in layers, each of which uses those before it:

- `CountersAddUp` (`entered = exited + Cardinality(Live)`, for any broker and any
  number of faults) from `Inv`, which is `Counted` (trades are well formed, shares of a live
  trade are positive) and `Flow`: in a loop of exits the symbols marked closed are sold
  out and no longer to be visited, entries are only reached while the day is not
  halted, and so on. `Flow` is what makes `DeleteClosed` harmless.
- `TypeCorrect` from `Types`. What is hard are the figures that the breakers store: sums
  over the open trades. `SumType`, `SumOut`, `SumSame` and `SumUpdate` say what
  `SumFunctionOnSet` does; its recursion over sets is resolved without an induction
  theorem, by looking at a smallest set on which two solutions differ, or none
  exists (`SolutionsAgree`, `SolutionExists`). `CheckResult` then bounds what a check stores.
- `HaltsFlatten` and `LastCycleClosesAll` from `Orderly`: the day keeps why it was halted, a halt
  that orders it leaves nothing open, and a loop that is still walked
  was not to be a flatten. Two hypotheses on the constants are needed, and both name a
  real limit of the code. `NeverRaises` (no order is refused or loses its answer; partial
  and double fills are allowed): an order that raises loses the flatten order (section 4).
  `EveryHaltFlattens` (the configuration makes every breaker flatten): the check of the
  halt comes before the forced close. `session_reliable` and the defaults for a giveback day
  satisfy both.
- `BooksAgree` from `Agreed`, under `Reliable` (orders fill): tracked shares are held
  shares, and `realized` is the cash that moved plus the cost of what is open. `SaleSum` and
  `SumUpdate` carry the sum over the trades through a sale and a purchase. With any other
  outcome the property is false (`session.py:478` does not read the status of the order).
- `NoLatePurchase` (`BuysInTime`, for any broker and any faults) from `InTime`: the loop of
  entries is only walked with a clock reading that allows it, and on a day not halted.
  The theorem is about every other step too: sales, twin orders, late fills and loops that an
  exception left do not add to the shares held or on order.
- `NeverSellsShort` (`NeverShort`, no holding below zero) from `Owned`, under `SettlesAtOnce` (an order fills, ends
  with some of its shares, or is refused, before its poll is over): what is tracked is at
  most what is held. A sale that ends early is booked as sold in full, so the books fall behind
  the account but never ahead of it. With orders that outlive their poll it is false (section 4).
- `EndsWithoutShares`, under `Reliable`: no share is held when the day is over. `end_day` sells
  every live trade (`OverClosesAll`), and `BooksAgree` makes that the account. It is the
  safety half of `DayEndsFlat`.
- `Refinement`: with `Pnl = Int`, the abstract day whose checks may see any figures is
  implemented by every session. `RefinesItsFigures` is the step-by-step part, for any `Pnl` with the
  figures that occur; that they are integers is `Types`.

**`Relay_proofs`**: `TypeCorrect`, `RoutesAreInverse`, `AccountsAreIndexed`,
`SubscriptionsAreScoped`, `PendingCallsAreLive` and `SettledAtMostOnce`, for any connections, bots,
accounts, clients and calls. `IInv` is the conjunction of the four table
properties with three facts of the code's order: a connection has an identity from its
opening on and is registered only at the end of its one register (`Handshake`), a client that is
subscribed knows it (`SubscribersKnow`), and what is pending was taken on (`PendingTaken`).
None of the properties holds by itself: unrouting a replaced bot needs the inverse of the
table it looks in, and unsubscribing a client its own list. `SettledAtMostOnce` is the
refinement of `RpcService` without its fairness: `Init` maps to `Init`, and every
step of the relay is a step of the abstract call service or a stutter.

**`TradingLoop_proofs`**: `TypeCorrect`, `FlatAtTheClose` and `LedgerIsComplete`, for any symbols.
The invariant adds that the orders placed leave room to sell what is tracked (`Bounded`), that the
result of a day without a crash has all its orders (`Recorded`), and that an undisturbed day
tracks what the account holds, which is nothing once a cycle has begun in the last
minutes (`Tracking`). The proof found an error of the model, since mended: `HaltedCycle` let a
halt sell some of the positions without bars, where the code sells those with an exit signal, or all.

**`ControlPlane_proofs`**: `TypeCorrect`, `NoTradeRisksTheDay`, `RequestsAreOnRecord` and
`AcceptedUpdatesAreKept`, for any worker threads, patches, bad values and
restarts. `RequestKept` speaks of committed rows, but a commit publishes the
uncommitted image of a connection, which may have been taken before the request; so `Inv`
asks for the flag in the image too (`Recorded`), and that no update in progress has
the row still to write (`Untouched`, which rests on `PatchesAssumption`: the write loop gives each key
one type, or raises). `AcceptedUpdatesAreKept` rests on `Kept`: what a running request has written is in the image, and in the
committed rows unless its own connection still holds the lock; what was promised is in both. So a
commit by another thread of the connection publishes the request's writes with its own, and a request that
fails takes none of them back, because nothing rolls back: a `Fail` that did would break a promise made
later (the mutant of `AcceptedIsKept`).
`NoTradeRisksTheDay` needs of the stored rows no more than their types (`ExecutionConfigTyped`):
whatever pair of settings the updates of several clients have left, `effective_risk_pct` clamps it.

**`Licensing_proofs`**: `TypeCorrect`, `PermissionIsBacked`, `NoticeAgrees` and
`GraceIsBounded`, for any grace period, interval, licence and faults. The inductive
invariant adds what the check under way will write: that `known` and `asked` lie
behind the clock, that the answer "active" has been confirmed at `asked` and is saved before the
verdict is persisted, and that the rows carry the verdict from `persisted`
on. `GraceIsBounded` rests on the clock not passing `due` while a validator is up: a verdict is
less than a grace period old when it is made, and at most an interval older when it is replaced.
`BlockedForGood` is the safety half of `EndedIsBlocked`: once the licence has ended, the grace of
its last confirmation is over, and an idle validator does not allow trading, it never
will again. Its stable predicate `Blocked` asks the cached row to refuse as well, for a restart reads
it; no answer undoes it, because only "active" could, and no fault does.
`BlockedWithoutFaults` needs one more fact: without a crash the memory never allows more than
the last check of this very process did (`CheckedOnly`).

**`ScanService_proofs`**: `TypeCorrect`, `MoversAreActive`, `RolesAreRight`, `FloatsAreAskedOnce` and
`SessionsRankToday`, for any symbols, market data and days.

- `TypeCorrect` from `Placed`: a float is asked for only while a scan is at a symbol, and lists hold
  symbols only.
- `MoversAreActive` from `Listed`: a scan that is under way has in its list each symbol it found once,
  in the order of visiting, with what it saw. The ranking is counted, not sorted: `Ahead` is a
  strict total order of the indexes, so "the number of those ahead" maps them one to one
  onto the places from 0 (`Places`), and the n first are the n best (`TopOfList`).
- `RolesAreRight` is about the union-find. A forest is a parent function with a depth that
  decreases towards the roots, so that `Find` has a value (`RootIs`); a union of two roots keeps it a
  forest and joins exactly two trees (`UnionForest`). Through the pair loop
  (`JoinRowGroups`, `ClustersGroups`) two indexes have one root exactly when no set of
  indexes that is closed under the links visited so far tells them apart; at the end, this is being
  linked. The leader of each group is then its best (`BestIsBest`), the others are what the code makes
  of them.
- `AskedOnce` speaks of the step that makes a request, and that step looks at the cache only; so
  `Pending` says that a symbol without an entry has exactly as many requests of the day as
  there are scans waiting for it.
- The ranking of the day rests on `RowsOfOneDay`: the table is always of the one day that
  `written` names.

No induction theorem is used for the loops: `Upward` says that a set of numbers that has the first
and, with each, the next has them all, by the least one that is missing. The facts about the recursive
functions (that a function satisfying the recursion exists) are proved in the same way.

**`Deployment_proofs`**: `TypeCorrect`, `InstalledIsValid` and `UserSettingsSurvive`, for any number
of checks, installations, wrong fields and faults. Until the page is touched too early, the
steps behind the one shown are right, and the only answer on its way is one for the step
shown, which is right too (`Unhurried`); so what `collectState` reads at step 8 is.
`UserSettingsSurvive` rests on `StartKeepsRow`: a start fills an empty row only.

**Only model-checked**: liveness (`DayCompletes`, `DayEndsFlat`,
`LostBotsLeave`, `ScanHonoured`, `EndedIsBlocked`, `BotComesBack`, `BotIsReachable`, the liveness half
of `ImplementsRpcService`), which the prover cannot reach. What two of them say of
states, once they are reached, is proved: `EndsWithoutShares` and `BlockedForGood`.

## 6. Not modelled

Technical analysis, news and learning are float computations without state; their
outcomes are the free choices of candles, of likeness and of MACD's favour. Web
pages and schemas are data, the web API's handlers one database call each. The read handlers change
nothing. Minutes inside a cycle are not counted: the clock may move on to a later zone between
the steps of a cycle, but a cycle reads its zone once, in the code and in the model. So `BuysInTime`
is about the reading the cycle began with; how late the last entry of a slow cycle may be, it does not say.

Left out inside the modelled parts: the licence validator's clock going backwards; the
contents of the single fields of the wizard and the Windows task; the log filter of the
relay client; a scan's write that meets a locked database (`ControlPlane` has the locks); the rate
limits of the relay, above which a request is dropped without an answer, and the browser, which sets
no time-out on its calls.

## 7. Plan

In this order, the most important behaviour first:

1. *(done)* breakers, sizing, session with its broker; proofs of breakers,
   sizing, trade accounting, refinement, scan requests and accepted updates.
2. *(done)* relay and the call service; settings and scan requests; the
   trading day around the session.
3. *(done)* the licence check and its proofs; the scanner and its callers; the
   wizard, the installation and the two processes with their relay connections.
4. *(done)* proofs of all safety and action properties that the passing runs check.
5. Time inside a cycle: the polls of a cycle against the zones of the clock.
6. The relay's rate limiter as a bounded window, composed with `Relay`.
