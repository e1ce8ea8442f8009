----------------------------- MODULE Deployment -----------------------------
(***************************************************************************)
(* The bot's processes on the user's machine: the one that the service     *)
(* manager keeps running (config_writer.py) and those that the installer   *)
(* or the desktop shortcut starts, with the start of run.py, the settings  *)
(* it takes over from config.json, and the relay connection that each      *)
(* process makes under the identity in .env (relay_client.py).             *)
(*                                                                         *)
(* A process starts its relay client before its local API has bound the    *)
(* port, which only one process can; the others exit.  Until then clients  *)
(* with one identity replace each other at the relay.                      *)
(*                                                                         *)
(* Abstractions.  The service is the one of Linux, whose failed processes  *)
(* are started again (as on macOS; Windows starts its task at login only). *)
(* The pause before a client connects again is the time between two steps. *)
(* The database holds one setting.  The relay, the service manager and     *)
(* uvicorn are external.                                                   *)
(***************************************************************************)
EXTENDS SetupWizard

CONSTANTS Launched,   \* processes that nobody starts again (bound of the model:
                      \* as many run at once)
          MaxFaults   \* bound of the model: crashes, logins and lost connections

ASSUME FaultsAssumption == MaxFaults \in Nat
ASSUME LaunchedAssumption == "service" \notin Launched

Processes == {"service"} \cup Launched
User == MaxInstalls + 1   \* a setting made over the dashboard

VARIABLES proc,   \* "off", "waiting" (for the service manager), "starting", "up"
          id,     \* BOT_ID of each process
          link,   \* whether its relay client is registered
          orphans,  \* processes whose files have been removed under them
          started,  \* whether the service manager has been told to run the service
          row,    \* the setting in the database, None if absent
          faults  \* faults so far (bound)

bots == <<proc, id, link, orphans>>
vars == <<wizard_vars, bots, started, row, faults>>

TypeOK ==
  /\ WizardTypeOK
  /\ proc \in [Processes -> {"off", "waiting", "starting", "up"}]
  /\ id \in [Processes -> 0..MaxChecks]
  /\ link \in [Processes -> BOOLEAN] /\ orphans \subseteq Processes
  /\ started \in BOOLEAN
  /\ row \in 0..User /\ faults \in 0..MaxFaults

Init ==
  /\ WizardInit
  /\ proc = [p \in Processes |-> "off"]
  /\ id = [p \in Processes |-> None]
  /\ link = [p \in Processes |-> FALSE] /\ orphans = {}
  /\ started = FALSE /\ row = None /\ faults = 0

Running(p) == proc[p] \in {"starting", "up"}

Fault == faults < MaxFaults /\ faults' = faults + 1

-----------------------------------------------------------------------------
(* The machine *)

\* A unit that failed is started again; other processes are not.
ExitedForGood(p) == "off"
Exited(p) == IF p = "service" THEN "waiting" ELSE "off"

Exit(p) ==
  /\ proc' = [proc EXCEPT ![p] = Exited(p)]
  /\ id' = [id EXCEPT ![p] = None]
  /\ link' = [link EXCEPT ![p] = FALSE]
  /\ orphans' = orphans \ {p}

\* The settings of config.json go into the database where it has none.
MigrateOver == IF config = None THEN row ELSE config
Migrate == IF row = None THEN config ELSE row

\* main and _run: without an executable or .env the process ends.
Start(p) ==
  IF env = None \/ ~exe
  THEN /\ proc' = [proc EXCEPT ![p] = Exited(p)]
       /\ UNCHANGED <<id, link, orphans, row>>
  ELSE /\ proc' = [proc EXCEPT ![p] = "starting"]
       /\ id' = [id EXCEPT ![p] = env]
       /\ row' = Migrate
       /\ UNCHANGED <<link, orphans>>

\* A new process is launched.
Free == {p \in Launched : proc[p] = "off"}
Launch == Free # {} /\ Start(CHOOSE p \in Free : TRUE)

\* The local API binds its port, or uvicorn ends the process.
Bind(p) ==
  /\ proc[p] = "starting"
  /\ IF \E q \in Processes : proc[q] = "up"
     THEN Exit(p)
     ELSE proc' = [proc EXCEPT ![p] = "up"] /\ UNCHANGED <<id, link, orphans>>
  /\ UNCHANGED <<wizard_vars, started, row, faults>>

RestartService ==
  /\ started /\ exe
  /\ proc["service"] = "waiting"
  /\ Start("service")
  /\ UNCHANGED <<wizard_vars, started, faults>>

\* The shortcut on the desktop.
LaunchByHand ==
  /\ exe /\ env # None
  /\ Launch
  /\ UNCHANGED <<wizard_vars, started, faults>>

Crash(p) ==
  /\ Running(p) /\ Fault
  /\ Exit(p)
  /\ UNCHANGED <<wizard_vars, started, row>>

\* The user logs in anew: every process has ended, an enabled service starts.
Login ==
  /\ Fault
  /\ proc' = [p \in Processes |-> IF p = "service" /\ registered THEN "waiting" ELSE "off"]
  /\ id' = [p \in Processes |-> None]
  /\ link' = [p \in Processes |-> FALSE]
  /\ orphans' = {}
  /\ started' = registered
  /\ UNCHANGED <<wizard_vars, row>>

-----------------------------------------------------------------------------
(* The relay connection *)

\* The client connects, proves the password and registers; a bot that was
\* registered under the same identity is closed with 4010.
RegisterAtStart(p) ==
  /\ proc[p] = "starting" /\ ~link[p] /\ password
  /\ link' = [q \in Processes |-> q = p \/ (link[q] /\ id[q] # id[p])]
  /\ UNCHANGED <<wizard_vars, proc, id, orphans, started, row, faults>>
Register(p) ==
  /\ Running(p) /\ ~link[p] /\ password
  /\ link' = [q \in Processes |-> q = p \/ (link[q] /\ id[q] # id[p])]
  /\ UNCHANGED <<wizard_vars, proc, id, orphans, started, row, faults>>

\* A session ends, with an exception or without one; run connects again.
Lose(p) ==
  /\ link[p] /\ Fault
  /\ link' = [link EXCEPT ![p] = FALSE]
  /\ UNCHANGED <<wizard_vars, proc, id, orphans, started, row>>

\* update_settings over the relay.
UserSets(p) ==
  /\ proc[p] = "up" /\ link[p] /\ p \notin orphans
  /\ row' = User
  /\ UNCHANGED <<wizard_vars, bots, started, faults>>

-----------------------------------------------------------------------------
(* The installer and the machine *)

Extract ==
  /\ ExtractExe(\E p \in Processes \ orphans : Running(p))
  /\ UNCHANGED <<bots, started, row, faults>>

\* systemctl enable, then systemctl start, which does nothing when the service
\* runs.  Either may fail, and the installation goes on.
Enable ==
  /\ \/ /\ Autostart(TRUE) /\ started' = TRUE
        /\ IF Running("service") THEN UNCHANGED <<bots, row>> ELSE Start("service")
     \/ Autostart(TRUE) /\ UNCHANGED <<bots, started, row>>
     \/ Autostart(FALSE) /\ UNCHANGED <<bots, started, row>>
  /\ UNCHANGED faults

\* Whatever runs already, a process is launched, or that fails and is caught.
LaunchAfterInstall ==
  /\ LaunchBot
  /\ \/ exe /\ Launch
     \/ UNCHANGED <<bots, row>>
  /\ UNCHANGED <<started, faults>>

\* Processes that were launched go on, on a database that is gone.
Uninstall ==
  /\ RemoveAll
  /\ proc' = [proc EXCEPT !["service"] = "off"]
  /\ id' = [id EXCEPT !["service"] = None]
  /\ link' = [link EXCEPT !["service"] = FALSE]
  /\ orphans' = {p \in Launched : Running(p)}
  /\ started' = FALSE /\ row' = None
  /\ UNCHANGED faults

Machine ==
  \/ Extract \/ Enable \/ LaunchAfterInstall \/ Uninstall
  \/ RestartService \/ LaunchByHand \/ Login
  \/ \E p \in Processes : Bind(p) \/ Crash(p) \/ Register(p) \/ Lose(p) \/ UserSets(p)

Next == ((Form \/ Setup) /\ UNCHANGED <<bots, started, row, faults>>) \/ Machine

\* A process that runs goes on, the client's loop connects again, and the
\* service manager starts what failed.
Fairness ==
  /\ WF_vars(RestartService)
  /\ \A p \in Processes : WF_vars(Bind(p)) /\ WF_vars(Register(p))

Spec == Init /\ [][Next]_vars /\ Fairness

-----------------------------------------------------------------------------
(* Properties *)

\* What the user has set over the dashboard is kept by every start of a
\* process and every installation, until it is uninstalled (run.py:422-461).
SettingsSurvive ==
  [][row = User /\ row' # User => env' = None]_vars

\* No process of an installation that was removed or replaced runs on.
NoLeftovers == \A p \in Processes : Running(p) => p \notin orphans /\ id[p] = env

\* A bot whose service has been started and stays installed is up again and
\* again, whichever process got the port first and however they crash, unless
\* one of an earlier installation keeps the port (config_writer.py:282-301,
\* local_api and run.py:1117-1130).
BotComesBack ==
  <>[](started /\ exe /\ env # None /\ NoLeftovers)
    => []<>(\E p \in Processes : proc[p] = "up")

\* ... and, if its password is known to the web application, sooner or later,
\* however often its processes replace each other at the relay, the one that is
\* up is connected under the identity in .env (relay_client.py:70-103).
BotIsReachable ==
  <>[](started /\ exe /\ env # None /\ password /\ NoLeftovers)
    => []<>(\E p \in Processes : proc[p] = "up" /\ link[p] /\ id[p] = env)
=============================================================================
