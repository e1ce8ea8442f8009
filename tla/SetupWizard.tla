----------------------------- MODULE SetupWizard -----------------------------
(***************************************************************************)
(* The setup wizard: the page's nine steps and their validations           *)
(* (installer/wizard/html_wizard.py, validator.py), the check of the relay *)
(* (reachability.py) and the installation (server.py, config_writer.py).   *)
(*                                                                         *)
(* A validation is a request to the wizard's server, and the page stays    *)
(* live while it is on its way.  An installation is one call of the server *)
(* made of steps that can raise.                                           *)
(*                                                                         *)
(* Abstractions.  A step's fields are right or wrong; the password that is *)
(* right is the same in every installation.  A bot id is the               *)
(* number of the check that drew it, and the settings of config.json are   *)
(* the number of the installation that wrote them.  A file is written      *)
(* whole or not at all, and an uninstallation goes through.  The web       *)
(* application and the operating system are external.                      *)
(***************************************************************************)
EXTENDS Integers, FiniteSets

CONSTANTS MaxChecks,    \* bound of the model: checks of the relay
          MaxInstalls,  \* bound of the model: installations
          MaxWrong,     \* bound of the model: fields filled in wrongly
          MaxInflight   \* bound of the model: answers on their way

ASSUME WizardAssumption == {MaxChecks, MaxInstalls, MaxWrong, MaxInflight} \subseteq Nat

None == 0   \* no such file, no id

VARIABLES step,      \* currentStep
          wrong,     \* the steps whose fields hold a wrong value
          inflight,  \* validations that will pass and have not returned
          hurried,   \* the page was touched while one was on its way
          phase,     \* what step 9 shows, or where /api/install is
          collected, \* the wrong fields that collectState read
          bot_id,    \* state.bot_id
          checks, installs, mistakes,  \* so far (bounds)
          env,       \* the bot id in .env, or None
          config,    \* the settings in config.json, or None
          exe,       \* whether the bot's executable is in place
          registered,  \* whether the service is enabled
          password     \* whether the relay accepts the bot's proof

page == <<step, wrong, inflight, hurried, collected, mistakes>>
counters == <<checks, installs>>
files == <<env, config, exe>>
wizard_vars == <<page, phase, bot_id, counters, files, registered, password>>

\* Steps whose fields validateStep looks at, and those it asks the server about.
Validated == {1, 2, 3, 6, 8}
Asked == {1, 2, 6, 8}

Phases == {"form", "connecting", "checked", "env", "config", "password",
           "exe", "autostart", "launch", "done", "broken"}

WizardTypeOK ==
  /\ step \in 1..9 /\ wrong \subseteq Validated /\ inflight \in 0..MaxInflight
  /\ hurried \in BOOLEAN /\ phase \in Phases /\ collected \subseteq Validated
  /\ bot_id \in 0..MaxChecks /\ env \in 0..MaxChecks
  /\ checks \in 0..MaxChecks /\ installs \in 0..MaxInstalls
  /\ config \in 0..MaxInstalls /\ mistakes \in 0..MaxWrong
  /\ exe \in BOOLEAN /\ registered \in BOOLEAN /\ password \in BOOLEAN

\* The fields begin empty or with defaults; those that begin empty are wrong.
OpenPage ==
  /\ step' = 1 /\ wrong' = {1, 2, 3} /\ inflight' = 0 /\ hurried' = FALSE
  /\ collected' = {} /\ phase' = "form" /\ bot_id' = None

WizardInit ==
  /\ step = 1 /\ wrong = {1, 2, 3} /\ inflight = 0 /\ hurried = FALSE
  /\ collected = {} /\ phase = "form" /\ bot_id = None
  /\ checks = 0 /\ installs = 0 /\ mistakes = 0
  /\ env = None /\ config = None /\ exe = FALSE
  /\ registered = FALSE /\ password = FALSE

-----------------------------------------------------------------------------
(* The form *)

Touch == hurried' = (hurried \/ inflight > 0)

\* The user fills in the fields of the step that is shown.
Edit ==
  /\ phase = "form" /\ step \in Validated
  /\ \/ step \in wrong /\ wrong' = wrong \ {step} /\ UNCHANGED mistakes
     \/ /\ step \notin wrong /\ wrong' = wrong \cup {step}
        /\ mistakes < MaxWrong /\ mistakes' = mistakes + 1
  /\ Touch
  /\ UNCHANGED <<step, inflight, collected, phase, bot_id, counters, files,
                 registered, password>>

\* nextStep asks about the step that is shown.  A wrong field is shown as such;
\* otherwise the page moves on when the answer arrives, from wherever it is by
\* then.
Ask ==
  /\ phase = "form" /\ step \in Asked /\ step \notin wrong
  /\ inflight < MaxInflight
  /\ inflight' = inflight + 1
  /\ Touch
  /\ UNCHANGED <<step, wrong, collected, mistakes, phase, bot_id, counters,
                 files, registered, password>>

collectState == collected' = wrong

ShowNext ==
  IF step = 8
  THEN collectState /\ step' = 9 /\ phase' = "connecting"
  ELSE /\ step' = step + 1 /\ UNCHANGED <<collected, phase>>

Answered ==
  /\ inflight > 0
  /\ inflight' = inflight - 1
  /\ IF step < 9 THEN ShowNext ELSE UNCHANGED <<step, collected, phase>>
  /\ UNCHANGED <<wrong, hurried, mistakes, bot_id, counters, files, registered, password>>

\* The other steps are validated by the page itself, at once.
MoveOnUnchecked ==
  /\ phase = "form" /\ step \notin Asked
  /\ ShowNext
  /\ Touch
  /\ UNCHANGED <<wrong, inflight, mistakes, bot_id, counters, files, registered, password>>
MoveOn ==
  /\ phase = "form" /\ step \notin Asked /\ step \notin wrong
  /\ ShowNext
  /\ Touch
  /\ UNCHANGED <<wrong, inflight, mistakes, bot_id, counters, files, registered, password>>

\* prevStep, of the form and of a failed check or installation.
Back ==
  /\ phase \in {"form", "checked", "broken"} /\ step > 1
  /\ step' = step - 1 /\ phase' = "form"
  /\ Touch
  /\ UNCHANGED <<wrong, inflight, collected, mistakes, bot_id, counters, files,
                 registered, password>>

\* The user opens the wizard again.
Reopen ==
  /\ phase \in {"done", "broken"} /\ installs < MaxInstalls
  /\ OpenPage
  /\ UNCHANGED <<mistakes, counters, files, registered, password>>

-----------------------------------------------------------------------------
(* Connecting and installing *)

\* The check draws a new id, registers it, and calls that success without
\* waiting for the relay's verdict.  The user installs either way, or retries.
NewId == checks + 1
CheckRelay ==
  /\ phase = "connecting" /\ checks < MaxChecks
  /\ checks' = checks + 1
  /\ bot_id' = NewId
  /\ phase' = "checked"
  /\ UNCHANGED <<page, installs, files, registered, password>>

Retry ==
  /\ phase = "checked" /\ checks < MaxChecks
  /\ phase' = "connecting"
  /\ UNCHANGED <<page, bot_id, counters, files, registered, password>>

StartInstall ==
  /\ phase = "checked" /\ installs < MaxInstalls
  /\ installs' = installs + 1
  /\ phase' = "env"
  /\ UNCHANGED <<page, bot_id, checks, files, registered, password>>

Break ==
  /\ phase' = "broken"
  /\ UNCHANGED <<page, bot_id, counters, files, registered, password>>

\* write_config: the secrets and the id first, then the settings.  Either file
\* may fail to be written; the settings do too when a number field came empty,
\* and leave the new id with the old settings.
WriteEnv ==
  /\ phase = "env"
  /\ \/ env' = bot_id /\ phase' = "config"
        /\ UNCHANGED <<page, bot_id, counters, config, exe, registered, password>>
     \/ Break

WriteConfig ==
  /\ phase = "config"
  /\ \/ config' = installs /\ phase' = "password"
        /\ UNCHANGED <<page, bot_id, counters, env, exe, registered, password>>
     \/ Break

\* A refusal or an unreachable web application is only printed; a time-out
\* while the answer is read is no URLError and ends the installation.
SetPassword ==
  /\ phase = "password"
  /\ \/ password' \in {password, TRUE} /\ phase' = "exe"
        /\ UNCHANGED <<page, bot_id, counters, files, registered>>
     \/ Break

\* The executable is copied over the one in place, which the operating system
\* refuses while that one runs.  An installer that brings none goes on without.
ExtractExe(in_use) ==
  /\ phase = "exe"
  /\ \/ in_use /\ Break
     \/ /\ ~in_use /\ exe' = TRUE /\ phase' = "autostart"
        /\ UNCHANGED <<page, bot_id, counters, env, config, registered, password>>
     \/ /\ phase' = "autostart"
        /\ UNCHANGED <<page, bot_id, counters, files, registered, password>>

\* setup_autostart raises or not; what it raises is caught either way.
Autostart(enabled) ==
  /\ phase = "autostart"
  /\ registered' = (registered \/ enabled)
  /\ phase' = "launch"
  /\ UNCHANGED <<page, bot_id, counters, files, password>>

LaunchBot ==
  /\ phase = "launch"
  /\ phase' = "done"
  /\ UNCHANGED <<page, bot_id, counters, files, registered, password>>

\* The password can be registered from the dashboard later.
RegisterPassword ==
  /\ ~password /\ env # None
  /\ password' = TRUE
  /\ UNCHANGED <<page, phase, bot_id, counters, files, registered>>

\* POST /api/uninstall: the service is stopped and disabled, the directory
\* removed.
RemoveAll ==
  /\ phase \in {"done", "broken"}
  /\ env # None \/ registered
  /\ env' = None /\ config' = None /\ exe' = FALSE
  /\ registered' = FALSE
  /\ UNCHANGED <<page, phase, bot_id, counters, password>>

Form == Edit \/ Ask \/ Answered \/ MoveOn \/ Back \/ Reopen
Setup == CheckRelay \/ Retry \/ StartInstall \/ WriteEnv \/ WriteConfig
           \/ SetPassword \/ RegisterPassword

-----------------------------------------------------------------------------
(* Properties *)

\* Whatever way the user goes back and forth through the steps, the fields that
\* are installed have passed their validation, as long as nobody touches the
\* page while a validation is on its way (html_wizard.py:595-606: the step to
\* show next is read after the answer).
CollectedIsValid == hurried \/ collected = {}
=============================================================================
