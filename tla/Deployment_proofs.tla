--------------------------- MODULE Deployment_proofs ---------------------------
(***************************************************************************)
(* Two promises of the installation, for any number of checks, faults,     *)
(* installations and wrong fields: what is installed has been validated,   *)
(* and no start of a process overwrites a setting of the user.             *)
(***************************************************************************)
EXTENDS Deployment, TLAPS

\* The page shows step 9 exactly while it no longer shows the form.
FormShown == step = 9 <=> phase # "form"

\* Until the page is touched too early, the steps behind the one shown are
\* right, and the only answer on its way is one for the step shown.
StepsBehind == \A s \in Validated : s < step => s \notin wrong

AnswerIsForThisStep ==
  inflight # 0 => inflight = 1 /\ step \in Asked /\ step \notin wrong

Unhurried == StepsBehind /\ AnswerIsForThisStep /\ collected = {}

PageInv == FormShown /\ (~hurried => Unhurried)

IInv == TypeOK /\ PageInv

\* What PageInv reads, and what the bots' types read.
shown == <<page, phase>>

BotsTypeOK ==
  /\ proc \in [Processes -> {"off", "waiting", "starting", "up"}]
  /\ id \in [Processes -> 0..MaxChecks]
  /\ link \in [Processes -> BOOLEAN] /\ orphans \subseteq Processes

StartedTypeOK == started \in BOOLEAN

RowTypeOK == row \in 0..User

FaultsTypeOK == faults \in 0..MaxFaults

PageTypeOK ==
  /\ step \in 1..9 /\ wrong \subseteq Validated /\ inflight \in 0..MaxInflight
  /\ hurried \in BOOLEAN /\ phase \in Phases /\ collected \subseteq Validated
  /\ mistakes \in 0..MaxWrong

DiskTypeOK ==
  /\ bot_id \in 0..MaxChecks /\ env \in 0..MaxChecks
  /\ checks \in 0..MaxChecks /\ installs \in 0..MaxInstalls
  /\ config \in 0..MaxInstalls
  /\ exe \in BOOLEAN /\ registered \in BOOLEAN /\ password \in BOOLEAN

LEMMA TypesByPart ==
  TypeOK <=> /\ PageTypeOK /\ DiskTypeOK /\ BotsTypeOK /\ RowTypeOK
             /\ FaultsTypeOK /\ StartedTypeOK
BY DEF TypeOK, WizardTypeOK, PageTypeOK, DiskTypeOK, BotsTypeOK, RowTypeOK,
       FaultsTypeOK, StartedTypeOK

LEMMA Bounds ==
  /\ MaxChecks \in Nat /\ MaxInstalls \in Nat /\ MaxWrong \in Nat
  /\ MaxInflight \in Nat /\ MaxFaults \in Nat
BY WizardAssumption, FaultsAssumption

LEMMA InitInv == Init => IInv
<1> SUFFICES ASSUME Init PROVE IInv
  OBVIOUS
<1>1. PageTypeOK /\ DiskTypeOK /\ RowTypeOK /\ FaultsTypeOK /\ StartedTypeOK
  <2>1. PageTypeOK
    <3>1. step \in 1..9 /\ inflight \in 0..MaxInflight /\ mistakes \in 0..MaxWrong
      BY Bounds DEF Init, WizardInit
    <3>2. wrong \subseteq Validated /\ collected \subseteq Validated /\ phase \in Phases
      BY DEF Init, WizardInit, Validated, Phases
    <3>3. hurried \in BOOLEAN
      BY DEF Init, WizardInit
    <3>4. QED
      BY <3>1, <3>2, <3>3 DEF PageTypeOK
  <2>2. DiskTypeOK
    <3>1. /\ bot_id \in 0..MaxChecks /\ env \in 0..MaxChecks /\ checks \in 0..MaxChecks
          /\ installs \in 0..MaxInstalls /\ config \in 0..MaxInstalls
      BY Bounds DEF Init, WizardInit, None
    <3>2. exe \in BOOLEAN /\ registered \in BOOLEAN /\ password \in BOOLEAN
      BY DEF Init, WizardInit
    <3>3. QED
      BY <3>1, <3>2 DEF DiskTypeOK
  <2>3. RowTypeOK /\ FaultsTypeOK
    BY Bounds DEF Init, RowTypeOK, FaultsTypeOK, User, None
  <2>4. StartedTypeOK
    BY DEF Init, StartedTypeOK
  <2>5. QED
    BY <2>1, <2>2, <2>3, <2>4
<1>2. BotsTypeOK
  BY Bounds DEF Init, BotsTypeOK, None
<1>3. PageInv
  BY DEF Init, WizardInit, PageInv, FormShown, Unhurried, StepsBehind,
         AnswerIsForThisStep, Validated
<1>4. QED
  BY <1>1, <1>2, <1>3, TypesByPart DEF IInv

-----------------------------------------------------------------------------
(* The page *)

LEMMA Touching ==
  ASSUME PageTypeOK, Touch
  PROVE  hurried' \in BOOLEAN /\ (~hurried' => ~hurried /\ inflight = 0)
<1> DEFINE busy == inflight > 0
<1>1. hurried' = (hurried \/ busy) /\ hurried \in BOOLEAN
  BY DEF Touch, PageTypeOK
<1>2. ~busy => inflight = 0
  BY Bounds DEF PageTypeOK
<1> HIDE DEF busy
<1>3. hurried' \in BOOLEAN /\ (~hurried' => ~hurried /\ ~busy)
  BY <1>1, Zenon
<1>4. QED
  BY <1>2, <1>3

\* The wizard's steps that move the page, each with what it does to PageInv.
LEMMA FormInv ==
  ASSUME PageTypeOK, PageInv, Form
  PROVE  PageTypeOK' /\ PageInv'
<1> USE DEF PageTypeOK, PageInv, FormShown, page
<1>1. CASE Edit
  <2> USE <1>1, Touching DEF Edit
  <2>1. PageTypeOK'
    <3>1. wrong' \subseteq Validated
      OBVIOUS
    <3>2. mistakes' \in 0..MaxWrong
      BY Bounds
    <3>3. QED
      BY <3>1, <3>2
  <2>2. FormShown'
    OBVIOUS
  <2>3. ASSUME ~hurried' PROVE Unhurried'
    <3>1. ~hurried /\ inflight = 0
      BY <2>3, Bounds
    <3>2. QED
      BY <3>1 DEF Unhurried, StepsBehind, AnswerIsForThisStep, Validated
  <2>4. QED
    BY <2>1, <2>2, <2>3
<1>2. CASE Ask
  <2> USE <1>2, Touching DEF Ask
  <2>1. PageTypeOK'
    BY Bounds
  <2>2. FormShown'
    OBVIOUS
  <2>3. ASSUME ~hurried' PROVE Unhurried'
    <3>1. ~hurried /\ inflight = 0
      BY <2>3, Bounds
    <3>2. QED
      BY <3>1 DEF Unhurried, StepsBehind, AnswerIsForThisStep
  <2>4. QED
    BY <2>1, <2>2, <2>3
<1>3. CASE Answered
  <2> USE <1>3 DEF Answered, ShowNext, collectState
  <2>1. PageTypeOK'
    BY Bounds DEF Phases
  <2>2. FormShown'
    OBVIOUS
  <2>3. ASSUME ~hurried' PROVE Unhurried'
    <3>1. ~hurried /\ inflight = 1 /\ step \in Asked /\ step \notin wrong
      BY <2>3 DEF Unhurried, AnswerIsForThisStep
    <3>2. inflight' = 0 /\ AnswerIsForThisStep'
      BY <3>1 DEF AnswerIsForThisStep
    <3>3. step' = step + 1 /\ StepsBehind'
      BY <3>1 DEF Unhurried, StepsBehind, Asked, Validated
    <3>4. step = 8 => wrong = {}
      BY <3>1 DEF Unhurried, StepsBehind, Validated
    <3>5. collected' = {}
      BY <3>1, <3>4 DEF Unhurried, Asked
    <3>6. QED
      BY <3>2, <3>3, <3>5 DEF Unhurried
  <2>4. QED
    BY <2>1, <2>2, <2>3
<1>4. CASE MoveOn
  <2> USE <1>4, Touching DEF MoveOn, ShowNext
  <2>1. step # 8 /\ step < 8
    BY DEF Asked
  <2>2. PageTypeOK'
    BY <2>1
  <2>3. FormShown'
    BY <2>1
  <2>4. ASSUME ~hurried' PROVE Unhurried'
    <3>1. ~hurried /\ inflight = 0
      BY <2>4, Bounds
    <3>2. QED
      <4>1. step' = step + 1 /\ wrong' = wrong /\ inflight' = 0 /\ collected' = {}
        BY <3>1, <2>1 DEF Unhurried
      <4>2. StepsBehind'
        BY <3>1, <4>1 DEF Unhurried, StepsBehind, Validated
      <4>3. QED
        BY <4>1, <4>2 DEF Unhurried, AnswerIsForThisStep
  <2>5. QED
    BY <2>2, <2>3, <2>4
<1>5. CASE Back
  <2> USE <1>5, Touching DEF Back
  <2>1. PageTypeOK'
    BY DEF Phases
  <2>2. FormShown'
    OBVIOUS
  <2>3. ASSUME ~hurried' PROVE Unhurried'
    <3>1. ~hurried /\ inflight = 0
      BY <2>3, Bounds
    <3>2. QED
      BY <3>1 DEF Unhurried, StepsBehind, AnswerIsForThisStep, Validated
  <2>4. QED
    BY <2>1, <2>2, <2>3
<1>6. CASE Reopen
  <2>1. /\ step' = 1 /\ wrong' = {1, 2, 3} /\ inflight' = 0 /\ hurried' = FALSE
        /\ collected' = {} /\ phase' = "form" /\ mistakes' = mistakes
    BY <1>6 DEF Reopen, OpenPage
  <2>2. PageTypeOK' /\ FormShown'
    <3>1. hurried' \in BOOLEAN
      BY <2>1
    <3>2. step' \in 1..9 /\ inflight' \in 0..MaxInflight /\ mistakes' \in 0..MaxWrong
      BY <2>1, Bounds
    <3>3. wrong' \subseteq Validated /\ collected' \subseteq Validated /\ phase' \in Phases
      BY <2>1 DEF Validated, Phases
    <3>4. FormShown'
      BY <2>1
    <3>5. QED
      BY <3>1, <3>2, <3>3, <3>4
  <2>3. Unhurried'
    BY <2>1 DEF Unhurried, StepsBehind, AnswerIsForThisStep, Validated
  <2>4. QED
    BY <2>2, <2>3
<1>7. QED
  BY <1>1, <1>2, <1>3, <1>4, <1>5, <1>6 DEF Form

\* After step 9 is shown the page rests until the user goes back or reopens it.
LEMMA Installing ==
  ASSUME PageTypeOK, PageInv, UNCHANGED page, phase # "form",
         phase' \in Phases \ {"form"}
  PROVE  PageTypeOK' /\ PageInv'
BY DEF PageTypeOK, PageInv, FormShown, page, Unhurried, StepsBehind,
       AnswerIsForThisStep

LEMMA PageRests ==
  ASSUME PageTypeOK, PageInv, UNCHANGED shown
  PROVE  PageTypeOK' /\ PageInv'
BY DEF PageTypeOK, PageInv, FormShown, shown, page, Unhurried, StepsBehind,
       AnswerIsForThisStep

-----------------------------------------------------------------------------
(* The installation *)

LEMMA FormDisk == ASSUME DiskTypeOK, Form PROVE DiskTypeOK'
BY Bounds DEF Form, Edit, Ask, Answered, MoveOn, Back, Reopen, OpenPage, DiskTypeOK,
              counters, files, None

LEMMA SetupInv ==
  ASSUME PageTypeOK, PageInv, DiskTypeOK, Setup
  PROVE  PageTypeOK' /\ PageInv' /\ DiskTypeOK'
<1>1. CASE RegisterPassword
  BY <1>1, PageRests DEF RegisterPassword, shown, DiskTypeOK, counters, files
<1>2. CASE CheckRelay
  <2>1. PageTypeOK' /\ PageInv'
    BY <1>2, Installing DEF CheckRelay, Phases
  <2>2. DiskTypeOK'
    BY <1>2, Bounds DEF CheckRelay, NewId, DiskTypeOK, files
  <2>3. QED
    BY <2>1, <2>2
<1>3. CASE Retry
  <2>1. PageTypeOK' /\ PageInv'
    BY <1>3, Installing DEF Retry, Phases
  <2>2. DiskTypeOK'
    BY <1>3 DEF Retry, DiskTypeOK, files, counters
  <2>3. QED
    BY <2>1, <2>2
<1>4. CASE StartInstall
  <2>1. PageTypeOK' /\ PageInv'
    BY <1>4, Installing DEF StartInstall, Phases
  <2>2. DiskTypeOK'
    BY <1>4, Bounds DEF StartInstall, DiskTypeOK, files
  <2>3. QED
    BY <2>1, <2>2
<1>5. CASE WriteEnv
  <2>1. PageTypeOK' /\ PageInv'
    BY <1>5, Installing DEF WriteEnv, Break, Phases
  <2>2. DiskTypeOK'
    BY <1>5 DEF WriteEnv, Break, DiskTypeOK, files, counters
  <2>3. QED
    BY <2>1, <2>2
<1>6. CASE WriteConfig
  <2>1. PageTypeOK' /\ PageInv'
    BY <1>6, Installing DEF WriteConfig, Break, Phases
  <2>2. DiskTypeOK'
    BY <1>6 DEF WriteConfig, Break, DiskTypeOK, files, counters
  <2>3. QED
    BY <2>1, <2>2
<1>7. CASE SetPassword
  <2>1. PageTypeOK' /\ PageInv'
    BY <1>7, Installing DEF SetPassword, Break, Phases
  <2>2. DiskTypeOK'
    BY <1>7 DEF SetPassword, Break, DiskTypeOK, files, counters
  <2>3. QED
    BY <2>1, <2>2
<1>8. QED
  BY <1>1, <1>2, <1>3, <1>4, <1>5, <1>6, <1>7 DEF Setup

-----------------------------------------------------------------------------
(* The processes *)

\* The database holds a setting of the installer, of the user, or none, and a
\* process that starts keeps the one it finds.
LEMMA StartKeepsRow ==
  ASSUME DiskTypeOK, RowTypeOK, NEW p \in Processes, Start(p)
  PROVE  RowTypeOK' /\ (row = User => row' = User)
BY Bounds DEF Start, Migrate, RowTypeOK, DiskTypeOK, User, None

LEMMA StartBots ==
  ASSUME DiskTypeOK, BotsTypeOK, NEW p \in Processes, Start(p)
  PROVE  BotsTypeOK'
BY DEF Start, Exited, BotsTypeOK, DiskTypeOK

LEMMA ExitBots ==
  ASSUME BotsTypeOK, NEW p \in Processes, Exit(p)
  PROVE  BotsTypeOK'
BY Bounds DEF Exit, Exited, BotsTypeOK, None

LEMMA BotsRest == ASSUME BotsTypeOK, UNCHANGED bots PROVE BotsTypeOK'
BY DEF BotsTypeOK, bots

LEMMA WizardRests ==
  ASSUME PageTypeOK, PageInv, DiskTypeOK, UNCHANGED wizard_vars
  PROVE  PageTypeOK' /\ PageInv' /\ DiskTypeOK'
<1>1. UNCHANGED shown
  BY DEF wizard_vars, shown
<1>2. DiskTypeOK'
  BY DEF wizard_vars, counters, files, DiskTypeOK
<1>3. QED
  BY <1>1, <1>2, PageRests

\* The steps of one process: nothing but the process, its connection, the
\* number of faults and the setting the user changes.
LEMMA ProcessInv ==
  ASSUME BotsTypeOK, RowTypeOK, FaultsTypeOK, NEW p \in Processes,
         Bind(p) \/ Crash(p) \/ Register(p) \/ Lose(p) \/ UserSets(p)
  PROVE  /\ BotsTypeOK' /\ RowTypeOK' /\ FaultsTypeOK'
         /\ UNCHANGED <<wizard_vars, started>>
         /\ row = User => row' = User
<1>1. CASE Bind(p)
  <2>1. BotsTypeOK'
    <3>1. CASE Exit(p)
      BY <3>1, ExitBots
    <3>2. CASE proc' = [proc EXCEPT ![p] = "up"] /\ UNCHANGED <<id, link, orphans>>
      BY <3>2 DEF BotsTypeOK
    <3>3. QED
      BY <1>1, <3>1, <3>2 DEF Bind
  <2>2. QED
    BY <1>1, <2>1 DEF Bind, RowTypeOK, FaultsTypeOK
<1>2. CASE Crash(p)
  <2>1. BotsTypeOK'
    BY <1>2, ExitBots DEF Crash
  <2>2. QED
    BY <1>2, <2>1, Bounds DEF Crash, Fault, RowTypeOK, FaultsTypeOK
<1>3. CASE Register(p)
  <2>1. link' \in [Processes -> BOOLEAN]
    BY <1>3 DEF Register
  <2>2. QED
    BY <1>3, <2>1 DEF Register, BotsTypeOK, RowTypeOK, FaultsTypeOK
<1>4. CASE Lose(p)
  BY <1>4, Bounds DEF Lose, Fault, BotsTypeOK, RowTypeOK, FaultsTypeOK
<1>5. CASE UserSets(p)
  <2>1. BotsTypeOK'
    BY <1>5, BotsRest DEF UserSets
  <2>2. QED
    BY <1>5, <2>1, Bounds DEF UserSets, RowTypeOK, FaultsTypeOK, User
<1>6. QED
  BY <1>1, <1>2, <1>3, <1>4, <1>5

LEMMA LaunchStarts == ASSUME Launch PROVE \E p \in Processes : Start(p)
<1>1. (CHOOSE p \in Free : TRUE) \in Free
  BY DEF Launch
<1>2. QED
  BY <1>1 DEF Launch, Free, Processes

LEMMA StartsInv ==
  ASSUME BotsTypeOK, RowTypeOK, DiskTypeOK, FaultsTypeOK, StartedTypeOK,
         RestartService \/ LaunchByHand \/ Login
  PROVE  /\ BotsTypeOK' /\ RowTypeOK' /\ FaultsTypeOK' /\ StartedTypeOK'
         /\ UNCHANGED wizard_vars
         /\ row = User => row' = User
<1>1. CASE RestartService \/ LaunchByHand
  <2>1. PICK p \in Processes : Start(p)
    BY <1>1, LaunchStarts DEF RestartService, LaunchByHand, Processes
  <2>2. BotsTypeOK' /\ RowTypeOK' /\ (row = User => row' = User)
    BY <2>1, StartBots, StartKeepsRow
  <2>3. QED
    BY <1>1, <2>2 DEF RestartService, LaunchByHand, FaultsTypeOK, StartedTypeOK
<1>2. CASE Login
  <2>1. BotsTypeOK'
    BY <1>2, Bounds DEF Login, BotsTypeOK, None
  <2>2. StartedTypeOK'
    BY <1>2 DEF Login, StartedTypeOK, DiskTypeOK
  <2>3. QED
    BY <1>2, <2>1, <2>2, Bounds DEF Login, Fault, RowTypeOK, FaultsTypeOK
<1>3. QED
  BY <1>1, <1>2

-----------------------------------------------------------------------------
(* The installer and the machine *)

LEMMA ExtractInv ==
  ASSUME PageTypeOK, PageInv, DiskTypeOK, Extract
  PROVE  /\ PageTypeOK' /\ PageInv' /\ DiskTypeOK'
         /\ UNCHANGED <<bots, started, row, faults>>
<1> DEFINE in_use == \E p \in Processes \ orphans : Running(p)
<1>1. ExtractExe(in_use) /\ UNCHANGED <<bots, started, row, faults>>
  BY DEF Extract
<1> HIDE DEF in_use
<1>2. PageTypeOK' /\ PageInv'
  BY <1>1, Installing DEF ExtractExe, Break, Phases
<1>3. DiskTypeOK'
  BY <1>1 DEF ExtractExe, Break, DiskTypeOK, counters, files
<1>4. QED
  BY <1>1, <1>2, <1>3

LEMMA StartedByInstall ==
  ASSUME PageTypeOK, PageInv, DiskTypeOK, BotsTypeOK, RowTypeOK, StartedTypeOK,
         Enable \/ LaunchAfterInstall
  PROVE  /\ PageTypeOK' /\ PageInv' /\ DiskTypeOK' /\ BotsTypeOK' /\ RowTypeOK'
         /\ StartedTypeOK'
         /\ UNCHANGED faults
         /\ row = User => row' = User
<1>1. /\ UNCHANGED <<page, bot_id, counters, files, password, faults>>
      /\ phase \in {"autostart", "launch"} /\ phase' \in {"launch", "done"}
      /\ registered' \in BOOLEAN /\ StartedTypeOK'
  BY DEF Enable, LaunchAfterInstall, Autostart, LaunchBot, DiskTypeOK, StartedTypeOK
<1>2. PageTypeOK' /\ PageInv'
  BY <1>1, Installing DEF Phases
<1>3. DiskTypeOK'
  BY <1>1 DEF DiskTypeOK, counters, files
<1>4. UNCHANGED <<bots, row>> \/ (\E p \in Processes : Start(p))
  BY LaunchStarts DEF Enable, LaunchAfterInstall, Processes
<1>5. BotsTypeOK' /\ RowTypeOK' /\ (row = User => row' = User)
  BY <1>4, StartBots, StartKeepsRow, BotsRest DEF RowTypeOK
<1>6. QED
  BY <1>1, <1>2, <1>3, <1>5

LEMMA UninstallInv ==
  ASSUME PageTypeOK, PageInv, DiskTypeOK, BotsTypeOK, Uninstall
  PROVE  /\ PageTypeOK' /\ PageInv' /\ DiskTypeOK' /\ BotsTypeOK' /\ RowTypeOK'
         /\ UNCHANGED faults /\ StartedTypeOK'
         /\ env' = None
<1>1. PageTypeOK' /\ PageInv'
  BY PageRests DEF Uninstall, RemoveAll, shown
<1>2. DiskTypeOK' /\ env' = None
  <2>1. /\ env' = 0 /\ config' = 0 /\ exe' = FALSE /\ registered' = FALSE
        /\ UNCHANGED <<bot_id, checks, installs, password>>
    BY DEF Uninstall, RemoveAll, counters, None
  <2>2. QED
    <3>1. env' \in 0..MaxChecks /\ config' \in 0..MaxInstalls
      BY <2>1, Bounds
    <3>2. exe' \in BOOLEAN /\ registered' \in BOOLEAN
      BY <2>1
    <3>3. QED
      BY <2>1, <3>1, <3>2 DEF DiskTypeOK, None
<1>3. BotsTypeOK'
  BY Bounds DEF Uninstall, BotsTypeOK, Processes, None
<1>4. RowTypeOK' /\ UNCHANGED faults /\ StartedTypeOK'
  <2>1. started' = FALSE /\ row' = None /\ UNCHANGED faults
    BY DEF Uninstall
  <2>2. StartedTypeOK'
    BY <2>1 DEF StartedTypeOK
  <2>3. RowTypeOK'
    BY <2>1, Bounds DEF RowTypeOK, User, None
  <2>4. QED
    BY <2>1, <2>2, <2>3
<1>5. QED
  BY <1>1, <1>2, <1>3, <1>4

-----------------------------------------------------------------------------
(* Every step *)

\* The step lemma of both theorems: the invariant, and what becomes of a
\* setting of the user.
LEMMA StepInv ==
  ASSUME IInv, [Next]_vars
  PROVE  IInv' /\ (row = User => row' = User \/ env' = None)
<1> DEFINE Kept == row = User => row' = User \/ env' = None
<1>a. /\ PageTypeOK /\ DiskTypeOK /\ BotsTypeOK /\ RowTypeOK
      /\ FaultsTypeOK /\ StartedTypeOK /\ PageInv
  BY TypesByPart DEF IInv
<1>b. SUFFICES /\ PageTypeOK' /\ DiskTypeOK' /\ BotsTypeOK' /\ RowTypeOK'
               /\ FaultsTypeOK' /\ StartedTypeOK' /\ PageInv' /\ Kept
  <2>1. TypeOK' <=> /\ PageTypeOK' /\ DiskTypeOK' /\ BotsTypeOK' /\ RowTypeOK'
                    /\ FaultsTypeOK' /\ StartedTypeOK'
    BY TypesByPart, PTL
  <2>2. QED
    BY <2>1 DEF IInv
<1>1. CASE UNCHANGED vars
  <2>1. UNCHANGED wizard_vars /\ UNCHANGED bots /\ row' = row /\ faults' = faults /\ started' = started
    BY <1>1 DEF vars
  <2>2. QED
    BY <2>1, <1>a, WizardRests, BotsRest DEF RowTypeOK, FaultsTypeOK, StartedTypeOK
<1>2. CASE (Form \/ Setup) /\ UNCHANGED <<bots, started, row, faults>>
  <2>1. PageTypeOK' /\ PageInv' /\ DiskTypeOK'
    BY <1>2, <1>a, FormInv, FormDisk, SetupInv
  <2>2. BotsTypeOK'
    BY <1>2, <1>a, BotsRest
  <2>3. QED
    BY <1>2, <1>a, <2>1, <2>2 DEF RowTypeOK, FaultsTypeOK, StartedTypeOK
<1>3. CASE Extract
  BY <1>3, <1>a, ExtractInv, BotsRest DEF RowTypeOK, FaultsTypeOK, StartedTypeOK
<1>4. CASE Enable \/ LaunchAfterInstall
  BY <1>4, <1>a, StartedByInstall DEF FaultsTypeOK
<1>5. CASE Uninstall
  BY <1>5, <1>a, UninstallInv DEF FaultsTypeOK
<1>6. CASE RestartService \/ LaunchByHand \/ Login
  BY <1>6, <1>a, StartsInv, WizardRests
<1>7. CASE \E p \in Processes :
             Bind(p) \/ Crash(p) \/ Register(p) \/ Lose(p) \/ UserSets(p)
  BY <1>7, <1>a, ProcessInv, WizardRests DEF StartedTypeOK
<1>8. QED
  BY <1>1, <1>2, <1>3, <1>4, <1>5, <1>6, <1>7 DEF Next, Machine

LEMMA Invariance == Spec => []IInv
<1>1. IInv /\ [Next]_vars => IInv'
  BY StepInv
<1>2. QED
  BY InitInv, <1>1, PTL DEF Spec

\* The page, the files, the processes and the database keep the types the code
\* gives them, through every order of steps, faults and installations.
THEOREM TypeCorrect == Spec => []TypeOK
<1>1. IInv => TypeOK
  BY DEF IInv
<1>2. QED
  BY Invariance, <1>1, PTL

\* Whatever way the user goes back and forth, what collectState read passed its
\* validation, as long as the page is not touched while an answer is on its way
\* (html_wizard.py:595-606).
THEOREM InstalledIsValid == Spec => []CollectedIsValid
<1>1. IInv => CollectedIsValid
  BY DEF IInv, PageInv, Unhurried, CollectedIsValid
<1>2. QED
  BY Invariance, <1>1, PTL

\* Only an uninstallation loses a setting made over the dashboard: no start of
\* any process takes config.json over it (run.py:422-461).
THEOREM UserSettingsSurvive == Spec => SettingsSurvive
<1>1. IInv /\ [Next]_vars => [row = User /\ row' # User => env' = None]_vars
  BY StepInv
<1>2. QED
  BY Invariance, <1>1, PTL DEF Spec, SettingsSurvive
=============================================================================
