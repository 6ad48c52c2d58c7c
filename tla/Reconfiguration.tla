--------------------------- MODULE Reconfiguration ---------------------------
(***************************************************************************)
(* How the launcher replaces config.env (launcher/.../Configuration/       *)
(* AtomicConfigurationStore.cs, Runtime/ReconfigurationCoordinator.cs and  *)
(* the tray that calls them, UI/TrayApplicationContext.cs): set-up, the    *)
(* Configure command with its rollback, Exit, and the end of the launcher  *)
(* between any two steps.                                                  *)
(*                                                                         *)
(* Every command runs on the UI thread, from one await to the next, and    *)
(* nothing keeps the user from clicking Configure or Exit while another    *)
(* command awaits.  What the tray keeps of a supervisor is the field       *)
(* `supervisor`; the supervisors themselves are modelled in BotSupervisor, *)
(* and here by what their callers see of them: the gate, the bot, and the  *)
(* answer to a start.  A click on Restart is, to the start it disturbs,    *)
(* one more way to fail.                                                   *)
(*                                                                         *)
(* The contents of a file are the number of the application that wrote it, *)
(* 0 for the configuration the user had before, or Missing.  The bot reads *)
(* config.env as it starts.  A continuation that was posted runs before    *)
(* what is posted later, and stopping a bot that runs takes a moment, so a *)
(* start that a stop answers continues before that stop ends.  A command   *)
(* whose stop ended goes on to its next start without another await that   *)
(* waits; closing the logs is assumed not to (the last lines of a bot that *)
(* was waited for are written by then).                                    *)
(*                                                                         *)
(* Nothing ties a bot to its launcher: it does not react to the end of its *)
(* input, and its process is in no job object.  The bots of a launcher     *)
(* that ends run on, out of reach of every later launch, and may hold the  *)
(* port; of them only that there may be some is modelled.                  *)
(*                                                                         *)
(* A definition whose name ends in _ is a faulty variant of the one after  *)
(* it; see GameRules.                                                      *)
(***************************************************************************)
EXTENDS Integers, Sequences

CONSTANTS
    MaxApplications,    \* bound on set-ups and Configures
    MaxLaunches,        \* bound on how often the launcher is started
    MaxFaults           \* bound on file operations, processes and bots that fail

ASSUME BoundsAssumption == {MaxApplications, MaxLaunches, MaxFaults} \subseteq Nat

Applications == 1 .. MaxApplications
Launch == 0
Exit == MaxApplications + 1
Commands == Launch .. Exit

Missing == -1
Contents == {Missing, 0} \union Applications
NoSupervisor == 0

VARIABLES
    config,         \* config.env
    backup,         \* config.env.rollback
    staged,         \* applications whose .candidate file exists
    field,          \* TrayApplicationContext.supervisor
    logs,           \* TrayApplicationContext.logs is open, and herald.log with it
    supervisors,    \* the supervisors of this launch, in order; runs is what a
                    \* bot that is up has read
    pc,             \* where each command is
    target,         \* the supervisor a command is stopping
    begun,          \* applications 1 .. begun have begun
    launches,       \* how often the launcher was started
    orphaned,       \* bots of launchers that ended may still run
    faults,
    before,         \* history: config.env when each application began
    overlapped,     \* history: the last one began while another was under way
    disturbed       \* history: in this launch one did, or a stop threw

files == <<config, backup, staged>>
fields == <<field, logs>>
tray == <<fields, supervisors>>
commands == <<pc, target>>
launched == <<launches, orphaned>>
history == <<before, overlapped, disturbed>>
vars == <<files, tray, commands, begun, launched, faults, history>>

Supervisor ==
    [gate : Seq(Commands), disposed : BOOLEAN, stopping : BOOLEAN,
     bot : {"none", "up", "down"}, runs : Contents,
     starter : Commands, answer : {"pending", "true", "false"},
     watch : {"on", "last", "off"}]

Places == {"idle", "setup", "staging", "stop", "stopped", "start", "undo",
           "undone", "restart", "recover", "succeeded", "failed", "threw"}
Over == {"idle", "succeeded", "failed", "threw"}

TypeOK ==
    /\ {config, backup} \subseteq Contents
    /\ staged \subseteq Applications
    /\ supervisors \in Seq(Supervisor)
    /\ field \in {NoSupervisor} \union DOMAIN supervisors
    /\ pc \in [Commands -> Places]
    /\ target \in [Commands -> {NoSupervisor} \union DOMAIN supervisors]
    /\ begun \in {0} \union Applications
    /\ launches \in 0 .. MaxLaunches
    /\ {logs, orphaned} \subseteq BOOLEAN
    /\ faults \in 0 .. MaxFaults
    /\ before \in [Applications -> Contents]
    /\ overlapped \in BOOLEAN /\ disturbed \in BOOLEAN

\* The launcher is not running; it was set up once, or never.
Init ==
    /\ config \in {Missing, 0} /\ backup = Missing /\ staged = {}
    /\ field = NoSupervisor /\ supervisors = <<>> /\ logs = FALSE
    /\ pc = [c \in Commands |-> "idle"]
    /\ target = [c \in Commands |-> NoSupervisor]
    /\ begun = 0 /\ launches = 0 /\ faults = 0 /\ orphaned = FALSE
    /\ before = [k \in Applications |-> Missing]
    /\ overlapped = FALSE /\ disturbed = FALSE

Running == pc[Launch] # "idle"

Fault == faults < MaxFaults /\ faults' = faults + 1

Go(c, place) == pc' = [pc EXCEPT ![c] = place]

\* The UI thread is not in the middle of another command.
Turn(c) == \A k \in Applications : pc[k] \in {"stopped", "undone"} => c = k

At(c, place) == pc[c] = place /\ Turn(c)

-----------------------------------------------------------------------------
\* The files (ConfigurationCandidate).

\* Activate's copy: without a config.env an old rollback file goes.
BackedUp_ == backup
BackedUp == config

Activated(k) ==
    /\ backup' = BackedUp
    /\ config' = k
    /\ staged' = staged \ {k}

\* The candidate and the rollback file are deleted, at a commit, a rollback of what
\* was not activated, and a replacement that fails.
Discarded(k) ==
    /\ staged' = staged \ {k}
    /\ backup' = Missing
    /\ UNCHANGED config

\* The rollback of what was activated.
Restored_(k) == Discarded(k)
Restored(k) ==
    /\ config' = backup
    /\ backup' = Missing
    /\ staged' = staged \ {k}

-----------------------------------------------------------------------------
\* StartRuntimeAsync, on top of these supervisors and with this config.env: a
\* new supervisor becomes the field and starts a bot.  EnvFileReader throws before
\* that without a configuration, and RotatingLogWriter while the logs are open: it
\* opens herald.log for itself.
NewSupervisor(c, content) ==
    [gate |-> <<>>, disposed |-> FALSE, stopping |-> FALSE, bot |-> "up",
     runs |-> content, starter |-> c, answer |-> "pending", watch |-> "on"]

StartThrows(content) == content = Missing \/ logs

StartRuntime(c, list, content, awaiting, failed) ==
    IF StartThrows(content)
      THEN supervisors' = list /\ Go(c, failed) /\ UNCHANGED fields
      ELSE /\ supervisors' = Append(list, NewSupervisor(c, content))
           /\ field' = Len(list) + 1 /\ logs' = TRUE
           /\ Go(c, awaiting)

\* The last start of the command is answered.
StartAnswered(c, answer) ==
    \E s \in DOMAIN supervisors :
        /\ supervisors[s].starter = c /\ supervisors[s].answer = answer
        /\ \A t \in DOMAIN supervisors : supervisors[t].starter = c => t <= s

-----------------------------------------------------------------------------
\* StopRuntimeAsync, and the DisposeAsync of Exit.

\* The command joins the gate of the supervisor in the field, if there is one.
Stop_(c, place, next) == Go(c, next) /\ UNCHANGED <<supervisors, target>>
Stop(c, place, next) ==
    IF field = NoSupervisor
      THEN Go(c, next) /\ UNCHANGED <<supervisors, target>>
      ELSE /\ supervisors' = [supervisors EXCEPT ![field].gate = Append(@, c)]
           /\ target' = [target EXCEPT ![c] = field]
           /\ Go(c, place)

HasGate(c) ==
    /\ Turn(c)
    /\ target[c] # NoSupervisor
    /\ supervisors[target[c]].gate # <<>>
    /\ Head(supervisors[target[c]].gate) = c

\* StopAsync as far as its first await: the pending start is answered and the
\* monitor cancelled.
StopBegins(c) ==
    LET s == target[c] IN
      /\ HasGate(c) /\ ~supervisors[s].stopping /\ supervisors[s].bot # "none"
      /\ supervisors' = [supervisors EXCEPT
                           ![s].stopping = TRUE, ![s].watch = "off",
                           ![s].answer = IF @ = "pending" THEN "false" ELSE @]
      /\ UNCHANGED <<files, fields, commands, begun, launched, faults, history>>

\* A start that the stop answered continues before that stop ends.
StartsContinued(s) ==
    LET c == supervisors[s].starter IN
      supervisors[s].answer # "pending" => pc[c] \notin {"start", "restart", "recover"}

\* After a DisposeAsync the gate knows only the waiter that its release has just
\* handed it to.
Disposed(supervisor) ==
    [supervisor EXCEPT !.gate = IF Len(@) = 1 THEN <<>> ELSE <<@[2]>>, !.disposed = TRUE,
                       !.stopping = FALSE, !.bot = "none", !.runs = Missing, !.watch = "off"]

\* StopRuntimeAsync empties the field, whatever it holds by then; Exit does not.
FieldAfterStop(c) == IF c = Exit THEN field ELSE NoSupervisor

AfterStop(c) ==
    CASE c = Exit -> "succeeded"
      [] c # Exit /\ pc[c] = "stop" -> "stopped"
      [] c # Exit /\ pc[c] = "undo" -> "undone"

\* There was no bot, or it exited, or fifteen seconds passed and it was
\* terminated.  The logs are closed.
StopEnds(c) ==
    LET s == target[c] IN
      /\ HasGate(c) /\ ~supervisors[s].disposed
      /\ supervisors[s].stopping \/ supervisors[s].bot = "none"
      /\ StartsContinued(s)
      /\ supervisors' = [supervisors EXCEPT ![s] = Disposed(@)]
      /\ field' = FieldAfterStop(c) /\ logs' = FALSE
      /\ target' = [target EXCEPT ![c] = NoSupervisor]
      /\ Go(c, AfterStop(c))
      /\ UNCHANGED <<files, begun, launched, faults, history>>

\* The gate was disposed while the command waited for it, or is disposed, or the
\* bot is down and the write to it throws.  The logs stay as they are.
StopThrows(c) ==
    /\ HasGate(c) /\ StartsContinued(target[c])
    /\ LET supervisor == supervisors[target[c]] IN
         supervisor.disposed \/ (supervisor.stopping /\ supervisor.bot = "down")
    /\ target' = [target EXCEPT ![c] = NoSupervisor]
    /\ disturbed' = TRUE
    /\ UNCHANGED <<begun, launched, before, overlapped>>

\* The supervisors after it.  A monitor in back-off may have been overtaken by the
\* stop that cancelled it, and start its bot all the same.
AfterThrow(c) ==
    LET watches == IF supervisors[target[c]].bot = "down" THEN {"off", "last"} ELSE {"off"} IN
      {[supervisors EXCEPT ![target[c]].gate = Tail(@), ![target[c]].stopping = FALSE,
                           ![target[c]].watch = watch] : watch \in watches}

-----------------------------------------------------------------------------
\* Configure (ApplyAsync).

Begin(k) ==
    /\ k = begun + 1 /\ k \in Applications
    /\ begun' = k
    /\ before' = [before EXCEPT ![k] = config]

\* The user confirms the dialog with valid values.
Configure(k) ==
    /\ pc[Launch] \in {"start", "succeeded"} /\ Turn(k)
    /\ Begin(k)
    /\ overlapped' = (\E other \in Applications : pc[other] \notin Over)
    /\ disturbed' = (disturbed \/ overlapped')
    /\ Go(k, "staging")
    /\ UNCHANGED <<files, tray, target, launched, faults>>

\* GenerateAsync or StageAsync throws; the candidate may have been begun.
StageFails(k) ==
    /\ At(k, "staging") /\ Fault
    /\ staged' \in {staged, staged \union {k}}
    /\ Go(k, "failed")
    /\ UNCHANGED <<config, backup, tray, target, begun, launched, history>>

Stages(k) ==
    /\ At(k, "staging")
    /\ staged' = staged \union {k}
    /\ Stop(k, "stop", "stopped")
    /\ UNCHANGED <<config, backup, fields, begun, launched, faults, history>>

\* The old bot is to be started again, with the configuration it had; it is not
\* when its logs are still open.
Recover(k, list) == StartRuntime(k, list, config, "recover", "failed")

FirstStopThrows(k) ==
    /\ pc[k] = "stop" /\ StopThrows(k)
    /\ Discarded(k)
    /\ \E list \in AfterThrow(k) : Recover(k, list)
    /\ UNCHANGED faults

\* The candidate becomes config.env and its bot is started.
Activates(k) ==
    /\ At(k, "stopped")
    /\ Activated(k)
    /\ StartRuntime(k, supervisors, k, "start", "failed")
    /\ UNCHANGED <<target, begun, launched, faults, history>>

CopyFails(k) ==
    /\ At(k, "stopped") /\ Fault
    /\ Discarded(k)
    /\ Recover(k, supervisors)
    /\ UNCHANGED <<target, begun, launched, history>>

\* The candidate is complete then, so its Rollback throws out of ApplyAsync and the
\* old bot is not started again.
ReplaceFails(k) ==
    /\ At(k, "stopped") /\ Fault
    /\ Discarded(k)
    /\ Go(k, "threw")
    /\ UNCHANGED <<tray, target, begun, launched, history>>

\* The start was answered with true.
Commits(k) ==
    /\ At(k, "start") /\ StartAnswered(k, "true")
    /\ Discarded(k)
    /\ Go(k, "succeeded")
    /\ UNCHANGED <<tray, target, begun, launched, faults, history>>

\* RollBackAsync begins: the start was not answered with true, or the commit throws.
StartFailed_(k) == FALSE
StartFailed(k) == StartAnswered(k, "false")

RollsBack(k) ==
    /\ At(k, "start")
    /\ \/ StartFailed(k) /\ UNCHANGED faults
       \/ StartAnswered(k, "true") /\ Fault
    /\ Stop(k, "undo", "undone")
    /\ UNCHANGED <<files, fields, begun, launched, history>>

Restores(k) ==
    /\ At(k, "undone")
    /\ Restored(k)
    /\ StartRuntime(k, supervisors, backup, "restart", "failed")
    /\ UNCHANGED <<target, begun, launched, faults, history>>

\* The file is put back although the candidate's bot could not be stopped, and no
\* bot is started then.
SecondStopThrows(k) ==
    /\ pc[k] = "undo" /\ StopThrows(k)
    /\ \/ Restored(k) /\ UNCHANGED faults
       \/ UNCHANGED files /\ Fault
    /\ supervisors' \in AfterThrow(k)
    /\ Go(k, "failed")
    /\ UNCHANGED fields

RollbackFails(k) ==
    /\ At(k, "undone") /\ Fault
    /\ Go(k, "failed")
    /\ UNCHANGED <<files, tray, target, begun, launched, history>>

\* The bot of a failed application has started or has not.
RestartReturns(k) ==
    /\ At(k, "restart") \/ At(k, "recover")
    /\ StartAnswered(k, "true") \/ StartAnswered(k, "false")
    /\ Go(k, "failed")
    /\ UNCHANGED <<files, tray, target, begun, launched, faults, history>>

ApplicationStep(k) ==
    \/ StageFails(k)
    \/ Stages(k)
    \/ FirstStopThrows(k)
    \/ Activates(k)
    \/ CopyFails(k)
    \/ ReplaceFails(k)
    \/ Commits(k)
    \/ RollsBack(k)
    \/ Restores(k)
    \/ SecondStopThrows(k)
    \/ RollbackFails(k)
    \/ RestartReturns(k)

-----------------------------------------------------------------------------
\* The launcher (InitializeOnce, ExitAsync).

\* Without a configuration the set-up is shown first.
LauncherStarts ==
    /\ ~Running /\ launches < MaxLaunches
    /\ launches' = launches + 1
    /\ disturbed' = FALSE
    /\ StartRuntime(Launch, <<>>, config, "start", "setup")
    /\ UNCHANGED <<files, target, begun, orphaned, faults, before, overlapped>>

\* The set-up stages, activates and commits its candidate, and the bot starts.
SetupSucceeds(k) ==
    /\ At(Launch, "setup")
    /\ Begin(k)
    /\ overlapped' = FALSE
    /\ config' = k /\ backup' = Missing
    /\ StartRuntime(Launch, supervisors, k, "start", "failed")
    /\ UNCHANGED <<staged, target, launched, faults, disturbed>>

\* The launcher asks for attention and has no configuration to change.
SetupFails ==
    /\ At(Launch, "setup") /\ Fault
    /\ Go(Launch, "failed")
    /\ UNCHANGED <<files, tray, target, begun, launched, history>>

LaunchReturns ==
    /\ At(Launch, "start")
    /\ StartAnswered(Launch, "true") \/ StartAnswered(Launch, "false")
    /\ Go(Launch, "succeeded")
    /\ UNCHANGED <<files, tray, target, begun, launched, faults, history>>

\* The user clicks Exit.
ExitClicked ==
    /\ Running /\ pc[Exit] = "idle" /\ Turn(Exit)
    /\ Stop(Exit, "stop", "succeeded")
    /\ UNCHANGED <<files, fields, begun, launched, faults, history>>

ExitThrows ==
    /\ pc[Exit] = "stop" /\ StopThrows(Exit)
    /\ supervisors' \in AfterThrow(Exit)
    /\ Go(Exit, "threw")
    /\ UNCHANGED <<files, fields, faults>>

\* The launcher ends: after an Exit, or at any moment.  Its bots run on.  A candidate
\* may have been written, or the rollback file and not yet config.env.
LauncherEnds ==
    /\ Running
    /\ pc' = [c \in Commands |-> IF c \in Applications /\ pc[c] \in Over THEN pc[c] ELSE "idle"]
    /\ target' = [c \in Commands |-> NoSupervisor]
    /\ field' = NoSupervisor /\ supervisors' = <<>> /\ logs' = FALSE
    /\ orphaned' = (orphaned \/ \E s \in DOMAIN supervisors : supervisors[s].bot = "up")
    /\ \/ UNCHANGED files
       \/ \E k \in Applications :
            /\ pc[k] = "staging"
            /\ staged' = staged \union {k}
            /\ UNCHANGED <<config, backup>>
       \/ /\ \E k \in Applications : pc[k] = "stopped"
          /\ backup' = BackedUp
          /\ UNCHANGED <<config, staged>>
    /\ UNCHANGED <<begun, launches, faults, history>>

\* The last of them ends, of itself or by the user's hand.
OrphansEnd ==
    /\ orphaned /\ orphaned' = FALSE
    /\ UNCHANGED <<files, tray, commands, begun, launches, faults, history>>

-----------------------------------------------------------------------------
\* What the supervisors do of themselves (BotSupervisor).

Becomes(s, supervisor) ==
    /\ supervisors' = [supervisors EXCEPT ![s] = supervisor]
    /\ UNCHANGED <<files, fields, commands, begun, launched, faults, history>>

Answered(supervisor, answer) ==
    [supervisor EXCEPT !.answer = IF @ = "pending" THEN answer ELSE @]

\* The monitor runs on the UI thread, too.
Observes(s, bot) == supervisors[s].bot = bot /\ Turn(Launch)

\* A bot that is degraded or not heard of runs on.
BotIsJudged(s) ==
    /\ Observes(s, "up") /\ supervisors[s].answer = "pending"
    /\ \E answer \in {"true", "false"} : Becomes(s, Answered(supervisors[s], answer))

GivenUp(supervisor) ==
    [Answered(supervisor, "false") EXCEPT !.bot = "none", !.runs = Missing, !.watch = "off"]

\* No process could be created, or the bot takes its configuration for invalid or
\* finds the port taken: by a bot of an earlier launch even when the probe, which
\* that one answers, has been taken for its own.
BotRefuses(s) ==
    /\ Observes(s, "up") /\ (supervisors[s].answer = "pending" \/ orphaned)
    /\ Becomes(s, GivenUp(supervisors[s]))

BotCrashes(s) ==
    /\ supervisors[s].bot = "up" /\ Fault
    /\ supervisors' = [supervisors EXCEPT ![s].bot = "down", ![s].runs = Missing]
    /\ UNCHANGED <<files, fields, commands, begun, launched, history>>

\* The monitor starts the bot again, with the configuration there is now.
MonitorRestarts(s) ==
    LET supervisor == supervisors[s] IN
      /\ Observes(s, "down") /\ supervisor.watch # "off"
      /\ Becomes(s, [supervisor EXCEPT !.bot = "up", !.runs = config,
                                       !.watch = IF @ = "last" THEN "off" ELSE @])

MonitorGivesUp(s) ==
    /\ Observes(s, "down") /\ supervisors[s].watch = "on"
    /\ Becomes(s, GivenUp(supervisors[s]))

MonitorStep(s) ==
    \/ BotIsJudged(s)
    \/ BotRefuses(s)
    \/ MonitorRestarts(s)
    \/ MonitorGivesUp(s)

-----------------------------------------------------------------------------
CommandStep(c) ==
    \/ c \in Applications /\ ApplicationStep(c)
    \/ c = Launch /\ LaunchReturns
    \/ c = Exit /\ ExitThrows
    \/ StopBegins(c)
    \/ StopEnds(c)

Next ==
    \/ \E k \in Applications : Configure(k) \/ SetupSucceeds(k)
    \/ \E c \in Commands : CommandStep(c)
    \/ LauncherStarts
    \/ SetupFails
    \/ ExitClicked
    \/ LauncherEnds
    \/ OrphansEnd
    \/ \E s \in DOMAIN supervisors : MonitorStep(s) \/ BotCrashes(s)

\* What the UI thread has to run is run: files are written, a stop ends after
\* fifteen seconds, a start is answered after its five minutes (BotSupervisor), and
\* an Exit that succeeded ends the launcher.
Fairness ==
    /\ \A c \in Commands : WF_vars(CommandStep(c))
    /\ WF_vars(\E s \in DOMAIN supervisors : MonitorStep(s))
    /\ WF_vars(pc[Exit] = "succeeded" /\ LauncherEnds)

Spec == Init /\ [][Next]_vars /\ Fairness

-----------------------------------------------------------------------------
(* Properties. *)

\* The types, and: while the last application has not succeeded, the configuration
\* there was before it is in config.env or in the rollback file, wherever the
\* launcher ended and whatever failed, so that the user can put it back.  Unless it
\* began while another was under way.
PriorIsKept ==
    /\ TypeOK
    /\ begun > 0 /\ ~overlapped /\ pc[begun] # "succeeded"
         => before[begun] \in {config, backup}

\* An application that ends without success leaves config.env as it found it and no
\* file of its own, whatever failed before; only the file operation that fails in
\* its last step may leave more.  Unless applications overlap.
FailureRestores ==
    [][\A k \in Applications :
         pc[k] \notin Over /\ pc'[k] \in {"failed", "threw"}
           /\ faults' = faults /\ ~overlapped
         => config' = before[k] /\ backup' = Missing /\ k \notin staged']_vars

\* Between applications a launch has one bot at most, the one its tray can stop, and
\* it runs with the configuration in config.env: after a success, a rollback, and
\* whatever files an earlier launch that died left.  Unless in this launch two
\* applications overlapped or a stop threw; of the bots that a dead launcher left,
\* orphaned, nothing is said.
BotsRunTheConfiguration ==
    (\A k \in Applications : pc[k] \in Over) /\ ~disturbed =>
      \A s \in DOMAIN supervisors :
        supervisors[s].bot = "up" => s = field /\ supervisors[s].runs = config

\* Every application ends, with success or without, or the launcher does; an Exit
\* or a crash under way does not leave it waiting.  Unless another one overlaps.
EveryApplicationEnds ==
    \A k \in Applications : pc[k] = "staging" ~> pc[k] \in Over \/ overlapped

\* docs/operations.md:9: "Failed candidate startup restores the byte-identical
\* prior file": where every application has failed, config.env is what it was before
\* the first.
FailedCandidateIsRestored ==
    begun > 0 /\ (\A k \in 1 .. begun : pc[k] = "failed") => config = before[1]
=============================================================================
