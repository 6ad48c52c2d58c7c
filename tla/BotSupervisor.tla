--------------------------- MODULE BotSupervisor ---------------------------
(***************************************************************************)
(* The launcher's supervisor of the bot process                            *)
(* (launcher/.../Runtime/BotSupervisor.cs): the commands that start, stop, *)
(* restart and dispose it, the monitor that probes the bot and restarts it *)
(* after a crash, and, as environment, the bots, their health and time.    *)
(*                                                                         *)
(* One supervisor lives from TrayApplicationContext.StartRuntimeAsync,     *)
(* which starts it (command 1), to its DisposeAsync (Exit, or the stop of  *)
(* a reconfiguration).  In between the user clicks Restart and Exit.       *)
(*                                                                         *)
(* Interleaving.  Everything runs on the UI thread, so a step here is what *)
(* the code does from one await to the next.  Cancelling the monitor ends  *)
(* it inside Cancel(), unless the task it awaits had completed already and *)
(* its continuation was posted: then the monitor runs once more, before    *)
(* the command that cancelled it (overtaken).  The gate is a SemaphoreSlim *)
(* that serves its waiters in order; Dispose forgets them, but not the one *)
(* the gate was just handed to.                                            *)
(*                                                                         *)
(* The bot (external) may crash at any moment, with a failure the launcher *)
(* takes for deterministic (an invalid configuration, a port in use) or    *)
(* not; a bot told to shut down exits or does not.  Writing to a bot that  *)
(* exited may fail or not; on a disposed process it throws.  A probe may   *)
(* have been answered before the bot exited, so any answer is possible;    *)
(* one that is not JSON, from another program on the port, throws inside   *)
(* the monitor.  So does a bot that cannot be created, and nothing         *)
(* observes the monitor's task.  These count as crashes, too.              *)
(*                                                                         *)
(* Assumed: a bot that is terminated is dead at once.  Process.Kill only   *)
(* asks for its end, and StopAsync does not wait for it before it says     *)
(* Stopped; what a bot does in the moments until then is not modelled.     *)
(*                                                                         *)
(* Time.  A Tick is a fraction of the five minutes HealthLimit stands for. *)
(*                                                                         *)
(* A definition whose name ends in _ is a faulty variant of the one after  *)
(* it; see GameRules.                                                      *)
(***************************************************************************)
EXTENDS Integers, Sequences, FiniteSets

CONSTANTS
    NumCommands,    \* bound on the commands; the first is the start
    MaxCrashes,     \* bound on crashes, failed starts and malformed answers
    NumRestarts,    \* the length of restartDelays, which is 3
    HealthLimit     \* the five minutes, in ticks

ASSUME CommandsAssumption == NumCommands \in Nat \ {0}
ASSUME CrashesAssumption == MaxCrashes \in Nat
ASSUME RestartsAssumption == NumRestarts \in Nat
ASSUME LimitAssumption == HealthLimit \in Nat \ {0}

Commands == 1 .. NumCommands
MaxBots == NumCommands + MaxCrashes + 1
NoBot == 0
NoCommand == 0
NotYet == -1        \* healthySince is null

VARIABLES
    bots,           \* the processes started so far, in order: [alive,
                    \* deterministic, disposed]
    process,        \* the field process
    state,          \* CurrentState
    intentionalStop,
    startup,        \* whose startupCompletion the field holds
    answer,         \* each command's own startup task
    queue,          \* the gate: its holder, then its waiters
    gateDisposed,
    kind,           \* what each command is
    pc,             \* where each command is
    monitor,        \* the monitor's place and local variables, and two of
                    \* history: botAge, the ticks of the observed bot until its
                    \* exit was seen; rapid, the restarts in a row after bots
                    \* that lived less than HealthLimit
    overtaken,      \* a cancelled monitor has a continuation posted
    crashes

commandVars == <<queue, gateDisposed, kind, pc>>
vars == <<bots, process, state, intentionalStop, startup, answer, commandVars,
          overtaken, crashes, monitor>>

States == {"Stopped", "Starting", "Running", "AttentionRequired", "Stopping"}
Answers == {"ready", "degraded", "other"}
Ages == 0 .. HealthLimit

Bot == [alive : BOOLEAN, deterministic : BOOLEAN, disposed : BOOLEAN]
Monitor == [at : {"none", "probe", "rest", "backoff", "threw"},
            observed : 0 .. MaxBots, restartCount : 0 .. NumRestarts,
            healthyAge : Ages \cup {NotYet}, unavailableAge : Ages,
            botAge : Ages, rapid : Nat]

\* No monitor runs, and its local variables are gone.
NoMonitor == [at |-> "none", observed |-> NoBot, restartCount |-> 0,
              healthyAge |-> NotYet, unavailableAge |-> 0,
              botAge |-> 0, rapid |-> 0]

TypeOK ==
    /\ bots \in Seq(Bot) /\ Len(bots) <= MaxBots
    /\ process \in {NoBot} \cup DOMAIN bots
    /\ state \in States
    /\ intentionalStop \in BOOLEAN
    /\ startup \in {NoCommand} \cup Commands
    /\ answer \in [Commands -> {"none", "pending", "true", "false"}]
    /\ queue \in Seq(Commands)
    /\ gateDisposed \in BOOLEAN
    /\ kind \in [Commands -> {"none", "start", "restart", "exit"}]
    /\ pc \in [Commands -> {"idle", "wantStop", "shutdown", "waiting",
                            "wantStart", "awaiting", "returned", "threw"}]
    /\ monitor \in Monitor
    /\ overtaken \in BOOLEAN
    /\ crashes \in 0 .. MaxCrashes

Init ==
    /\ bots = <<>> /\ process = NoBot
    /\ state = "Stopped" /\ intentionalStop = FALSE
    /\ startup = NoCommand /\ answer = [c \in Commands |-> "none"]
    /\ queue = <<1>> /\ gateDisposed = FALSE
    /\ kind = [c \in Commands |-> IF c = 1 THEN "start" ELSE "none"]
    /\ pc = [c \in Commands |-> IF c = 1 THEN "wantStart" ELSE "idle"]
    /\ monitor = NoMonitor
    /\ overtaken = FALSE /\ crashes = 0

-----------------------------------------------------------------------------
\* The bot.

\* factory.Start: a new process, the field's value.
StartBot ==
    /\ bots' = Append(bots, [alive |-> TRUE, deterministic |-> FALSE, disposed |-> FALSE])
    /\ process' = Len(bots) + 1

\* ForceTerminate kills the process tree unless it has exited; by assumption the
\* bot is dead then.
ForceTerminated_(bot) == bot
ForceTerminated(bot) == [bot EXCEPT !.alive = FALSE]

\* Nobody asks a disposed process how it failed.
Disposed(bot) == [bot EXCEPT !.disposed = TRUE, !.deterministic = FALSE]

\* The bot crashes, or refuses to start.
BotCrashes(b, deterministic) ==
    /\ bots[b].alive /\ crashes < MaxCrashes
    /\ bots' = [bots EXCEPT ![b] = [@ EXCEPT !.alive = FALSE, !.deterministic = deterministic]]
    /\ crashes' = crashes + 1
    /\ UNCHANGED <<process, state, intentionalStop, startup, answer, commandVars,
                   monitor, overtaken>>

\* The bot does what it was told.
BotShutsDown(b) ==
    /\ bots[b].alive
    /\ b = process /\ \E c \in Commands : pc[c] = "waiting"
    /\ bots' = [bots EXCEPT ![b].alive = FALSE]
    /\ UNCHANGED <<process, state, intentionalStop, startup, answer, commandVars,
                   monitor, overtaken, crashes>>

-----------------------------------------------------------------------------
\* The commands.

\* startupCompletion?.TrySetResult: the first result stays.
SetStartup(result) ==
    answer' = [c \in Commands |->
                 IF c = startup /\ answer[c] = "pending" THEN result ELSE answer[c]]

\* The cancellation of the monitor: it ends inside Cancel(), or its
\* continuation is on its way.  At rest the continuation only ends the loop.
CancelMonitor_ == UNCHANGED <<monitor, overtaken>>
CancelMonitor ==
    \/ monitor' = NoMonitor /\ UNCHANGED overtaken
    \/ /\ monitor.at \in {"probe", "backoff"}
       /\ overtaken' = TRUE
       /\ UNCHANGED monitor

\* The command holds the gate and its continuation may run.
HasGate(c, place) ==
    /\ pc[c] = place
    /\ queue # <<>> /\ Head(queue) = c
    /\ ~overtaken

\* gate.Release in the finally block, on the way to the command's next place.
\* Once the gate is disposed it throws.
LeaveGate(c, place) ==
    /\ queue' = Tail(queue)
    /\ pc' = [pc EXCEPT ![c] = IF gateDisposed THEN "threw" ELSE place]
    /\ UNCHANGED gateDisposed

\* The user clicks Restart or Exit.
Click(c, what) ==
    /\ kind[c] = "none" /\ \A d \in 1 .. (c - 1) : kind[d] # "none"
    /\ kind' = [kind EXCEPT ![c] = what]
    /\ IF gateDisposed
         THEN pc' = [pc EXCEPT ![c] = "threw"] /\ UNCHANGED queue
         ELSE pc' = [pc EXCEPT ![c] = "wantStop"] /\ queue' = Append(queue, c)
    /\ UNCHANGED <<bots, process, state, intentionalStop, startup, answer,
                   gateDisposed, monitor, overtaken, crashes>>

\* What follows a StopAsync that ended well.  RestartAsync goes to the end of
\* the gate's queue for its StartAsync.  DisposeAsync disposes the gate, which
\* StopAsync has just handed to the first waiter; the others are forgotten.
AfterStop(c) ==
    LET waiters == Tail(queue) IN
      CASE gateDisposed ->
             LeaveGate(c, "threw")
        [] ~gateDisposed /\ kind[c] = "restart" ->
             /\ queue' = Append(waiters, c)
             /\ pc' = [pc EXCEPT ![c] = "wantStart"]
             /\ UNCHANGED gateDisposed
        [] ~gateDisposed /\ kind[c] = "exit" ->
             /\ queue' = IF waiters = <<>> THEN <<>> ELSE <<Head(waiters)>>
             /\ pc' = [pc EXCEPT ![c] = "returned"]
             /\ gateDisposed' = TRUE

\* StopAsync when there is no process.
StopFindsNoBot(c) ==
    /\ HasGate(c, "wantStop") /\ process = NoBot
    /\ state' = "Stopped"
    /\ AfterStop(c)
    /\ UNCHANGED <<bots, process, intentionalStop, startup, answer, kind,
                   monitor, overtaken, crashes>>

\* What StopAsync does before its first await: the pending start is answered.
AnswerPendingStart_ == UNCHANGED answer
AnswerPendingStart == SetStartup("false")

\* StopAsync as far as its write of "shutdown", which throws if the monitor
\* has disposed the process: the exception leaves the gate and nothing else.
StopBegins(c) ==
    /\ HasGate(c, "wantStop") /\ process # NoBot
    /\ intentionalStop' = TRUE
    /\ AnswerPendingStart
    /\ CancelMonitor
    /\ state' = "Stopping"
    /\ IF bots[process].disposed
         THEN LeaveGate(c, "threw")
         ELSE pc' = [pc EXCEPT ![c] = "shutdown"] /\ UNCHANGED <<queue, gateDisposed>>
    /\ UNCHANGED <<bots, process, startup, kind, crashes>>

WriteSucceeds(c) ==
    /\ HasGate(c, "shutdown")
    /\ pc' = [pc EXCEPT ![c] = "waiting"]
    /\ UNCHANGED <<bots, process, state, intentionalStop, startup, answer, queue,
                   gateDisposed, kind, monitor, overtaken, crashes>>

\* The bot's end of the pipe is closed.
WriteFails(c) ==
    /\ HasGate(c, "shutdown") /\ ~bots[process].alive
    /\ LeaveGate(c, "threw")
    /\ UNCHANGED <<bots, process, state, intentionalStop, startup, answer, kind,
                   monitor, overtaken, crashes>>

\* The bot exited, or fifteen seconds passed and it is terminated.
StopEnds(c) ==
    /\ HasGate(c, "waiting")
    /\ bots' = [bots EXCEPT ![process] =
                  Disposed(IF @.alive THEN ForceTerminated(@) ELSE @)]
    /\ process' = NoBot
    /\ state' = "Stopped"
    /\ AfterStop(c)
    /\ UNCHANGED <<intentionalStop, startup, answer, kind, monitor, overtaken,
                   crashes>>

\* StartAsync finds a process.
AlreadyStarted_ == FALSE
AlreadyStarted == process # NoBot

StartFindsBot(c) ==
    /\ HasGate(c, "wantStart") /\ AlreadyStarted
    /\ LeaveGate(c, "returned")
    /\ UNCHANGED <<bots, process, state, intentionalStop, startup, answer, kind,
                   monitor, overtaken, crashes>>

\* StartAsync starts a bot and its monitor, whose first probe is sent at once.
StartRuns(c) ==
    /\ HasGate(c, "wantStart") /\ ~AlreadyStarted
    /\ intentionalStop' = FALSE
    /\ state' = "Starting"
    /\ StartBot
    /\ startup' = c
    /\ answer' = [answer EXCEPT ![c] = "pending"]
    /\ monitor' = [NoMonitor EXCEPT !.at = "probe", !.observed = Len(bots) + 1]
    /\ LeaveGate(c, "awaiting")
    /\ UNCHANGED <<kind, overtaken, crashes>>

\* The process cannot be created: StartAsync throws.
StartThrows(c) ==
    /\ HasGate(c, "wantStart") /\ ~AlreadyStarted
    /\ crashes < MaxCrashes /\ crashes' = crashes + 1
    /\ intentionalStop' = FALSE
    /\ state' = "Starting"
    /\ LeaveGate(c, "threw")
    /\ UNCHANGED <<bots, process, startup, answer, kind, monitor, overtaken>>

\* StartAsync's own startup task has a result.
StartReturns(c) ==
    /\ pc[c] = "awaiting" /\ answer[c] # "pending"
    /\ pc' = [pc EXCEPT ![c] = "returned"]
    /\ UNCHANGED <<bots, process, state, intentionalStop, startup, answer, queue,
                   gateDisposed, kind, monitor, overtaken, crashes>>

-----------------------------------------------------------------------------
\* The monitor.

\* The loop goes on with these local variables unless the monitor was cancelled.
Continue(next) == monitor' = IF overtaken THEN NoMonitor ELSE next

\* The monitor gives up: the bot is forgotten and the user asked for help.
GiveUp ==
    /\ process' = IF process = monitor.observed THEN NoBot ELSE process
    /\ SetStartup("false")
    /\ state' = "AttentionRequired"
    /\ monitor' = NoMonitor

OutOfRestarts == monitor.restartCount >= NumRestarts

\* The head of the loop, after the rest of half a second.
MonitorWakes ==
    /\ monitor.at = "rest"
    /\ LET bot == bots[monitor.observed] IN
         \/ /\ bot.alive
            /\ monitor' = [monitor EXCEPT !.at = "probe"]
            /\ UNCHANGED <<bots, process, state, answer>>
         \/ /\ ~bot.alive /\ intentionalStop
            /\ monitor' = NoMonitor
            /\ UNCHANGED <<bots, process, state, answer>>
         \/ /\ ~bot.alive /\ ~intentionalStop
            /\ bots' = [bots EXCEPT ![monitor.observed] = Disposed(@)]
            /\ IF bot.deterministic \/ OutOfRestarts
                 THEN GiveUp
                 ELSE /\ monitor' = [monitor EXCEPT !.at = "backoff"]
                      /\ UNCHANGED <<process, state, answer>>
    /\ UNCHANGED <<intentionalStop, startup, commandVars, overtaken, crashes>>

\* healthySince after a restart.
HealthySinceRestart_ == monitor.healthyAge
HealthySinceRestart == NotYet

\* The back-off is over, also for a monitor that was cancelled meanwhile.
BackoffEnds ==
    /\ monitor.at = "backoff"
    /\ StartBot
    /\ Continue([at |-> "probe", observed |-> Len(bots) + 1,
                 restartCount |-> monitor.restartCount + 1,
                 healthyAge |-> HealthySinceRestart, unavailableAge |-> 0,
                 botAge |-> 0,
                 rapid |-> IF monitor.botAge < HealthLimit THEN monitor.rapid + 1 ELSE 0])
    /\ state' = "Starting"
    /\ overtaken' = FALSE
    /\ UNCHANGED <<intentionalStop, startup, answer, commandVars, crashes>>

\* The probe answers ready: the budget is full again five minutes after the
\* first such answer.
AnswersReady ==
    LET healthyAge == IF monitor.healthyAge = NotYet THEN 0 ELSE monitor.healthyAge IN
      /\ SetStartup("true")
      /\ state' = "Running"
      /\ Continue([monitor EXCEPT
                     !.at = "rest", !.healthyAge = healthyAge,
                     !.restartCount = IF healthyAge >= HealthLimit THEN 0 ELSE @,
                     !.unavailableAge = 0])

\* Any other answer; an unreachable bot is given five minutes.
AnswersOtherwise(reply) ==
    /\ IF reply = "degraded" \/ monitor.unavailableAge >= HealthLimit
         THEN SetStartup("false") /\ state' = "AttentionRequired"
         ELSE UNCHANGED <<answer, state>>
    /\ Continue([monitor EXCEPT !.at = "rest"])

ProbeAnswers(reply) ==
    /\ monitor.at = "probe"
    /\ IF reply = "ready" THEN AnswersReady ELSE AnswersOtherwise(reply)
    /\ overtaken' = FALSE
    /\ UNCHANGED <<bots, process, intentionalStop, startup, commandVars, crashes>>

\* The process cannot be created or the answer not be read: the monitor's task ends
\* with the exception, and leaves everything as it is.
MonitorThrows ==
    /\ monitor.at \in {"probe", "backoff"}
    /\ crashes < MaxCrashes /\ crashes' = crashes + 1
    /\ monitor' = [NoMonitor EXCEPT !.at = "threw"]
    /\ overtaken' = FALSE
    /\ UNCHANGED <<bots, process, state, intentionalStop, startup, answer, commandVars>>

-----------------------------------------------------------------------------
Older(age) == IF age \in {NotYet, HealthLimit} THEN age ELSE age + 1

Tick ==
    /\ monitor.at \in {"probe", "rest"}
    /\ monitor' = [monitor EXCEPT !.healthyAge = Older(@), !.unavailableAge = Older(@),
                                  !.botAge = Older(@)]
    /\ UNCHANGED <<bots, process, state, intentionalStop, startup, answer,
                   commandVars, overtaken, crashes>>

CommandStep(c) ==
    \/ StopFindsNoBot(c)
    \/ StopBegins(c)
    \/ WriteSucceeds(c)
    \/ WriteFails(c)
    \/ StopEnds(c)
    \/ StartFindsBot(c)
    \/ StartRuns(c)
    \/ StartThrows(c)
    \/ StartReturns(c)

MonitorStep ==
    \/ MonitorWakes
    \/ BackoffEnds
    \/ \E reply \in Answers : ProbeAnswers(reply)

Next ==
    \/ \E c \in Commands : CommandStep(c)
    \/ \E c \in Commands, what \in {"restart", "exit"} : Click(c, what)
    \/ MonitorStep
    \/ MonitorThrows
    \/ Tick
    \/ \E b \in DOMAIN bots : BotShutsDown(b)
    \/ \E b \in DOMAIN bots, deterministic \in BOOLEAN : BotCrashes(b, deterministic)

Spec == Init /\ [][Next]_vars

\* What the UI thread has to run is run, delays and probes end (a probe after
\* 400 ms at the latest) and time passes.
Fairness ==
    /\ WF_vars(\E c \in Commands : CommandStep(c))
    /\ WF_vars(MonitorStep)
    /\ WF_vars(Tick)

FairSpec == Spec /\ Fairness

-----------------------------------------------------------------------------
(* Properties. *)

\* The launcher never says Stopped while a bot runs: the user replaces the
\* package or copies the database then.
StoppedMeansNoBot ==
    state = "Stopped" => \A b \in DOMAIN bots : ~bots[b].alive

\* A bot that keeps crashing before it has lived for five minutes is restarted
\* at most NumRestarts times in a row.
RapidCrashesEnd == monitor.rapid <= NumRestarts

\* The types, and: whatever commands overlap with whatever fails, a bot that runs is
\* the one the supervisor knows, and its handle is open, so that the next stop can
\* shut it down.  So there is at most one: two would fight over the port, the
\* database and the Discord session.
NoOrphan ==
    /\ TypeOK
    /\ \A b \in DOMAIN bots : bots[b].alive => process = b /\ ~bots[b].disposed

\* Every command ends, and every StartAsync that started a bot returns: a restart or
\* an exit, crashes, an unreachable or a degraded bot all answer it.  But a monitor
\* that threw answers nobody, and an Exit forgets those who wait for the gate.
EveryCommandEnds ==
    \A c \in Commands :
      pc[c] # "idle" ~>
        \/ pc[c] \in {"returned", "threw"}
        \/ monitor.at = "threw"
        \/ gateDisposed /\ \A i \in DOMAIN queue : queue[i] # c

\* Once an Exit has returned no bot runs, whatever was clicked before it and whatever
\* the monitor was doing, with one exception: the bot that a Restart clicked earlier
\* starts after the Exit.  That Restart had yet to come to its start; the gate, which
\* Exit disposes, had been handed to it, and it throws as it leaves the gate.  A start
\* that left the gate before that ends well, and its bot does not outlive the Exit.
OnlyARestartOutlivesExit ==
    \A x \in Commands : kind[x] = "exit" /\ pc[x] = "returned" =>
      \A b \in DOMAIN bots : bots[b].alive =>
        \E c \in 1 .. (x - 1) : startup = c /\ kind[c] = "restart" /\ pc[c] = "threw"
=============================================================================
