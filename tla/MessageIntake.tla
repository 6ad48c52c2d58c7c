--------------------------- MODULE MessageIntake ---------------------------
(***************************************************************************)
(* How messages reach the game: DiscordAdapter (src/discord/               *)
(* discord-adapter.ts) takes live messages from the gateway, and           *)
(* ReconciliationService (src/application/reconciliation-service.ts) reads *)
(* the channel's history after a gap.  Both work through SerialExecutor    *)
(* under the channel's key and share the durable channel checkpoint.       *)
(* ApplicationRuntime.start (src/main.ts) orders them at start-up.         *)
(*                                                                         *)
(* One channel and the rounds played in it one after the other.  Messages  *)
(* are numbered in snowflake order; those outside Eligible are posted by   *)
(* bots or webhooks.  What the game decides about a message is left open   *)
(* here (CountingGame decides it), except that only a run in progress can  *)
(* be broken.                                                              *)
(*                                                                         *)
(* The program is single-threaded: a step runs from one await to the next. *)
(* The executor runs the head of queue; a reconciliation awaits Discord in *)
(* between, a message's job awaits processMessage.  When a reconciliation  *)
(* ends, its caller's continuation runs some microtasks later (conts), and *)
(* the executor may have started the next job by then; but no event of the *)
(* gateway and no answer of Discord is handled in between (MicrotasksDone).*)
(*                                                                         *)
(* Discord's gateway (external).  While connected it delivers messages in  *)
(* order.  A gap starts with disconnected and ends with reconnected, which *)
(* comes before any message posted after the gap; messages of the gap, and *)
(* those still on their way when it starts, are not delivered.             *)
(*                                                                         *)
(* A definition whose name ends in _ is a faulty variant of the one after  *)
(* it; see GameRules.                                                      *)
(***************************************************************************)
EXTENDS Integers, Sequences, SequencesExt

CONSTANTS
    NumMessages,        \* bound on the messages posted in the channel
    Eligible,           \* messages written by players
    MaxRounds,          \* bound on the rounds activated
    FailuresOverlap,    \* whether a reconciliation or a message may also fail
                        \* during start-up or beside another reconciliation
    MaxGaps,            \* bound on disconnections
    MaxReconcileFaults, \* bound on reconciliations that throw
    MaxProcessFaults,   \* bound on live messages whose job throws
    MaxCrashes,         \* bound on process stops
    MaxFaults           \* bound on all four together

ASSUME NumMessagesAssumption == NumMessages \in Nat
ASSUME MaxRoundsAssumption == MaxRounds \in Nat \ {0}
ASSUME EligibleAssumption == Eligible \subseteq 1 .. NumMessages
ASSUME OverlapAssumption == FailuresOverlap \in BOOLEAN
ASSUME BoundsAssumption ==
    {MaxGaps, MaxReconcileFaults, MaxProcessFaults, MaxCrashes, MaxFaults} \subseteq Nat

VARIABLES
    posted,         \* Discord: messages 1 .. posted are in the channel
    online,         \* Discord: the gateway is connected
    inTransit,      \* Discord: messages the gateway has yet to deliver
    checkpoint,     \* channel_checkpoints.last_examined_message_id; 0: no row
    disposition,    \* submissions
    resets,         \* breaks with a reset_announcement in the outbox
    rounds,         \* the states of the rounds in the order of activation
    running,        \* the active round has an active attempt
    outbox,         \* discord_outbox: what is yet to be delivered (RoundEnd, deletions)
    boot,           \* how far ApplicationRuntime.start has come
    accepting,      \* DiscordAdapter.accepting
    intakeFailure,  \* DiscordAdapter.intakeFailure
    buffered,       \* DiscordAdapter.buffered
    queue,          \* the executor's jobs for the channel, the head running
    job,            \* local variables of the head
    conts,          \* ended reconciliations whose caller has not continued
    faults,         \* how often each kind of fault happened
    examined,       \* history: messages some pass has looked at
    since           \* history: the last message posted before the latest activation

discord == <<posted, online, inTransit>>
game == <<disposition, resets, rounds, running, outbox>>
history == <<examined, since>>
adapter == <<accepting, intakeFailure, buffered>>
executor == <<queue, job>>
vars == <<posted, online, inTransit, checkpoint, disposition, resets,
          rounds, running, outbox, boot, accepting, intakeFailure, buffered,
          queue, job, conts, faults, examined, since>>

Messages == 1 .. NumMessages
Unseen == [kind |-> "none", by |-> 0, round |-> 0]
Kinds == {"recorded", "broken", "invalidated"}
Owners == {"startup", "reconnect"}

Latest == Len(rounds)
RoundActive == rounds[Latest] = "active"

\* The rows of the outbox that matter here: the deletions of originals, by their
\* messages, and what a round's settlement waits for when it has ended.
RoundEnd == 0
Settled == \A i \in DOMAIN outbox : outbox[i] # RoundEnd

MessageJob(m) == [kind |-> "message", message |-> m]
ReconcileJob(owner) == [kind |-> "reconcile", owner |-> owner]
NotStarted ==
    [pc |-> "start", cursor |-> 0, highWater |-> 0, listing |-> {}, breaking |-> 0,
     completed |-> FALSE]

FaultKinds == {"gap", "reconcile", "process", "crash"}
Budget == [gap |-> MaxGaps, reconcile |-> MaxReconcileFaults,
           process |-> MaxProcessFaults, crash |-> MaxCrashes]
Fault(kind) ==
    /\ faults[kind] < Budget[kind]
    /\ faults.gap + faults.reconcile + faults.process + faults.crash < MaxFaults
    /\ faults' = [faults EXCEPT ![kind] = @ + 1]

TypeOK ==
    /\ posted \in 0 .. NumMessages
    /\ online \in BOOLEAN
    /\ inTransit \in Seq(Messages)
    /\ checkpoint \in 0 .. NumMessages
    /\ disposition \in [Messages -> [kind : Kinds, by : 0 .. NumMessages,
                               round : DOMAIN rounds] \union {Unseen}]
    /\ resets \in SUBSET Messages
    /\ rounds \in Seq({"active", "completed", "cancelled"}) /\ Latest \in 1 .. MaxRounds
    /\ \A i \in 1 .. Latest - 1 : rounds[i] # "active"
    /\ running \in BOOLEAN
    /\ outbox \in Seq(Messages \union {RoundEnd})
    /\ boot \in {"off", "reconciling", "dispatching", "live"}
    /\ accepting \in BOOLEAN
    /\ intakeFailure \in BOOLEAN
    /\ buffered \in Seq(Messages)
    /\ queue \in Seq({MessageJob(m) : m \in Messages} \union {ReconcileJob(o) : o \in Owners})
    /\ job \in [pc : {"start", "list", "judge", "advance", "final", "finish"},
                cursor : 0 .. NumMessages, highWater : 0 .. NumMessages,
                listing : SUBSET Eligible, breaking : 0 .. NumMessages, completed : BOOLEAN]
    /\ queue = << >> => job = NotStarted
    /\ queue # << >> /\ Head(queue).kind = "message" => job.pc \in {"start", "advance"}
    /\ conts \in Seq([owner : Owners, ok : BOOLEAN])
    /\ faults \in [FaultKinds -> Nat]
    /\ examined \in SUBSET Messages
    /\ since \in 0 .. posted

\* Before the first start, in the middle of a run.
Init ==
    /\ posted = 0
    /\ online = FALSE
    /\ inTransit = << >>
    /\ checkpoint = 0
    /\ disposition = [m \in Messages |-> Unseen]
    /\ resets = {}
    /\ rounds = <<"active">>
    /\ running = TRUE
    /\ outbox = << >>
    /\ boot = "off"
    /\ accepting = FALSE
    /\ intakeFailure = FALSE
    /\ buffered = << >>
    /\ queue = << >>
    /\ job = NotStarted
    /\ conts = << >>
    /\ faults = [k \in FaultKinds |-> 0]
    /\ examined = {}
    /\ since = 0

MicrotasksDone == conts = << >>

\* Start-up is over or its own reconciliation fails, and no other reconciliation is
\* under way, nor a message that would follow this one.
MayFail ==
    \/ FailuresOverlap
    \/ /\ boot = "live" \/ Head(queue) = ReconcileJob("startup")
       /\ MicrotasksDone
       /\ \/ Len(queue) = 1 /\ ~accepting
          \/ \A i \in DOMAIN queue : queue[i].kind = "message"

-----------------------------------------------------------------------------
(* The gateway. *)

Post ==
    /\ posted < NumMessages
    /\ posted' = posted + 1
    /\ inTransit' = IF online THEN Append(inTransit, posted + 1) ELSE inTransit
    /\ UNCHANGED <<online, checkpoint, game, boot, adapter, executor, conts, faults, history>>

\* handleMessage decides at once: buffer, drop, or give the message a job.
HandleMessage(m) ==
    IF ~accepting
    THEN buffered' = Append(buffered, m) /\ UNCHANGED queue
    ELSE /\ UNCHANGED buffered
         /\ queue' = IF m \in Eligible /\ RoundActive
                     THEN Append(queue, MessageJob(m))
                     ELSE queue

Deliver ==
    /\ MicrotasksDone
    /\ inTransit # << >>
    /\ HandleMessage(Head(inTransit))
    /\ inTransit' = Tail(inTransit)
    /\ UNCHANGED <<posted, online, checkpoint, game, boot, accepting, intakeFailure,
                   job, conts, faults, history>>

Disconnected ==
    /\ MicrotasksDone
    /\ online
    /\ Fault("gap")
    /\ online' = FALSE
    /\ inTransit' = << >>
    /\ accepting' = FALSE
    /\ UNCHANGED <<posted, checkpoint, game, boot, intakeFailure, buffered, executor,
                   conts, history>>

BufferedDropped_ == {queue}

\* flushBuffered: what was buffered is handled again, in order.
BufferedFlushed ==
    LET players == {i \in DOMAIN buffered : buffered[i] \in Eligible}
        inOrder == {f \in Bijection(1 .. Cardinality(players), players) :
                      \A i, j \in DOMAIN f : i < j => f[i] < f[j]}
    IN  IF RoundActive
        THEN {queue \o [i \in DOMAIN f |-> MessageJob(buffered[f[i]])] : f \in inOrder}
        ELSE {queue}

OpenGate ==
    /\ intakeFailure' = FALSE
    /\ accepting' = TRUE
    /\ buffered' = << >>
    /\ queue' \in BufferedFlushed

\* handleReconnect up to its await; without an active round it awaits nothing.
Reconnected ==
    /\ MicrotasksDone
    /\ ~online
    /\ boot # "off"
    /\ online' = TRUE
    /\ IF RoundActive
       THEN /\ accepting' = FALSE
            /\ queue' = Append(queue, ReconcileJob("reconnect"))
            /\ UNCHANGED <<intakeFailure, buffered>>
       ELSE OpenGate
    /\ UNCHANGED <<posted, inTransit, checkpoint, game, boot, job, conts, faults, history>>
-----------------------------------------------------------------------------
(* What the game does with a message.  GameService.processMessage commits  *)
(* one of these outcomes; a live break enqueues its reset in the same      *)
(* transaction, a reconciliation defers it.                                *)

Judged(m, kind, by) ==
    disposition' = [disposition EXCEPT
                      ![m] = [kind |-> kind, by |-> by,
                              round |-> IF by = 0 THEN Latest ELSE disposition[by].round]]

\* With every disposition the original's deletion is enqueued.
Enqueued(rows) == outbox' = outbox \o rows

Fresh(m) == disposition[m] = Unseen

ResetsAtOnce_(m, defer) == resets \union {m}

ResetsAfterBreak(m, defer) == IF defer THEN resets ELSE resets \union {m}

\* Not numeric, no active round, or already recorded.
ProcessWithoutEffect(m) == UNCHANGED game

\* Accepted or deleted, completing, or breaking.
ProcessNumeric(m, defer) ==
    /\ RoundActive
    /\ Fresh(m)
    /\ \/ /\ Judged(m, "recorded", 0)
          /\ running' \in {running, TRUE}
          /\ Enqueued(<<m>>)
          /\ UNCHANGED <<resets, rounds>>
       \/ /\ Judged(m, "recorded", 0)
          /\ running
          /\ running' = FALSE
          /\ rounds' = [rounds EXCEPT ![Latest] = "completed"]
          /\ Enqueued(<<m, RoundEnd>>)
          /\ UNCHANGED resets
       \/ /\ Judged(m, "broken", 0)
          /\ running
          /\ running' = FALSE
          /\ resets' = ResetsAfterBreak(m, defer)
          /\ Enqueued(<<m>>)
          /\ UNCHANGED rounds

ProcessMessage(m, defer) ==
    /\ examined' = examined \union {m}
    /\ UNCHANGED since
    /\ ProcessWithoutEffect(m) \/ ProcessNumeric(m, defer)

-----------------------------------------------------------------------------
(* The outbox.  Its rows are delivered in the order of their sequence      *)
(* numbers.  A deletion is never abandoned: it is retried until the        *)
(* message is gone.  Discord's answer comes while no job runs, or while    *)
(* the one that runs waits for Discord, too (for its first mark, a moment  *)
(* later here), and never between the commands and jobs that follow one    *)
(* another in the queue.                                                   *)

Dispatch ==
    /\ MicrotasksDone
    /\ queue = << >> \/ job.pc \in {"list", "final"}
    /\ boot \in {"dispatching", "live"}
    /\ outbox # << >>
    /\ outbox' = Tail(outbox)
    /\ UNCHANGED <<discord, checkpoint, disposition, resets, rounds, running, boot, adapter,
                   executor, conts, faults, history>>

\* What of the messages is still in the channel.
InChannel(m) == m <= posted /\ (Fresh(m) \/ \E i \in DOMAIN outbox : outbox[i] = m)

-----------------------------------------------------------------------------
(* The administrator's rounds.  Both commands wait in the queue, so they   *)
(* act between jobs.  A round is activated once the last one is settled.   *)

BetweenJobs == boot = "live" /\ job = NotStarted

CancelRound ==
    /\ BetweenJobs /\ RoundActive
    /\ rounds' = [rounds EXCEPT ![Latest] = "cancelled"]
    /\ running' = FALSE
    /\ Enqueued(<<RoundEnd>>)
    /\ UNCHANGED <<discord, checkpoint, disposition, resets, boot, adapter, executor, conts,
                   faults, history>>

ActivateRound ==
    /\ BetweenJobs /\ ~RoundActive /\ Settled
    /\ Latest < MaxRounds
    /\ rounds' = Append(rounds, "active")
    /\ since' = posted
    /\ UNCHANGED <<discord, checkpoint, disposition, resets, running, outbox, boot, adapter,
                   executor, conts, faults, examined>>

-----------------------------------------------------------------------------
(* The job of a live message. *)

Running(kind, pc) == queue # << >> /\ Head(queue).kind = kind /\ job.pc = pc

NextJobAsLeft_ == queue' = Tail(queue) /\ UNCHANGED job

NextJob == queue' = Tail(queue) /\ job' = NotStarted

\* The gate closed after the message was queued.
MessageIsBuffered ==
    /\ Running("message", "start")
    /\ intakeFailure
    /\ buffered' = Append(buffered, Head(queue).message)
    /\ NextJob
    /\ UNCHANGED <<discord, checkpoint, game, boot, accepting, intakeFailure, conts,
                   faults, history>>

MessageIsProcessed ==
    /\ Running("message", "start")
    /\ ~intakeFailure
    /\ ProcessMessage(Head(queue).message, FALSE)
    /\ job' = [job EXCEPT !.pc = "advance"]
    /\ UNCHANGED <<discord, checkpoint, boot, adapter, queue, conts, faults>>

\* processMessage or the checkpoint's write throws; the message is not
\* buffered.
MessageFails ==
    /\ \/ Running("message", "start") /\ ~intakeFailure
       \/ Running("message", "advance")
    /\ MayFail
    /\ Fault("process")
    /\ intakeFailure' = TRUE
    /\ accepting' = FALSE
    /\ NextJob
    /\ UNCHANGED <<discord, checkpoint, game, boot, buffered, conts, history>>

\* The adapter's checkpoint never moves back.
MessageIsDone ==
    /\ Running("message", "advance")
    /\ checkpoint' = Max({checkpoint, Head(queue).message})
    /\ NextJob
    /\ UNCHANGED <<discord, game, boot, adapter, conts, faults, history>>

-----------------------------------------------------------------------------
(* ReconciliationService.reconcile, from await to await. *)

\* Breaks that lack their reset announcement; the latest is taken up again.
PendingBreaks == {m \in Messages : disposition[m].kind = "broken" /\ m \notin resets}
NoReconnectBreak_ == 0

PendingReconnectBreak == IF PendingBreaks = {} THEN 0 ELSE Max(PendingBreaks)

\* The first awaits: the high-water mark.  The checkpoint was read before it;
\* nothing else advances it meanwhile.  (When the newest messages are deleted, the
\* mark of the code may be lower; then it lists nothing between the two.)
ReconcileStarts ==
    /\ Running("reconcile", "start")
    /\ job' = [pc |-> IF posted > checkpoint THEN "list" ELSE "finish",
               cursor |-> checkpoint, highWater |-> posted, listing |-> {},
               breaking |-> PendingReconnectBreak, completed |-> FALSE]
    /\ UNCHANGED <<discord, checkpoint, game, boot, adapter, queue, conts, faults, history>>

ListingExclusive_ == {m \in Eligible : job.cursor < m /\ m < job.highWater /\ InChannel(m)}

\* listMessagesAfter, up to the high-water mark.
Listing == {m \in Eligible : job.cursor < m /\ m <= job.highWater /\ InChannel(m)}

\* The listed messages that were not looked at yet.
Window == {m \in job.listing : job.cursor < m}

NewestMessage_ == Max(Window)

\* listMessagesAfter sorts: the oldest comes first.
NextMessage == Min(Window)

\* The listing of the window is in; the messages are taken in order.
ReconcileLists ==
    /\ MicrotasksDone
    /\ Running("reconcile", "list")
    /\ job' = [job EXCEPT !.listing = Listing,
                          !.pc = IF Listing = {} THEN "final" ELSE "judge"]
    /\ UNCHANGED <<discord, checkpoint, game, boot, adapter, queue, conts, faults, history>>

\* Before a break or completion: processMessage, deferring the reset.
ReconcileEvaluates ==
    LET m == NextMessage
    IN  /\ Running("reconcile", "judge")
        /\ job.breaking = 0
        /\ ~job.completed
        /\ ProcessMessage(m, TRUE)
        /\ job' = [job EXCEPT
                    !.pc = "advance",
                    !.breaking = IF Fresh(m) /\ disposition'[m].kind = "broken" THEN m ELSE 0,
                    !.completed = /\ disposition'[m] # Unseen
                                  /\ rounds'[disposition'[m].round] = "completed"]
        /\ UNCHANGED <<discord, checkpoint, boot, adapter, queue, conts, faults>>

\* After a break: invalidateAfterReconnectBreak.
ReconcileInvalidates ==
    LET m == NextMessage
    IN  /\ Running("reconcile", "judge")
        /\ job.breaking # 0
        /\ \/ UNCHANGED <<disposition, outbox>>
           \/ Fresh(m) /\ Judged(m, "invalidated", job.breaking) /\ Enqueued(<<m>>)
        /\ examined' = examined \union {m}
        /\ job' = [job EXCEPT !.pc = "advance"]
        /\ UNCHANGED <<discord, checkpoint, resets, rounds, running, boot, adapter,
                       queue, conts, faults, since>>

\* After completion: conversation.
ReconcileSkips ==
    /\ Running("reconcile", "judge")
    /\ job.breaking = 0
    /\ job.completed
    /\ examined' = examined \union {NextMessage}
    /\ job' = [job EXCEPT !.pc = "advance"]
    /\ UNCHANGED <<discord, checkpoint, game, boot, adapter, queue, conts, faults, since>>

\* The reconciler's checkpoint is set to the message, wherever it was.
ReconcileAdvances ==
    LET m == NextMessage
    IN  /\ Running("reconcile", "advance")
        /\ checkpoint' = m
        /\ job' = [job EXCEPT !.cursor = m,
                              !.pc = IF Window = {m} THEN "final" ELSE "judge"]
        /\ UNCHANGED <<discord, game, boot, adapter, queue, conts, faults, history>>

\* The final high-water mark: messages that arrived meanwhile open another
\* window.
ReconcileLooksAgain ==
    /\ MicrotasksDone
    /\ Running("reconcile", "final")
    /\ job' = [job EXCEPT
                !.highWater = posted, !.listing = {},
                !.pc = IF posted > job.highWater /\ posted > job.cursor THEN "list" ELSE "finish"]
    /\ UNCHANGED <<discord, checkpoint, game, boot, adapter, queue, conts, faults, history>>

\* Past the last window: the checkpoint takes in trailing messages of bots,
\* and the reset announcement follows the invalidations.
ReconcileFinishes ==
    /\ Running("reconcile", "finish")
    /\ checkpoint' = IF job.highWater > job.cursor THEN job.highWater ELSE checkpoint
    /\ resets' = IF job.breaking # 0 THEN resets \union {job.breaking} ELSE resets
    /\ conts' = Append(conts, [owner |-> Head(queue).owner, ok |-> TRUE])
    /\ NextJob
    /\ UNCHANGED <<discord, disposition, rounds, running, outbox, boot, adapter, faults, history>>

\* Discord or the database fails an await: the reconciliation rejects.
ReconcileFails ==
    /\ queue # << >>
    /\ Head(queue).kind = "reconcile"
    /\ MayFail
    /\ Fault("reconcile")
    /\ conts' = Append(conts, [owner |-> Head(queue).owner, ok |-> FALSE])
    /\ NextJob
    /\ UNCHANGED <<discord, checkpoint, game, boot, adapter, history>>
-----------------------------------------------------------------------------
(* The callers of reconcile continue. *)

\* The catch of handleReconnect.
StayGated == intakeFailure' = TRUE /\ UNCHANGED <<accepting, buffered, queue>>

ContinueReconnect ==
    /\ conts # << >>
    /\ Head(conts).owner = "reconnect"
    /\ IF Head(conts).ok
       THEN OpenGate
       ELSE StayGated
    /\ conts' = Tail(conts)
    /\ UNCHANGED <<discord, checkpoint, game, boot, job, faults, history>>

ContinueStartup ==
    /\ conts # << >>
    /\ Head(conts) = [owner |-> "startup", ok |-> TRUE]
    /\ boot' = "dispatching"
    /\ conts' = Tail(conts)
    /\ UNCHANGED <<discord, checkpoint, game, adapter, executor, faults, history>>

-----------------------------------------------------------------------------
(* The process. *)

\* connectDiscord, then the start-up reconciliation if a round is active.
Start ==
    /\ boot = "off"
    /\ online' = TRUE
    /\ boot' = IF RoundActive THEN "reconciling" ELSE "dispatching"
    /\ queue' = IF RoundActive THEN <<ReconcileJob("startup")>> ELSE << >>
    /\ UNCHANGED <<posted, inTransit, checkpoint, game, adapter, job, conts, faults, history>>

\* dispatchPending and startHttp are done: enableLiveIntake.
EnableLiveIntake ==
    /\ MicrotasksDone
    /\ boot = "dispatching"
    /\ boot' = "live"
    /\ OpenGate
    /\ UNCHANGED <<discord, checkpoint, game, job, conts, faults, history>>

\* What a process leaves behind is what it committed.
Gone ==
    /\ boot' = "off"
    /\ online' = FALSE
    /\ inTransit' = << >>
    /\ accepting' = FALSE
    /\ intakeFailure' = FALSE
    /\ buffered' = << >>
    /\ queue' = << >>
    /\ job' = NotStarted
    /\ conts' = << >>
    /\ UNCHANGED <<posted, checkpoint, game, history>>

Crash == boot # "off" /\ Fault("crash") /\ Gone

\* start rejects: the process exits.
StartupFails ==
    /\ conts # << >>
    /\ Head(conts) = [owner |-> "startup", ok |-> FALSE]
    /\ Gone
    /\ UNCHANGED faults

-----------------------------------------------------------------------------
Gateway == Deliver \/ Reconnected
MessageStep == MessageIsBuffered \/ MessageIsProcessed \/ MessageIsDone
ReconcileStep ==
    \/ ReconcileStarts \/ ReconcileLists
    \/ ReconcileEvaluates \/ ReconcileInvalidates \/ ReconcileSkips
    \/ ReconcileAdvances \/ ReconcileLooksAgain \/ ReconcileFinishes
Continue == ContinueReconnect \/ ContinueStartup \/ StartupFails \/ EnableLiveIntake

Next ==
    \/ Post \/ Disconnected \/ Gateway
    \/ MessageStep \/ MessageFails
    \/ ReconcileStep \/ ReconcileFails
    \/ Continue \/ Start \/ Crash
    \/ Dispatch \/ CancelRound \/ ActivateRound

Spec == Init /\ [][Next]_vars

\* The program's own steps are microtasks and answered awaits; the gateway
\* delivers what is on its way and reconnects (discord.js retries for ever);
\* the launcher starts the process again.
FairSpec ==
    /\ Spec
    /\ WF_vars(Gateway)
    /\ WF_vars(MessageStep)
    /\ WF_vars(ReconcileStep)
    /\ WF_vars(Continue)
    /\ WF_vars(Start)

-----------------------------------------------------------------------------
(* Properties. *)

\* The durable checkpoint is the greatest message id fully examined: while a round
\* is active, no player's message posted in it at or before the checkpoint was
\* passed over.  What the checkpoint passes over no later reconciliation lists, so
\* it is lost.
CheckpointCoversExamined ==
    RoundActive => \A m \in Eligible : since < m /\ m <= checkpoint => m \in examined

\* Messages are judged in the order of the channel: when one gets its
\* disposition in an active round, every earlier message that a player posted in the
\* round has been examined.  A number judged before its predecessor would break the
\* run and cost its author.
JudgedInOrder ==
    [][RoundActive =>
         \A m \in Messages : disposition'[m] # disposition[m] =>
            \A k \in Eligible : since < k /\ k < m => k \in examined]_vars

\* A message is invalidated exactly while a break found in the history waits for
\* its reset announcement: until then nothing is evaluated in that round, also when
\* the process stopped or Discord failed in between, and once the reset is in the
\* outbox no message is invalidated on account of that break (pendingReconnectBreak).
InvalidatedUntilTheReset ==
    [][\A m \in Messages : disposition'[m] # disposition[m] =>
            IF disposition'[m].kind = "invalidated"
              THEN disposition'[m].by \in PendingBreaks
              ELSE \A b \in PendingBreaks : disposition[b].round # Latest]_vars

\* Every message that a player posts in a round is examined in the end, live or from
\* the history, unless the round ends or a failure gates intake for good, which the
\* health page shows.
EveryMessageIsExamined ==
    \A m \in Eligible :
        since < m /\ m <= posted ~> m \in examined \/ ~RoundActive \/ intakeFailure

\* The design of the game, line 341: "Normal reconciliation evaluation continues until
\* it reaches the high-water mark, the round completes, or the first penalty-causing
\* submission breaks the attempt".  So what stops it at a message of a round belongs to
\* that round, not to an earlier one.
EvaluationStopsForItsRound ==
    RoundActive /\ Running("reconcile", "judge") /\ NextMessage > since =>
        /\ ~job.completed
        /\ job.breaking # 0 => disposition[job.breaking].round = Latest
=============================================================================
