--------------------------- MODULE Administration ---------------------------
(***************************************************************************)
(* What enters the serial executor: the commands of the administration     *)
(* pages (web/routes/rounds.ts, moderation.ts, leaderboard.ts), composed   *)
(* with live messages and reconciliations of the active channel            *)
(* (discord-adapter.ts, reconciliation-service.ts).                        *)
(*                                                                         *)
(* A route reads the key it will wait for when the request arrives, and    *)
(* the command reads the active round when its turn comes.  Commands are   *)
(* single synchronous transactions (CountingGame), so each acts in the     *)
(* step in which its work begins; only work on messages has awaits.        *)
(* Requests and microtasks interleave freely, which is more than node      *)
(* allows.  The wake-up of the outbox after a command, which may name      *)
(* another channel than the one it acted on, is left to the pump's         *)
(* interval (OutboxPump).                                                  *)
(*                                                                         *)
(* A definition whose name ends in _ is a faulty variant of the one after  *)
(* it; see GameRules.                                                      *)
(***************************************************************************)
EXTENDS SerialExecutor, Integers, Sequences

CONSTANTS
    Lifecycle,      \* the key "round-lifecycle"
    Templates,
    Commands,       \* requests to pause, resume, ban, unban or cancel
    Activations,    \* requests to activate
    Resets,         \* requests to reset the season
    Intakes,        \* live messages and reconciliations
    MaxEdits        \* bound on edits of templates

ASSUME TasksAreOfFourKinds ==
    /\ Tasks = Commands \union Activations \union Resets \union Intakes
    /\ Commands \intersect (Activations \union Resets \union Intakes) = {}
    /\ Activations \intersect (Resets \union Intakes) = {}
    /\ Resets \intersect Intakes = {}
ASSUME LifecycleIsAKey == Lifecycle \in Keys
ASSUME EditsAssumption == MaxEdits \in Nat

VARIABLES
    channelOf,  \* round_templates.channel_id
    edits,
    rounds,     \* the channels of the rounds activated so far
    active,     \* the active round, an index of rounds, or NoRound
    unsettled,  \* a terminal round has unresolved Discord work
    granted,    \* the channels in which the bot has every capability
    chosen,     \* by activation: its template
    checked,    \* by activation: the channel whose permissions were reported, or NoTask
    intended,   \* by command: the round that was active when it was sent
    acted       \* by task: the round it changed last, or NoRound

game == <<rounds, active, unsettled>>
history == <<intended, acted>>
vars == <<executorVars, channelOf, edits, game, granted, chosen, checked, history>>

Channels == Keys \ {Lifecycle}
NoRound == 0

Init ==
    /\ ExecutorInit
    /\ channelOf \in [Templates -> Channels]
    /\ edits = 0
    /\ \/ rounds = << >> /\ active = NoRound
       \/ rounds \in {<<c>> : c \in Channels} /\ active = 1
    /\ unsettled = FALSE
    /\ granted \in SUBSET Channels
    /\ chosen = [t \in Activations |-> NoTask]
    /\ checked = [t \in Activations |-> NoTask]
    /\ intended = [t \in Tasks |-> NoRound]
    /\ acted = [t \in Tasks |-> NoRound]

-----------------------------------------------------------------------------
(* The operations, as far as they decide which round is active. *)

ActsOn(t, round) == acted' = [acted EXCEPT ![t] = round]

EndRound ==
    /\ active' = NoRound
    /\ unsettled' = TRUE
    /\ UNCHANGED rounds

\* Without a round requireActiveRound throws.  Which command it is shows here.
CommandActs(t) ==
    /\ t \in Commands
    /\ ActsOn(t, active)
    /\ \/ active # NoRound /\ EndRound   \* cancelRound
       \/ UNCHANGED game                 \* the others

ActivationRefused == active # NoRound \/ unsettled

\* activateRound reads the template again.
ActivationActs(t) ==
    /\ t \in Activations
    /\ IF ActivationRefused
         THEN UNCHANGED <<game, acted>>
         ELSE /\ rounds' = Append(rounds, channelOf[chosen[t]])
              /\ active' = Len(rounds')
              /\ ActsOn(t, active')
              /\ UNCHANGED unsettled

\* resetSeason changes no round; work on messages begins by reading.
OtherWorkBegins(t) == t \in Resets \union Intakes /\ UNCHANGED <<game, acted>>

Acts(t) == CommandActs(t) \/ ActivationActs(t) \/ OtherWorkBegins(t)

Submit(t, k) ==
    /\ Run(t, k)
    /\ IF AtOnce(k) THEN Acts(t) ELSE UNCHANGED <<game, acted>>

-----------------------------------------------------------------------------
(* What is submitted. *)

\* The route's activeChannel.
CommandKey_ == Lifecycle
CommandKey == IF active = NoRound THEN Lifecycle ELSE rounds[active]

CommandArrives(t) ==
    /\ t \in Commands
    /\ intended' = [intended EXCEPT ![t] = active]
    /\ Submit(t, CommandKey)
    /\ UNCHANGED <<channelOf, edits, granted, chosen, checked>>

\* The route reads the template's channel and asks Discord about it.
ActivationArrives(t, p) ==
    /\ t \in Activations /\ checked[t] = NoTask
    /\ chosen' = [chosen EXCEPT ![t] = p]
    /\ checked' = [checked EXCEPT ![t] = channelOf[p]]
    /\ UNCHANGED <<executorVars, channelOf, edits, game, granted, history>>

\* The report, or the failure of asking for it.  Otherwise the request is answered 409.
PermissionsSuffice_(t) == TRUE
PermissionsSuffice(t) == checked[t] \in granted

PermissionsReported(t) ==
    /\ t \in Activations /\ checked[t] # NoTask
    /\ PermissionsSuffice(t)
    /\ Submit(t, checked[t])
    /\ UNCHANGED <<channelOf, edits, granted, chosen, checked, intended>>

ResetArrives(t) ==
    /\ t \in Resets
    /\ Submit(t, Lifecycle)
    /\ UNCHANGED <<channelOf, edits, granted, chosen, checked, intended>>

\* handleMessage and handleReconnect look the channel up and submit in one go.
IntakeArrives(t) ==
    /\ t \in Intakes /\ active # NoRound
    /\ Submit(t, rounds[active])
    /\ UNCHANGED <<channelOf, edits, granted, chosen, checked, intended>>

-----------------------------------------------------------------------------
(* What goes on meanwhile. *)

Begins(t) ==
    /\ WorkBegins(t)
    /\ Acts(t)
    /\ UNCHANGED <<channelOf, edits, granted, chosen, checked, intended>>

Ends(t) ==
    /\ WorkEnds(t)
    /\ UNCHANGED <<channelOf, edits, game, granted, chosen, checked, history>>

\* processMessage, for a message of this channel: it may complete the round.
MessageJudged(t) ==
    /\ t \in Intakes /\ phase[t] = "running"
    /\ active # NoRound /\ rounds[active] = key[t]
    /\ ActsOn(t, active)
    /\ EndRound \/ UNCHANGED game
    /\ UNCHANGED <<executorVars, channelOf, edits, granted, chosen, checked, intended>>

\* The pump delivers the last of a terminal round's operations.
RoundSettles ==
    /\ unsettled
    /\ unsettled' = FALSE
    /\ UNCHANGED <<executorVars, channelOf, edits, rounds, active, granted, chosen, checked, history>>

\* Saving a template does not enter the executor.
EditTemplate(p, c) ==
    /\ edits < MaxEdits /\ channelOf[p] # c
    /\ edits' = edits + 1
    /\ channelOf' = [channelOf EXCEPT ![p] = c]
    /\ UNCHANGED <<executorVars, game, granted, chosen, checked, history>>

Arrives ==
    \/ \E t \in Commands : CommandArrives(t)
    \/ \E t \in Activations, p \in Templates : ActivationArrives(t, p)
    \/ \E t \in Activations : PermissionsReported(t)
    \/ \E t \in Resets : ResetArrives(t)
    \/ \E t \in Intakes : IntakeArrives(t)

Next ==
    \/ Arrives
    \/ \E t \in Tasks : Begins(t) \/ Ends(t)
    \/ \E t \in Intakes : MessageJudged(t)
    \/ RoundSettles
    \/ \E p \in Templates, c \in Channels : EditTemplate(p, c)

\* Continuations run, and work ends: discord.js answers or rejects every call.
Spec ==
    /\ Init /\ [][Next]_vars
    /\ \A t \in Tasks : WF_vars(Begins(t)) /\ WF_vars(Ends(t))

-----------------------------------------------------------------------------
(* Properties. *)

\* "One serialized executor linearizes live messages, reconciliation, and
\* administrative round commands": composed with its callers, the map of tails is
\* a queue per key, first come first served and one at a time, from which every
\* request comes out, and whose key is forgotten with the last in it
\* (SerialExecutor.run, activeKeyCount, whenIdle).
ImplementsKeyedQueue == Queue!Spec

\* A task that changed another round than its caller had read: a command that waited
\* while its round ended and another was activated, or an activation of a template
\* that was given another channel after its permissions were checked.
Stray(t) ==
    \/ t \in Commands /\ acted[t] # intended[t]
    \/ t \in Activations /\ rounds[acted[t]] # checked[t]

\* What was read before the wait still holds when the turn comes, but for strays:
\* whoever changes a round is alone with it, no message or reconciliation of
\* its channel being half-way, and a round is activated only where the bot
\* has its permissions ("Activation is rejected when any required capability is
\* missing").  The routes of rounds.ts and moderation.ts rely on it.
TasksActAsChecked ==
    [][\A t \in Tasks :
         LET round == acted'[t] IN
         (acted'[t] # acted[t] /\ ~Stray(t)') =>
           /\ \A u \in Tasks \ {t} : phase'[u] = "running" => key'[u] # rounds'[round]
           /\ t \in Activations => rounds'[round] \in granted
         ]_vars
=============================================================================
