# Herald of Jams: models, checks and proofs

Herald of Jams runs a counting game in a Discord channel. Players post numbers; the program
judges each one, deletes it and posts a canonical copy, keeps scores per season, and recovers
from disconnections, restarts and failed Discord requests. This directory models the parts of
the program that carry that promise, checks them with TLC and proves the central ones with TLAPS.

- [1. The system](#1-the-system)
- [2. The modules](#2-the-modules)
- [3. What the runs check](#3-what-the-runs-check)
- [4. What is proved](#4-what-is-proved)
- [5. Where the code and its documents disagree](#5-where-the-code-and-its-documents-disagree)
- [6. What is not modelled](#6-what-is-not-modelled)
- [7. Plan](#7-plan)

Paths are relative to the repository's root.

## 1. The system

One Node.js process (`src/main.ts`) holds everything but the Windows launcher. It is
single-threaded: code runs from one `await` to the next, and SQLite (better-sqlite3) is
synchronous, so a transaction is atomic and nothing interleaves with it. What interleaves is what
lies between awaits.

| Component | State | Operations |
|---|---|---|
| Rules (`domain/game-engine.ts`, `domain/scoring.ts`) | none | judge a submission; severity of a break; awards of a completed run |
| Round compiler, parsing (`domain/round-compiler.ts`, `domain/numeric-submission.ts`) | none | a template to entries with bonuses; a message to a number |
| `GameService` (`application/game-service.ts`) | SQLite: seasons, rounds, attempts, submissions, contributions, penalties, bans, score ledger, rows of the outbox | activate, process a message, invalidate, ensure reset, pause, resume, cancel, ban, unban, reset season |
| Outbox (`db/outbox-repository.ts`, `application/outbox-dispatcher.ts`) | SQLite: `discord_outbox`; memory: `initialized` | claim, deliver, record, retry, reconcile by nonce, review, recover after a restart, settle a round |
| Pump (`application/outbox-pump.ts`) | queued channels, retry timers, the drain under way | wake, drain, retry, stop |
| Serial executor (`application/serial-executor.ts`) | the tail promise of each key | run work of one key in order; wait until idle |
| Intake (`discord/discord-adapter.ts`) | `accepting`, `intakeFailure`, `buffered` | handle a message, gate on disconnection or failure, reconcile on reconnect |
| Reconciliation (`application/reconciliation-service.ts`) | SQLite: `channel_checkpoints`; local variables across awaits | read the channel's history from the checkpoint to a high-water mark, again until nothing is new |
| Transport (`discord/discord-transport.ts`) | none | send, delete, look up by nonce, list the history; tell ambiguous errors from definite ones |
| Runtime (`main.ts`, `runtime/`) | how far start-up has come | migrate, connect, reconcile, dispatch, serve, open intake; shutdown |
| Administration server (`web/`) | sessions | routes that call `GameService` and the outbox; a route reads its key before it waits |
| Templates and announcements (`db/admin-repository.ts`, `domain/announcement-templates.ts`) | SQLite: `round_templates`, announcement defaults | save, load, show in a form, resolve a round's announcements |
| Migrations (`db/database.ts`) | schema version | apply each migration once |
| Launcher, supervisor (`launcher/src`, C#) | the bot process, its state, the pending start, the gate | start, stop, restart, dispose; probe, restart after a crash |
| Launcher, configuration (`Configuration/`, `ReconfigurationCoordinator.cs`, the tray) | `config.env`, its candidate and rollback files; the field `supervisor` | set up, configure (stage, stop, activate, start, commit or roll back), exit |

How they interact:

```
 gateway --messages--> DiscordAdapter --job--> SerialExecutor --> GameService --tx--> SQLite
         --reconnect->                --job--> ReconciliationService --^   |             |
                                                                           +-- outbox rows
 admin routes ---------job---------> SerialExecutor --> GameService        |
       |                                                                   v
       +--retry / mark delivered / abandon--> OutboxRepository <-- OutboxDispatcher --> Discord
                                                                  ^ OutboxPump (1 s, wake)
```

* `GameService` commits a decision, its scores and its outbox rows in one transaction. It reads the
  outbox back in two places only: to settle a terminal round and to find a break whose reset
  announcement is missing.
* Live messages and reconciliations work under the channel's key of the executor, so they exclude
  each other; their *callers* do not wait under that key, so the gate (`accepting`,
  `intakeFailure`) is changed between jobs.
* The checkpoint is shared by the adapter (never backwards) and the reconciler (set).

What is hard, and the property each part owes:

| Part | Hard | Owes |
|---|---|---|
| Rules | integer thresholds at exact quarters and percentages | the tiers mean what they say; charging differences costs the worst break |
| Game | long legal sequences over several tables that must agree; duplicates; late operations | tables agree; ledger equals worst severity; the winning run is paid once; rounds and seasons stay closed |
| Outbox | lost and late answers, crashes between send and record, administrators, the nonce window | effects in order; no duplicates; nothing stuck |
| Compiler, parsing | the start exempt from skipping, squares of primes, numbers near the largest safe integer | the round counts from its start to its target; a message is the number it writes |
| Pump | a wake-up, a retry or a stop between the end of a drain and its callback | one dispatch at a time; no wake-up lost; quiet after a stop |
| Runtime | parts stopped one by one while the others give them work; shutdown during start-up | nothing that shutdown waits for writes to a closed database; shutdown ends |
| Supervisor | commands that overlap with each other, with crashes and with the monitor's posted continuations | at most one bot, none unknown; every start returns; restarts are bounded |
| Executor and routes | callbacks of a tail; what was read before the wait | a queue per key; commands act alone and as they were checked |
| Templates | rows of a form taken by position | a template is saved as shown |
| Reconfiguration | the launcher ends between two file operations; commands overlap | the prior configuration survives every failure |
| Intake and reconciliation | gaps, overlapping reconnects, start-up, failures half-way, replays, the next round | nothing passed over; judged in order; a break from the history is finished before anything counts |

`PROJECT.json` lists each hazard at its line, with the properties that would catch it.

## 2. The modules

A definition whose name ends in `_` stands directly before the definition it varies and changes it
the way a plausible bug would: a strict comparison, a dropped guard, a missing reset. Nothing uses
it. Substituting it for the real one must make TLC find the property violated that `PROJECT.json`
pairs with it; that is how each property is known to depend on the code.

### GameRules

Pure operators: `PenaltySeverity`, `AdditionalPenalty`, `ParticipationAwards` (`scoring.ts`) and
`EvaluateSubmission` (`game-engine.ts`). The code's bigint cross-multiplications are products of
naturals. `MCDomain` drives them through all inputs up to a bound.

### CountingGame

Every operation of `GameService`, one action each, because each is one `IMMEDIATE` transaction. An
operation that throws rolls back, so it is not enabled; where *not* throwing is the point
(`penaltySeverity`'s range, the UNIQUE `source_key`, an active attempt), the guard is explicit and a
property says it never stops a message (`AttemptMatchesRound`, `NoSourceKeyCollision`).

| Variable | Table or column |
|---|---|
| `season` | the open season |
| `round` | `rounds`: state, `paused_from_state`, season, `operationally_settled_at`, compiled entries |
| `attempt` | the latest attempt and its accepted authors in rowid order |
| `contributions` | `attempt_contributions` |
| `worst`, `penalties` | `round_player_penalties`; penalty rows of `score_ledger` by `source_key` |
| `awards` | participation and bonus rows of `score_ledger` |
| `bans`, `submissions` | `round_bans`; the decision of each message id |
| `resets`, `openWork` | what the game reads back from `discord_outbox` |

`ResolveWork` stands for a delivery or an abandonment in the outbox. Who supplies which number, and
what a template compiles to, are constants, so every round and every input is covered. Left out:
audit events, names, texts, the operations of the outbox that carry no `roundId` (the game never
reads those but the reset announcements).

### Outbox

One channel's rows 1..n in sequence order, the dispatcher with a program counter between awaits,
the administrator, process stops, time and Discord. Time is two facts that may become true at any
moment: the five-minute nonce window of a row closes, a retry is due. Discord is the environment;
the module's header lists what is assumed of it:

* a request may take effect and answer, take effect and lose its answer, be lost, be refused, or
  take effect late;
* while a nonce is remembered a second create with it posts nothing; it is forgotten only after the
  window closed and when no request with it is under way;
* a lookup may miss (it sees a hundred messages), but finds only what is there;
* an answer with a status code means that the request had no effect.

What all this promises the game is `OrderedChannel`: operations asked for one after the other appear in
the channel, and are concluded, in that order; only what a person gave up may be missing or late; the
round is settled in the step that concludes the last of its operations. `ImplementsOrderedChannel` maps
rows, effects and `operationally_settled_at` to it.

The administrator follows `docs/operations.md`: a row is marked delivered only when the message is
there. `RecordDeliveredThrows` is the write that fails inside the dispatcher's `try` block and is
taken for a definite failure; `WriteThrows` is any other, which leaves the row `delivering`.

### MessageIntake

The adapter's gate and buffer, the executor's queue for the channel, reconciliation from await to await,
start-up, gaps and crashes. `conts` holds reconciliations that ended but whose caller has not continued: the
executor starts the next job some microtasks earlier. No event or answer of Discord comes between
(`MicrotasksDone`). `FailuresOverlap` says whether a reconciliation or a message may fail while something
else, start-up or another reconciliation, is still going to open the gate: with it the module shows the second
disagreement of section 5, so the passing run is without. What the game decides about a message is left open:
recorded, completing or, while a run is in progress, broken. `rounds` has the rounds of the channel in order;
an administrator cancels and activates them between jobs (`BetweenJobs`), and a stored disposition remembers
its round, because `pendingReconnectBreak` and `roundCompleted` look at rounds that are over.

`outbox` has what of the channel's outbox reaches back into the intake: the deletion that each recorded
message gets with its disposition, and `RoundEnd`, which stands for the announcements of a round that
ended. They are delivered in order (`Dispatch`); a deletion cannot be reviewed or abandoned
(`outbox-dispatcher.ts:54`), so until it is delivered the message is listed and after that it is not
(`InChannel`). A round is activated once the last one is settled (`Settled`), that is, after every deletion
of its messages; so no message of a completed round is read in a later one. A reconciliation keeps what it
listed (`listing`), since messages may be deleted while it works. The properties speak of
messages posted in a round (`since`): what becomes of a post between rounds is section 5's business.

Assumed of the gateway: in order while connected; after a gap, `reconnected` comes before any
message posted after it; what was on its way at the disconnection is not delivered.

### OutboxPump

`outbox-pump.ts`, all of it. `queued` is the JavaScript Set in insertion order. `draining` is the
field of that name; a drain whose loop has ended stays in `loopsEnded` until its `finally` callback
runs, so the moment between the two exists. `astray` has the timers that `scheduleRetry` overwrote
without clearing. What the dispatcher answers is open, and so is which channels `wakeAll` finds.

### Runtime

`ApplicationRuntime` of `main.ts`: `startAt` and `shutAt` are where `start()` and `shutdown()` wait,
and the module EXTENDS `OutboxPump`, whose actions are its own. Of the executor and the server the
number of jobs and requests under way is kept: `whenIdle` and `server.close` wait for nothing else.
`flushDue` is the continuation of a reconnect, which gives the adapter's buffer to the executor.
A shutdown may begin at any time, since `main()` installs its handlers before it calls `start()`.

### RoundCompiler, NumericSubmission

Pure operators, with `Filtering` for what the loops keep. `MCDomain` builds every template up to a bound rule by rule and compares with the
set of values the design describes; it types every message up to a length and compares with the
number it writes. Base and largest safe integer are parameters, since the code
looks at digits only.

### BotSupervisor

`BotSupervisor.cs` with the processes it starts. Every command has a place (`pc`), and `queue` is the
gate: its holder, then its waiters in order, as `SemaphoreSlim` serves them. All code runs on the UI
thread, so a step is what lies between two awaits. Cancelling the monitor ends it at once unless the
task it awaits had already completed: `overtaken` says that such a continuation will run once more.
`MonitorThrows` and `StartThrows` are the exceptions nobody catches: a process that cannot be created,
an answer that is not JSON. `botAge` and `rapid` in `monitor` are history for a property. Assumed: the
`Process` of a bot that exited may or may not accept a write, a disposed one throws; a probe may
answer anything; and a bot that is terminated is dead at once. The last is a simplification: `Process.Kill`
(`BotProcess.cs:64`) only asks for the end, and `StopAsync` (`BotSupervisor.cs:53`) says Stopped without
waiting for it. What a bot does in those moments is not modelled.

### Reconfiguration

`AtomicConfigurationStore`, `ReconfigurationCoordinator` and the commands of
`TrayApplicationContext`, from await to await. A file's content is the number of the application
that wrote it, so that "byte-identical" is equality. Supervisors appear as their callers see them: a
gate, a bot that runs what it read, the answer to a start. Nothing disables the tray's menu while a command
awaits, so a second Configure or an Exit may overlap (`overlapped`, `disturbed` are history); between its
stop and its next start a command has the UI thread for itself (`Turn`).

`logs` is the tray's field of that name: `herald.log` is opened exclusively for writing
(`RotatingLogWriter.cs:40`), so `StartRuntimeAsync` throws while earlier logs are open (`StartThrows`), as
they are after a stop that threw (`TrayApplicationContext.cs:145`, before 146 closes them) or beside
another application's supervisor. Then no bot is started.

`LauncherEnds` may come between any two file operations. The files survive, and so do the bots: a bot does
not react to the end of its input (`control-channel.ts:22`) and no job object ties it to the launcher
(`BotProcess.cs:35`). No later tray knows them; `orphaned` says that there may be some, and that the next
launch's bot may find the port taken by one, even after the probe, which the old bot answers, has called
it ready.

### SerialExecutor, KeyedQueue, Administration

`SerialExecutor` is `serial-executor.ts`: the map of tails and, by call, the tail it was chained to.
`KeyedQueue` is what a caller is promised: a line per key, first come first served, one at a time, from
which everyone comes out, and a key in use exactly while somebody is in its line. `Predecessors` maps
the chain of promises to the line.

`Administration` EXTENDS the executor with everything that submits work: the commands of the
administration pages, activations with their permission report, season resets, live messages and
reconciliations. A route reads the key (or the template's channel) when the request arrives and the
command reads the active round when its turn comes; `intended` and `checked` keep what was read. Of
the game, only which round is active in which channel is kept.

### TemplateForm

A template's way from the edit page (`template-edit.eta`) through the parser (`templates.ts`) to its row
(`admin-repository.ts`) and back, and the announcements a round gets (`resolveAnnouncements`). Pure
operators; `MCDomain` fills in forms row by row, with cleared and unreadable rows.

### Filtering

`Array.prototype.filter`, for the compiler's rules and the rows of a form: the elements at some positions,
in ascending order. `SelectSeq` of the standard modules gives the same sequence but is recursive, which
the proofs cannot reach.

### CountingGameProofs, OutboxProofs, MessageIntakeProofs, RuntimeProofs, AdministrationProofs, BotSupervisorProofs, ReconfigurationProofs, DomainProofs

The theorems of section 4, a module for each component; `RuntimeProofs` holds those of the pump as well,
`AdministrationProofs` those of the executor, `DomainProofs` those of everything `MCDomain` drives.

## 3. What the runs check

The longest, `intake`, has 1.3 million states and takes two and a half minutes with two workers; the violated
ones take seconds.
Deadlock checking is off everywhere because each model may really stop: its messages, rounds or
faults are used up.

| Run | Module, cfg | Checks | Instance |
|---|---|---|---|
| `domain` | `MCDomain` | award is the tier of the share; all charges together are what the furthest break costs; exactly the sound templates compile, to the designed round; parses like the number; a form saves what it shows | 3 contributors with up to 7 each; rounds of up to 13; start to 3, target to 10, step to 3, 2 rules of 4 kinds; base 3, 5 characters; forms of 3 rows |
| `game` | `MCCountingGame` | types; attempt matches round; nobody twice in a row; penalties are worst; no `source_key` collision; awards pay the winning run; rounds do not overlap; nothing left means settled; closed season frozen; terminal round final | 2 players; one round of 5 entries with bonuses and 7 messages, or 2 short rounds, 3 messages, 3 seasons |
| `outbox` | `MCOutbox` | implements `OrderedChannel`; dispatcher owns its row (with types); duplicates only after forgetting; every operation is handled (liveness) | 3 operations, 2 lost answers and 1 fault of each other kind |
| `outbox_blind` | `MCOutbox_blind` | *violated*: no blind duplicate | 1 operation, one lost answer, one refusal |
| `intake` | `MCMessageIntake` | types; checkpoint covers examined; judged in order; a break from the history stops evaluation until its reset, and invalidates only until then; every message is examined (liveness) | 3 messages (one of a bot), 2 rounds, 2 gaps that may overlap, 1 failed reconciliation, 1 failed message, 1 crash, at most 3 of these in all |
| `intake_startup` | `MCMessageIntake_startup` | *violated*: checkpoint covers examined | 3 messages, 1 gap, 1 failed reconciliation |
| `intake_rounds` | `MCMessageIntake_rounds` | *violated*: evaluation stops for its round | 3 messages of players, 2 rounds, 2 gaps, 1 failed reconciliation |
| `runtime` | `MCRuntime` | types of both modules; one dispatch at a time; quiet when the database is closed; a wake-up is served, shutdown ends (liveness) | 2 channels, 2 jobs and 1 request at a time |
| `administration` | `MCAdministration` | the executor implements `KeyedQueue`, also that everyone comes out (liveness); tasks act as checked | 2 channels and the life-cycle key; 1 command, 1 activation, 1 reset, 2 jobs of intake; 1 template, 1 edit |
| `supervisor` | `MCBotSupervisor` | Stopped means no bot; no orphan (with types); rapid crashes end; only a Restart outlives Exit; every command ends (liveness) | a start, 2 commands, 2 crashes or failed starts, 1 restart in the budget |
| `reconfiguration` | `MCReconfiguration` | the prior configuration is kept (with types); failure restores it; the launch's bot runs the configuration; every application ends (liveness) | 2 set-ups or Configures, 2 launches, 1 failure |
| `reconfiguration_overlap` | `MCReconfiguration_overlap` | *violated*: a failed candidate is restored | 2 Configures, 1 launch |

Why the bounds are enough for the cases that matter:

* 13 entries reach every residue of the quarters (a round of 4 and its neighbours among them); 7
  submissions each for 3 players hit 75 %, 110 % and 150 % exactly and from both sides.
* `game` follows a behaviour while it is in one of two scenarios (`Scenario`), since depth within a
  round and breadth across rounds are questions apart. A round of 5 has progress at all four severities,
  so 7 messages make a player break at a mild and then at a worse severity, or the reverse, with a run
  between. Values differ from positions, and some entries carry bonuses.
* Two rounds are what one can leave to the next; three seasons are one before, between and after.
* Three operations are a create, a deletion behind it, and a create behind both: every order of
  effects to confuse. The fault budgets let two lost answers meet a refusal, a failed lookup, a
  failed write and a crash.
* Two gaps give overlapping reconciliations and a gap inside a start-up; three messages are one
  before, between and after them, and the one in the middle is a bot's, which only the high-water
  mark covers. Three faults in one history are both gaps with a failure or the crash, or one of three kinds.
  Two rounds are one that ends, with whatever it leaves in the submissions and the
  checkpoint, and its successor. In `intake_rounds` the first gap gives a reconciliation that finds a break
  and fails, the second one the reconciliation that takes it up in the next round.
* Two channels of the pump are one dispatched or with a timer and one queued behind it; the proofs
  cover any number.
* Two jobs of the executor are one under way and one queued behind it, or one of start-up and one of
  the gateway. One request is one that shutdown has to wait for.
* Numbers to 10 contain 4 and 9, the squares that a bound on factors can get wrong. Limits of 6
  included entries and 9 candidates are met and passed, separately. Two rules are two of the same
  list or one of each.
* Base 3 with largest number 21 has numbers of the same length below, at and above it, of a greater
  length that compare smaller as strings, and leading zeros before all of them.
* Two crashes are one more than a budget of one restart; two commands beside the start are a Restart
  that an Exit overtakes, or the reverse. Two ticks tell "some time" from "the five minutes".
* Two applications are a set-up and a Configure, or two Configures that may overlap; two launches are
  one that ends anywhere and its successor, which may have an orphaned bot beside it. One failure comes
  beside the candidates' bots, which may always refuse.
* Two channels are a round's and the next one's; a command behind a job of intake that ends its round
  while the activation begins another is the longest chain of the administration's hazards. The proofs
  cover any number.
* Three rows of a form are a cleared one with a rule before and after it.

`LowestIdFirst` in `MCCountingGame` is a state constraint that removes renamings: ids are used in
order. `game` uses it and the symmetry of the players, and has no liveness property. `FirstRoundIsInA` in
`MCAdministration` does the same for channels, which all are alike: every behaviour it cuts off is a
renaming of one that is followed to its end, so the liveness in `administration` is checked on all of them.

Fairness:

* `outbox` assumes that the dispatcher takes a step when it has one (the pump) and that a stopped
  process is started again (the launcher). No administrator has to act, so an operation may stay
  behind one that needs review; and nobody has to restart the process, so it may stay behind a row
  that a failed write left `delivering`. Faults are finite.
* `intake` assumes that pending microtasks and answered awaits run, that the gateway delivers and reconnects
  (discord.js retries for ever), and that the process is started again. Nobody posts or disconnects by
  fairness, nothing in the outbox has to be delivered, and no round has to be activated. A gate that
  `intakeFailure` keeps closed stays closed, as the code means it to, until the next reconnect or restart.
* `runtime` assumes that jobs, requests and dispatches end (requests to Discord time out), that a
  `finally` callback runs, that what is awaited continues and that a timer fires. The interval is not
  relied on, nothing has to arrive, and nobody has to shut down.
* `administration` assumes that a continuation whose promise is settled runs and that work ends
  (discord.js answers or rejects every call). No request has to arrive.
* `reconfiguration` assumes that the UI thread runs what is posted, that a start is answered (which is
  what `EveryCommandEnds` says of the supervisor) and that an Exit which succeeded ends the launcher. The
  launcher need not be started again.
* `supervisor` assumes that the UI thread runs what is posted, that delays and
  probes end (a probe after 400 ms) and that time passes. A bot need not exit, be healthy or answer.

What `intake` does *not* cover: failures while start-up or another reconciliation will still open the
gate. That is the second disagreement of section 5. Nor does it ask that breaks of ended rounds leave
the active one alone: that is the third.

## 4. What is proved

`CountingGameProofs` proves, for every set of players, messages, rounds, compiled rounds and inputs
and every bound on seasons (assumptions: the named `ASSUME`s of `CountingGame`):

| Theorem | States |
|---|---|
| `CoreInvariant` | `Spec => []CoreInv` |
| `TypeCorrect` | `Spec => []TypeOK` |
| `AttemptsMatchRounds` | `Spec => []AttemptMatchesRound` |
| `PenaltiesAreWorst` | `Spec => []PenaltyTotalIsWorst` |
| `SourceKeysAreFree` | `Spec => []NoSourceKeyCollision` |
| `WinningRunsArePaid` | `Spec => []AwardsPayTheWinningRun` |
| `RoundsNeverOverlap` | `Spec => []RoundsDoNotOverlap` |
| `SettlementIsNotMissed` | `Spec => []NothingLeftMeansSettled` |
| `ClosedSeasonsAreFrozen` | `Spec => ClosedSeasonIsFrozen` |
| `TerminalRoundsAreFinal` | `Spec => TerminalRoundIsFinal` |
| `NobodyRepeats` | `Spec => []NobodyCountsTwiceInARow` |

The argument:

* `CoreInv` is types, `AttemptMatchesRound`, and `ConfigInv` (a round that exists has at least one
  entry and one of the compiled lists). The last is needed because an accepted value only stays
  short of the last entry if there is one: an engine that completes exactly at the last entry keeps
  the length of a run in progress between one and the number of entries less one.
* `LedgerInv` is `PenaltyTotalIsWorst` with `NoRowBeyondWorst`: a player has no penalty row at a
  severity worse than their worst. `PenaltyTotalIsWorst` alone is not inductive, for a break at a
  worse severity could meet an old row there. From the two, `NoSourceKeyCollision` follows: a new row
  is only inserted beyond the worst.
* `SettlementInv` is `RoundsDoNotOverlap`, `NothingLeftMeansSettled` and `SeasonInv` (an active round
  belongs to the open season, no round to a later one); the two action properties follow from it step
  by step.
* `NobodyRepeats` uses the engine's same-player rule and the agreement of attempt and round.
* `AwardsInv` says of every round that what was paid is what the property asks for (`Paid`), and that
  the contribution rows of a run in progress are its tally (`Counted`): who counted, and the bonuses of
  the entries they supplied. The second is needed because a completion pays from those rows. An accepted
  value adds its bonus to one player's sum and leaves the others'. The sum is a fold over a set of
  positions, which its definition picks from in an order of its own: that the fold is defined, and that
  taking out any one element changes it by that element's bonus, is shown by the induction described
  under `DomainProofs`.

`OutboxProofs` proves, for every number of operations, any of them messages or deletions, any of them the
round's, and every number of faults (assumptions: the named `ASSUME`s of `Outbox`):

| Theorem | States |
|---|---|
| `OutboxInvariant` | `Spec => []OutboxInv` |
| `DispatcherIsAlone` | `Spec => []DispatcherOwnsItsRow` |
| `DuplicatesNeedAForgottenRow` | `Spec => []DuplicatesOnlyAfterForgetting` |
| `NoBlindDuplicateWithoutFailures` | `Spec => []NoBlindDuplicate`, if `NothingFails` |
| `OutboxImplementsOrderedChannel` | `Spec => ImplementsOrderedChannel` |

`OutboxInv` is types and five parts. `PhaseInv` says where the dispatcher is and what that says of its row;
`OrderInv` that a row somebody touched, or whose request is still on its way, has only resolved rows before
it, so that there is at most one; `EffectInv` that delivered means done; `SettledInv` that the round is
settled exactly when its operations are resolved. `NonceInv` is what makes a resend safe: a message that
may have reached Discord is unconfirmed, and unless its row was forgotten it says `ambiguous`, so that
the dispatcher looks before it sends; and its nonce is remembered while the window is open or a request
is late. The refinement needs the first four: an effect appears only when everything before it is
resolved, and `finishRound` runs in the step that resolves the last row.

`NoBlindDuplicate` is what the run `outbox_blind` refutes. `NothingFails` (no refusal by Discord, no
transaction of the dispatcher that throws) is where it does hold, with any number of lost answers, late
effects, missed lookups and crashes: it delimits the disagreement of section 5 from the other side.

`MessageIntakeProofs` proves, for every number of messages, rounds, gaps, failures and crashes and
every set of players' messages, if failures do not overlap (`NoOverlap`; otherwise assumptions are the
named `ASSUME`s of `MessageIntake`):

| Theorem | States |
|---|---|
| `IntakeInvariant` | `Spec => []IntakeInv` |
| `IntakeIsTyped` | `Spec => []TypeOK` |
| `NothingIsPassedOver` | `Spec => []CheckpointCoversExamined` |
| `MessagesAreJudgedInOrder` | `Spec => JudgedInOrder` |
| `NothingIsEvaluatedBeforeTheReset` | `Spec => InvalidatedUntilTheReset` |

`NoOverlap` is not a convenience: with `FailuresOverlap = TRUE` the run `intake_startup` refutes
`CheckpointCoversExamined`, in a behaviour of the code (section 5). A failure may still come at any await
of any reconciliation or message, any number of times, with gaps and crashes between; what it may not do
is meet a start-up or a reconciliation that will open the gate on its own account.

`CheckpointCoversExamined` says nothing of the messages that are still to be examined, and a proof needs to
know where each of them is. Call a player's message of the round *due* if it is posted and not examined.
`QueueOrder`, `BufferOrder`, `TransitOrder` and `OnlineOrder` say that a due message which a later one could
overtake is ahead of it in the queue, the buffer or on its way from Discord, or that a reconciliation in front
of the later one will read it (`WillRead`), or that the gate stays closed until a reconciliation is queued
(`Stuck`). A reconciliation ends when a listing is empty, so it leaves nothing due up to its high-water mark;
that it may trust its local `cursor` across its awaits, and its listing although messages are deleted
meanwhile, is `JobInv`: up to the mark, every message of a player beyond the cursor is in the listing or was
examined, because only what has a disposition is deleted and nothing gets one unexamined (`RecordedInv`). The
gate is closed behind a failure, and what is queued behind a failing message is buffered and not judged
(`GateInv`). `BootInv` says that the reconciliation of the start-up is the first job and its continuation the
first to run, so no reconnect opens the gate before it. `BreakInv` says that at most one break waits for its
reset, and that it is the one the reconciliation under way holds in `breaking`, or that a reconciliation comes
before any message of its round. TLC checked `IntakeInv` and `RecordedInv` on the instance of the run `intake`.

The proof found what TLC's bounds had not. `JudgedInOrder` used to hold of every disposition. It fails
when a reconciliation queued in a round that was cancelled meanwhile takes up the pending break of an
older round and invalidates a message while an earlier one has not been examined; that takes two cancelled
rounds, four gaps and two kinds of failure. As no round is active then, nobody loses anything by it, and
the property is now about active rounds, as its neighbours are. `BufferedFlushed` was rewritten without
`SelectSeq`, which is recursive; it is the same filtered sequence.

`RuntimeProofs` proves of the pump alone, for every finite set of channels:

| Theorem | States |
|---|---|
| `PumpInvariant` | `PumpSpec => []PumpInv` |
| `PumpTypeCorrect` | `PumpSpec => []PumpTypeOK` |
| `PumpDispatchesOne` | `PumpSpec => []OneDispatchAtATime` |
| `PumpStopsQuietly` | `PumpSpec => []StoppedIsQuiet` |

`PumpInv` says that the pump is in one of three phases: it rests (`draining` unset, nothing under
way), it dispatches (`draining` set, exactly one dispatch, no ended loop), or it settles
(`draining` set, no dispatch, one ended loop). `StoppedIsQuiet` says that nothing is under way
once `stop()` has returned; the runs check it as part of `QuietWhenClosed`. `OneDispatchAtATime`
alone is not inductive: an answer that arrives while a second drain is settling would leave
`draining` unset beside a dispatch. The rest of it says that a pump which was told to stop does
not run, and that a `stop` that has returned left it resting. That `queued` never repeats a
channel (it is a Set) is part of the types, and is what bounds the listings `wakeAll` may produce.

And of the whole process, for every bound on jobs and requests:

| Theorem | States |
|---|---|
| `RuntimeInvariant` | `Spec => []RuntimeInv` |
| `RuntimeTypeCorrect` | `Spec => []TypeOK` |
| `RuntimeImplementsPump` | `Spec => PumpSpec` |
| `RuntimeDispatchesOne` | `Spec => []OneDispatchAtATime` |
| `RuntimeClosesQuietly` | `Spec => []QuietWhenClosed` |

`PumpSpec` lets the pump be started and stopped once and woken by anyone. That the process keeps to
it needs the order of `shutdown()`: the server is closed before the pump is stopped, so a `start()`
that finds the server open finds a pump that was never stopped. `RuntimeInv` is types, that order
(`OrderInv`), and what is over at each stage (`WorkInv`: no request once the pump is being stopped,
no subscription once it has stopped, no job once `whenIdle` returned). With the pump's invariant
`QuietWhenClosed` follows.

`AdministrationProofs` proves of the executor alone, for all sets of calls and keys:

| Theorem | States |
|---|---|
| `ExecutorIsALine` | `ExecutorSpec => []ExecutorInv` |
| `ExecutorExcludes` | `ExecutorSpec => []OneAtATime` |
| `ExecutorForgetsIdleKeys` | `ExecutorSpec => []BusyKeysHaveWork` |
| `ExecutorIsAQueue` | `ExecutorSpec => Queue!SafetySpec` |

That two works of a key never run together is far from inductive: it needs that each call found the
one before it as the tail. `ExecutorInv` says so for the whole key at once: the calls that are not over
form a line without repetition, each chained to its predecessor and waiting, the first one ready, the
last one the tail. A new call extends the line; only its first can begin; its end drops the first, and
the tail with it exactly when the line is empty.

`ExecutorIsAQueue` is the refinement of `KeyedQueue` without its fairness: every step is a `Join`, an `Enter`
or a `Leave`, or changes nothing a caller sees. Whom a call waits for is `Predecessors`, a recursive function
along the chain of promises. The line shows that the recursion ends (`WalksEnd`) and, by induction along the
line, that what it collects is exactly the part of the line before the call (`WalkAlongALine`); so the end of
the first takes it out of everybody's way and begins nobody else. `QueueInv` adds that whoever is in no line
waits for nobody.

And of the executor with its callers, for all disjoint sets of commands, activations, resets and intakes, all
channels and templates and any number of edits (assumptions: the named `ASSUME`s of `SerialExecutor` and
`Administration`):

| Theorem | States |
|---|---|
| `AdministrationInvariant` | `Spec => []AdminInv` |
| `AdministrationQueues` | `Spec => Queue!SafetySpec` |
| `AdministrationActsAsChecked` | `Spec => TasksActAsChecked` |

`AdminInv` is the executor's invariant, which every step of the composition keeps because its steps on
the executor's variables are the executor's; types; and what ties a task's key to what it had read
(a command sent for a round has that round's channel as key, a submitted activation has the channel
whose permissions were reported). A task that acts is running or just begins, so by exclusion no other
one is half-way under its key, and the key is the channel of the round it changes unless it strays.
`AdministrationQueues` is the safety half of the run's `ImplementsKeyedQueue`.

`BotSupervisorProofs` proves, for every number of commands, crashes and restarts in the budget and every
length of the healthy time (assumptions: the named `ASSUME`s of `BotSupervisor`):

| Theorem | States |
|---|---|
| `SupervisorInvariant` | `Spec => []SupervisorInv` |
| `NoBotIsLost` | `Spec => []NoOrphan` |
| `StoppedIsTrue` | `Spec => []StoppedMeansNoBot` |
| `RestartsAreBounded` | `Spec => []RapidCrashesEnd` |
| `ExitEndsTheBot` | `Spec => []OnlyARestartOutlivesExit` |

`NoOrphan` and `StoppedMeansNoBot` follow from `BotInv`: a bot that is alive is `process`, its handle is open
and the launcher does not say Stopped. To keep it through a start one has to know that no bot is alive then,
and that is a matter of who holds the gate. `GateInv` describes its queue: nobody twice, the command that
talks to the bot in front, those that still have to stop it in the order of the clicks behind those that want
to start it. `MonitorInv` says that a monitor which still acts observes `process`, and that a command with the
bot in its hands has overtaken it, so its posted continuation will find itself cancelled. `CreditInv` counts:
every bot was started by a command or replaces a crashed one, which bounds the list. `RapidInv` ties the ghost
count of rapid crashes to `restartCount` as long as the bot is young, and `ExitInv` says of every Exit that
has returned: the gate is disposed; whoever still waits in it to start a bot is a Restart clicked before; and
if there is a bot, the last start was by such a Restart, which came out of the disposed gate with an
exception. `threw` is the mark that tells it from a Restart that had started its bot before the Exit: that bot
the Exit has stopped, and nothing is exempted for it.

`ReconfigurationProofs` proves, for every number of applications, launches and failures:

| Theorem | States |
|---|---|
| `ReconfigurationInvariant` | `Spec => [](ReconfigurationInv /\ LogsInv)` |
| `ThePriorConfigurationIsKept` | `Spec => []PriorIsKept` |
| `BotsFollowTheConfiguration` | `Spec => []BotsRunTheConfiguration` |
| `FailuresRestore` | `Spec => FailureRestores` |

Unless applications overlap, the one under way is the last one begun (`OrderInv`), so what is in `config.env`,
`config.env.rollback` and the candidate files can be read off its place: that is `FileInv`, and `PriorIsKept`
is the part of it that does not name the place. `TargetInv` and `BotsInv` say that the supervisor a command
stops is the one in the field, which alone of the launch's supervisors may have a bot. `LaunchInv` says that
nothing is applied before there is a configuration. `LogsInv` says that the logs are open only beside a
supervisor in the field, and closed wherever an application goes on from a stop to its next start: so those
starts, and the set-up's, do not throw for the logs. Both invariants are proved together. Bots that earlier
launches left are in none of this: `BotsFollowTheConfiguration` is about the bots of one launch. The
exceptions (`overlapped`, `disturbed`) are those of the properties; the run `reconfiguration_overlap` shows
that the first one is needed.

`DomainProofs` proves of the pure functions, as `MCDomain` drives them, for every finite set of contributors
with any counts, rounds, messages and forms of any length, any number of rules, any kinds of announcements,
any base and largest safe number, and any limits of the compiler (assumptions: the named `ASSUME`s of
`MCDomain`, `RoundCompiler` and `NumericSubmission`). The values inside a rule and the texts in a row are the
few of `Predicates` and `Rows`; what they may be, relative to the target, is the only bound left.

| Theorem | States |
|---|---|
| `DomainInvariant` | `Spec => []DomainInv` |
| `AwardsAreTiersOfShares` | `Spec => []AwardIsTierOfShare` |
| `ChargesAlwaysTelescope` | `Spec => []ChargesTelescope` |
| `MessagesParseLikeNumbers` | `Spec => []ParsesLikeTheNumber` |
| `FormsSaveWhatTheyShow` | `Spec => []FormSavesWhatItShows` |
| `TemplatesCompileAsDesigned` | `Spec => []CompilesTheDesignedRound` |

* *Awards.* The thresholds are tested one after the other on cross-multiplied products; they are nested, so
  the tier is the number of those reached. That `TotalCount`, a fold over the contributors, is a natural number
  needs `FoldExists`: a fold in an order of its own is defined on every subset of a finite set.
* *Penalties.* `DomainInv` says that the charges add up to the worst severity and that it is the one of the
  furthest break (`FurtherCostsMore`: a longer run never costs less).
* *Messages.* `Written` is a recursive function, `ValueOf` a fold; both write prefix by prefix the same numbers (`IsWriting`). Comparing strings of equal length by
  their first different digit decides as the numbers do, because a prefix that is greater by one stays
  greater whatever follows (`GreaterStaysGreater`); a longer string without leading zeros is the greater number
  (`LongerIsGreater`); removing zeros changes no number (`NormalizedWritesTheSame`).
* *Forms.* `FilteredIs` says of `Filtered` that it keeps exactly the chosen positions in ascending order;
  the rows shown are the rules saved, the page of a template has a row for each of its rules, and so
  parsing that page gives the template again. Ids agree unless a row was cleared before them.
* *Templates.* `PrimesAre` is the bound on factors: a composite number has one whose square does not exceed
  it. `StepsReach` identifies the candidates of the loop with the values a number of steps reaches, and
  `KeptAreTheRound` what is kept of them with the round of the design, in ascending order. Each rejection of
  `compileRound` is one clause of `Sound` (`SoundTemplatesCompile`), and `BonusesAre` gives each entry its rules.

The induction these proofs need is not that of the library, whose theorems take a predicate that the installed
provers cannot instantiate. `SetInduction` states it for a set: one that contains 0 and the successor of each
of its members is `Nat`; it is proved from the well-foundedness of `<`, and `SizeInduction` from it, for sets of
subsets. A proof then defines the set of the numbers of which its claim holds. It makes provable what a
recursive *function* or a fold computes; operators declared `RECURSIVE` stay out of reach, and no module uses any.

Only model-checked, and why:

* Liveness (`EveryOperationIsHandled`, `EveryMessageIsExamined`, `WakeIsServed`, `ShutdownEnds`,
  `EveryCommandEnds`, `EveryApplicationEnds`): fairness and `ENABLED` are out of TLAPS' reach. For the same
  reason the fairness in `ImplementsKeyedQueue`, that everybody gets their turn: its safety is
  `AdministrationQueues`.
* What a `violation` run refutes is no theorem, except under the condition stated with it (`NothingFails`,
  `NoOverlap`).

Every other property of a passing run, invariant or action property, is a theorem.

## 5. Where the code and its documents disagree

1. **An ambiguity can be forgotten** (`outbox_blind`). `scheduleRetry`
   (`src/db/outbox-repository.ts:152`) overwrites `last_error`, which is where the dispatcher keeps the
   mark `ambiguous:`. A create whose answer was lost but which took effect, a lookup that misses it, a
   resend that is refused (rate limit, a failed channel lookup): the row is now an ordinary retry. Once
   the window has closed and Discord has forgotten the nonce, it is sent again. The design says it
   "enters an administrator-visible review state rather than risking a blind duplicate".
   `DuplicatesOnlyAfterForgetting` shows that this is the only way to a duplicate: the failed write of
   `recordDelivered` is another entrance to it.
2. **The gate opens over a gap** (`intake_startup`). `startAcceptingMessages`
   (`src/discord/discord-adapter.ts:218`) clears `intakeFailure` and sets `accepting`, whatever a
   reconnect during start-up left. If that reconnect's reconciliation failed, the next live message is
   judged and moves the checkpoint past messages nobody examined; no later reconciliation lists them.
   The continuation of an overlapping reconciliation can do the same, and so can a live message that
   was queued behind the one that fails.
3. **A deferred break reaches into the next round** (`intake_rounds`). `pendingReconnectBreak`
   (`src/db/game-repository.ts:55`) returns the latest break of the channel that has no reset announcement,
   whatever became of its round. A reconciliation defers the reset of a break it finds; when it fails
   before the end, and the round is cancelled and settled and another one activated, the next reconnect's
   reconciliation takes that break up and invalidates what was posted in the new round, on its account. If that
   one is cancelled too, out of order (section 4). The design lets evaluation stop when "the round completes"
   or at a break of "the attempt". (`completed` is read off the round of the message at hand, too, in
   `reconciliation-service.ts:57`; but a message of a completed round is deleted before the next round can be
   activated, so that does no harm: with up to three faults TLC finds no
   evaluation of a round stopped by it.)
4. **Overlapping Configures lose the configuration** (`reconfiguration_overlap`). There is one
   `config.env.rollback`, and the tray's menu stays enabled while a Configure awaits. A second Configure waits for
   the gate of the supervisor that the first one disposes, so its stop throws, by which time the first has
   activated its candidate. The second has activated nothing, and its rollback deletes the shared file all the
   same (`AtomicConfigurationStore.cs:89`); its recovery throws at the first one's open log file. When the first
   one's bot refuses the candidate, there is nothing to put back, and its rollback deletes `config.env` (lines 85
   and 86). `docs/operations.md:9` says that a failed candidate "restores the byte-identical prior file".
   Without overlap `PriorIsKept` and `FailureRestores` hold.

Exceptions that are written into properties that hold, each a few steps short of what one would like:

* *Shutdown does not know of start-up.* `QuietWhenClosed` exempts what `start()` awaits. A shutdown
  that arrives while `dispatchPending` awaits Discord stops the pump and the executor, neither of
  which carries that dispatch, and closes SQLite. The answer cannot be recorded; the row stays
  `delivering` and is looked up at the next start.
* *A Restart's bot can outlive an Exit.* `OnlyARestartOutlivesExit` exempts the bot of one kind of Restart: it
  was clicked before the Exit, had yet to come to its start when the Exit was served, and threw as it left the
  gate. `RestartAsync` (`BotSupervisor.cs:40`) releases the gate between its stop
  and its start; the Exit is served between the two and hands the gate to the start, which
  `gate.Dispose()` does not undo.
* *A monitor that throws answers nobody.* `EveryCommandEnds` exempts the start that waits for it. There
  is no restart and no change of state until a command stops the bot.
* *Commands that stray.* `TasksActAsChecked` exempts a command that waited while its round ended and
  another was activated in another channel: it acts on that round, beside that channel's reconciliation
  (`web/routes/moderation.ts:40`). And it exempts an activation whose template got another channel while
  the permissions were asked for: the round begins in a channel nobody checked
  (`web/routes/rounds.ts:36`), though `docs/operations.md:57` says "Activation is rejected when any
  required capability is missing". After a stray command the outbox is woken for the wrong channel,
  which the pump's interval makes up for.
* *Cleared rows shift ids.* `FormSavesWhatItShows` exempts the ids of bonus rules behind a row whose kind
  was cleared: `web/routes/templates.ts:93` drops such rows before it takes ids by position, so the next
  rule gets the cleared one's id.
* *Disturbed launches.* `BotsRunTheConfiguration` exempts a launch in which two applications overlapped
  or a stop threw.
* *Bots of a launcher that died.* `BotsRunTheConfiguration` is about the bots of the present launch. A launcher
  that ends without an Exit leaves its bot running (section 2); no later tray can stop it, and the next
  launch's bot may find the port taken. Of the old bot itself nothing is said.

Seen while modelling, and checked by no run:

* The restart budget does not need continuous health: `healthySince` is set by the first `ready` and
  cleared only by a restart (`BotSupervisor.cs:105`), while `docs/operations.md:11` says "five continuous
  healthy minutes".
* Exit, Restart and Configure are refused during the back-off after a crash: `StopAsync`
  (`BotSupervisor.cs:52`) writes to a process whose handle was disposed, throws, and leaves the monitor
  cancelled and `process` set, so that every later command throws as well.
* A launcher that ends between activation and commit leaves an unconfirmed candidate in `config.env`.
  The prior one is in `config.env.rollback`, which nothing reads at the next start. Candidate files are
  left behind in the same way, and a failing replacement leaves the bot stopped.
* Posts between two rounds are judged as play by the next round's first reconciliation, which starts from
  the checkpoint (`reconciliation-service.ts:28`); no document says that they are not.

## 6. What is not modelled

* Migrations: the tables are the variables of `CountingGame`; the runner is planned.
* The single instance (a named mutex and a pipe), the launcher's validation of what is typed and the smoke
  test of a package: the operating system's or pure.
* A history of bounded length: without a checkpoint only the last hundred messages are listed
  (`reconciliation-service.ts:28`).
* What discord.js emits when a session cannot be resumed: a gap that ends with a fresh session closes the
  gate (`discord-adapter.ts:81`), and whether anything opens it again is outside the repository.
* An operation that Discord refuses for ever, as a property: nothing promises anything about it.
* Deletions of messages by players (`handleDelete` writes an audit event) and `/leaderboard` (reads).
* Sessions, login throttling, read-only pages, health, permission reports, configuration parsing,
  packaging, log files: parsing and I/O with little control.
* The wording of announcements and their placeholders; the announcement defaults are one row.

## 7. Plan

Done: `GameRules`, `CountingGame`, `Outbox` with `OrderedChannel`, `MessageIntake` with several rounds,
`OutboxPump`, `Runtime`, `SerialExecutor` with `KeyedQueue`, `Administration`, `RoundCompiler`,
`NumericSubmission`, `TemplateForm`, `Filtering`, `BotSupervisor`, `Reconfiguration`; the proofs of section 4.

What is left, in this order:

1. What a gap in the intake leaves when failures overlap: the weakest condition on start-up under which
   `CheckpointCoversExamined` holds, in place of `NoOverlap`.
2. `Scorebook`: what the game promises, each message judged once and scores a function of the judged
   messages, with `CountingGame` shown to implement it.
3. `Migrations`: each applied once, whatever the version the database is at, with crashes.
