---------------------------- MODULE CountingGame ----------------------------
(***************************************************************************)
(* The game state kept in SQLite and every operation of GameService        *)
(* (src/application/game-service.ts).  Each operation is one IMMEDIATE     *)
(* SQLite transaction, so each is one atomic action here: it commits as a  *)
(* whole or, when the code throws, changes nothing and is not enabled.     *)
(*                                                                         *)
(* Abstractions.  Identifiers are opaque.  One channel: processMessage     *)
(* answers "conversation" and changes nothing for any other.  Of the       *)
(* outbox this module keeps what the game reads back: which operations     *)
(* carrying a roundId are unresolved (they decide when a terminal round is *)
(* settled) and for which breaks a reset announcement exists.  Delivery is *)
(* the module Outbox; here ResolveWork stands for a delivery or an         *)
(* abandonment.  Audit events, display names and message texts are left    *)
(* out.                                                                    *)
(*                                                                         *)
(* A definition whose name ends in _ is a faulty variant of the one after  *)
(* it; see GameRules.                                                      *)
(***************************************************************************)
EXTENDS GameRules

CONSTANTS
    Players,    \* Discord user ids
    Messages,   \* Discord message ids
    Rounds,     \* round ids
    Compiled,   \* what compileRound can return for the stored templates
    Inputs,     \* what parseNumericSubmission can return, other than
                \* "conversation"
    MaxSeasons  \* bound on the seasons a run opens

Entry == [value : Nat, bonus : Nat]

ASSUME CompiledAssumption == Compiled \subseteq Seq(Entry) \ {<< >>}
ASSUME InputsAssumption ==
    Inputs \subseteq [kind : {"safe_integer", "out_of_range"}, value : Nat]
ASSUME MaxSeasonsAssumption == MaxSeasons \in Nat \ {0}
ASSUME NoPlayerAssumption == NoPlayer \notin Players

VARIABLES
    season,         \* the open season; 0 before the first round or reset
    round,          \* rounds: state, paused_from_state, season_id,
                    \* operationally_settled_at, compiled_config_json
    attempt,        \* the latest attempt of each round and the authors of
                    \* its accepted submissions in rowid order
    contributions,  \* attempt_contributions of that attempt
    worst,          \* round_player_penalties; 0 for no row
    penalties,      \* penalty rows of score_ledger by source_key; 0: no row
    awards,         \* participation and bonus rows by source_key; 0: no row
    bans,           \* round_bans
    submissions,    \* decision recorded for each message id
    resets,         \* breaks that have a reset_announcement in the outbox
    openWork        \* unresolved outbox operations carrying the roundId

vars == <<season, round, attempt, contributions, worst, penalties, awards,
          bans, submissions, resets, openWork>>

-----------------------------------------------------------------------------
(* Values of the variables. *)

ActiveStates == {"waiting_for_start", "counting", "paused"}
TerminalStates == {"completed", "cancelled"}
WorkKinds == {"start", "completion", "leaderboard", "cancellation"}

NotReceived == [decision |-> "none"]
Decisions == {"deleted", "accepted", "broken", "invalidated"}

NoContribution == [count |-> 0, bonus |-> 0]
NoAward == [participation |-> 0, bonus |-> 0]

RoundStates == {"absent"} \union ActiveStates \union TerminalStates
PausedFromStates == {"none", "waiting_for_start", "counting"}
RoundRecord ==
    [state : RoundStates, pausedFrom : PausedFromStates, season : 0 .. MaxSeasons,
     settled : BOOLEAN, entries : Compiled \union {<< >>}]
AttemptRecord ==
    [state : {"none", "active", "broken", "completed", "cancelled"},
     authors : Seq(Players)]
ContributionRows == [Players -> [count : Nat, bonus : Nat]]
AwardRows == [Players -> [participation : {0, 2, 3, 4, 5}, bonus : Nat]]
SubmissionRecord == [decision : Decisions, round : Rounds] \union {NotReceived}

TypeOK ==
    /\ season \in 0 .. MaxSeasons
    /\ round \in [Rounds -> RoundRecord]
    /\ attempt \in [Rounds -> AttemptRecord]
    /\ contributions \in [Rounds -> ContributionRows]
    /\ worst \in [Rounds -> [Players -> PenaltyTotals]]
    /\ penalties \in [Rounds -> [Players -> [Severities -> -5 .. 0]]]
    /\ awards \in [Rounds -> AwardRows]
    /\ bans \in [Rounds -> SUBSET Players]
    /\ submissions \in [Messages -> SubmissionRecord]
    /\ resets \in SUBSET Messages
    /\ openWork \in [Rounds -> Seq(WorkKinds)]

Init ==
    /\ season = 0
    /\ round = [r \in Rounds |-> [state |-> "absent", pausedFrom |-> "none",
                                  season |-> 0, settled |-> FALSE, entries |-> << >>]]
    /\ attempt = [r \in Rounds |-> [state |-> "none", authors |-> << >>]]
    /\ contributions = [r \in Rounds |-> [p \in Players |-> NoContribution]]
    /\ worst = [r \in Rounds |-> [p \in Players |-> 0]]
    /\ penalties = [r \in Rounds |-> [p \in Players |-> [s \in Severities |-> 0]]]
    /\ awards = [r \in Rounds |-> [p \in Players |-> NoAward]]
    /\ bans = [r \in Rounds |-> {}]
    /\ submissions = [m \in Messages |-> NotReceived]
    /\ resets = {}
    /\ openWork = [r \in Rounds |-> << >>]

-----------------------------------------------------------------------------
(* What the operations read. *)

ActiveUnlessCancelled_(r) == round[r].state \notin {"absent", "cancelled"}

Active(r) == round[r].state \in ActiveStates
Terminal(r) == round[r].state \in TerminalStates
NoCountingRound_ == \A r \in Rounds : round[r].state # "counting"

NoActiveRound == \A r \in Rounds : ~Active(r)

NoUnsettledCompletedRound_ ==
    \A r \in Rounds : round[r].state = "completed" => round[r].settled

\* assertNoUnsettledTerminalRound does not throw.
NoUnsettledTerminalRound == \A r \in Rounds : Terminal(r) => round[r].settled

\* The authors of the accepted submissions of the active attempt.
AcceptedAuthors(r) ==
    IF attempt[r].state = "active" THEN attempt[r].authors ELSE << >>

\* The EngineState processMessage builds from the database.
EngineStateOf(r) ==
    LET authors == AcceptedAuthors(r)
    IN  [roundState |-> round[r].state,
         previous |-> IF authors = << >> THEN NoPlayer ELSE authors[Len(authors)],
         acceptedCount |-> Len(authors),
         banned |-> bans[r]]

Decide(r, p, parsed) ==
    EvaluateSubmission(EngineStateOf(r), p, parsed, round[r].entries)

\* The message id has no submission yet; otherwise it is a duplicate, and
\* nothing changes.
Fresh(m) == submissions[m] = NotReceived

Record(m, r, decision) ==
    submissions' = [submissions EXCEPT ![m] = [decision |-> decision, round |-> r]]

Enqueue(r, kinds) == openWork' = [openWork EXCEPT ![r] = @ \o kinds]
-----------------------------------------------------------------------------
(* Messages from players. *)

\* Paused round, banned player, or not the value that starts the round.
DeleteSubmission(r, m, p, parsed) ==
    /\ Active(r)
    /\ Fresh(m)
    /\ Decide(r, p, parsed).kind = "delete_without_effect"
    /\ Record(m, r, "deleted")
    /\ UNCHANGED <<season, round, attempt, contributions, worst, penalties,
                   awards, bans, resets, openWork>>

ExtendedLatestAttempt_(r, p) ==
    [state |-> "active", authors |-> Append(attempt[r].authors, p)]

\* The attempt after an accepted submission: the first one opens it.
ExtendedAttempt(r, p) ==
    [state |-> "active", authors |-> Append(AcceptedAuthors(r), p)]

ContributionsWithLastBonus_(r, p, bonus) ==
    LET before == IF attempt[r].state = "active"
                  THEN contributions[r]
                  ELSE [q \in Players |-> NoContribution]
    IN  [before EXCEPT ![p] = [count |-> @.count + 1, bonus |-> bonus]]

\* The contribution rows after it: a new attempt has none but its author's.
ExtendedContributions(r, p, bonus) ==
    LET before == IF attempt[r].state = "active"
                  THEN contributions[r]
                  ELSE [q \in Players |-> NoContribution]
    IN  [before EXCEPT ![p] = [count |-> @.count + 1, bonus |-> @.bonus + bonus]]

\* The next value, and not the last one.
AcceptSubmission(r, m, p, parsed) ==
    LET decision == Decide(r, p, parsed)
    IN  /\ Active(r)
        /\ Fresh(m)
        /\ decision.kind = "accepted"
        /\ ~decision.completes
        /\ Record(m, r, "accepted")
        /\ attempt' = [attempt EXCEPT ![r] = ExtendedAttempt(r, p)]
        /\ contributions' = [contributions EXCEPT
                                ![r] = ExtendedContributions(r, p, decision.bonus)]
        /\ round' = [round EXCEPT ![r].state = "counting", ![r].pausedFrom = "none"]
        /\ UNCHANGED <<season, worst, penalties, awards, bans, resets, openWork>>

\* The participation and bonus rows completeRound inserts.
CompletionAwards(rows) ==
    LET contributors == {p \in Players : rows[p].count > 0}
        participation == ParticipationAwards([p \in contributors |-> rows[p].count])
    IN  [p \in Players |->
            IF p \in contributors
            THEN [participation |-> participation[p], bonus |-> rows[p].bonus]
            ELSE NoAward]

\* The last value: the same transaction completes the round and pays.  The
\* inserts throw if the round was paid before (source_key is UNIQUE).
CompleteRound(r, m, p, parsed) ==
    LET decision == Decide(r, p, parsed)
        rows == ExtendedContributions(r, p, decision.bonus)
    IN  /\ Active(r)
        /\ Fresh(m)
        /\ decision.kind = "accepted"
        /\ decision.completes
        /\ \A q \in Players : awards[r][q] = NoAward
        /\ Record(m, r, "accepted")
        /\ attempt' = [attempt EXCEPT
                        ![r] = [ExtendedAttempt(r, p) EXCEPT !.state = "completed"]]
        /\ contributions' = [contributions EXCEPT ![r] = rows]
        /\ awards' = [awards EXCEPT ![r] = CompletionAwards(rows)]
        /\ round' = [round EXCEPT ![r].state = "completed", ![r].pausedFrom = "none"]
        /\ bans' = [bans EXCEPT ![r] = {}]
        /\ Enqueue(r, <<"completion", "leaderboard">>)
        /\ UNCHANGED <<season, worst, penalties, resets>>

\* The penalty row this break inserts has no row under its source_key yet;
\* if it had, the insert would throw and the message never be recorded.
SourceKeyFree(r, p, severity) ==
    \/ AdditionalPenalty(worst[r][p], severity) = 0
    \/ penalties[r][p][severity] = 0

ChargedPenalties(r, p, severity) ==
    LET delta == AdditionalPenalty(worst[r][p], severity)
    IN  IF delta = 0 THEN penalties
        ELSE [penalties EXCEPT ![r][p][severity] = delta]

WorstAccumulated_(r, p, severity) ==
    [worst EXCEPT ![r][p] = @ + severity]

WorstOverwritten_(r, p, severity) ==
    [worst EXCEPT ![r][p] = severity]

WorstAfter(r, p, severity) ==
    IF worst[r][p] = 0 \/ severity < worst[r][p]
    THEN [worst EXCEPT ![r][p] = severity]
    ELSE worst

\* A wrong number, an unreadable one, or a second number in a row from one
\* player.  The reset announcement is left to the reconciler when defer.
BreakRun(r, m, p, parsed, defer) ==
    LET decision == Decide(r, p, parsed)
        severity == decision.severity
    IN  /\ Active(r)
        /\ Fresh(m)
        /\ decision.kind = "broken"
        /\ attempt[r].state = "active"
        /\ ValidProgress(Len(AcceptedAuthors(r)), Len(round[r].entries))
        /\ SourceKeyFree(r, p, severity)
        /\ Record(m, r, "broken")
        /\ attempt' = [attempt EXCEPT ![r].state = "broken"]
        /\ round' = [round EXCEPT ![r].state = "waiting_for_start",
                                  ![r].pausedFrom = "none"]
        /\ worst' = WorstAfter(r, p, severity)
        /\ penalties' = ChargedPenalties(r, p, severity)
        /\ contributions' = [contributions EXCEPT ![r] = [q \in Players |-> NoContribution]]
        /\ resets' = IF defer THEN resets ELSE resets \union {m}
        /\ UNCHANGED <<season, awards, bans, openWork>>

-----------------------------------------------------------------------------
(* The two operations the reconciler adds.  Neither asks whether the round *)
(* of the break is still active.                                           *)

InvalidateAfterReconnectBreak(m, breaking) ==
    /\ Fresh(m)
    /\ submissions[breaking].decision = "broken"
    /\ Record(m, submissions[breaking].round, "invalidated")
    /\ UNCHANGED <<season, round, attempt, contributions, worst, penalties,
                   awards, bans, resets, openWork>>

EnsureReconnectReset(breaking) ==
    /\ submissions[breaking].decision = "broken"
    /\ breaking \notin resets
    /\ resets' = resets \union {breaking}
    /\ UNCHANGED <<season, round, attempt, contributions, worst, penalties,
                   awards, bans, submissions, openWork>>

-----------------------------------------------------------------------------
(* Operations of the administration pages and of moderation commands. *)

OpenSeason == IF season = 0 THEN 1 ELSE season

ActivateRound(r, entries) ==
    /\ round[r].state = "absent"
    /\ NoActiveRound
    /\ NoUnsettledTerminalRound
    /\ season' = OpenSeason
    /\ round' = [round EXCEPT ![r] = [state |-> "waiting_for_start",
                                      pausedFrom |-> "none",
                                      season |-> OpenSeason,
                                      settled |-> FALSE,
                                      entries |-> entries]]
    /\ Enqueue(r, <<"start">>)
    /\ UNCHANGED <<attempt, contributions, worst, penalties, awards, bans,
                   submissions, resets>>

PauseRound(r) ==
    /\ round[r].state \in {"waiting_for_start", "counting"}
    /\ round' = [round EXCEPT ![r].state = "paused",
                              ![r].pausedFrom = round[r].state]
    /\ UNCHANGED <<season, attempt, contributions, worst, penalties, awards,
                   bans, submissions, resets, openWork>>

ResumeRound(r) ==
    /\ round[r].state = "paused"
    /\ round' = [round EXCEPT ![r].state = round[r].pausedFrom,
                              ![r].pausedFrom = "none"]
    /\ UNCHANGED <<season, attempt, contributions, worst, penalties, awards,
                   bans, submissions, resets, openWork>>

CancelRound(r) ==
    /\ Active(r)
    /\ round' = [round EXCEPT ![r].state = "cancelled", ![r].pausedFrom = "none"]
    /\ IF attempt[r].state = "active"
       THEN /\ attempt' = [attempt EXCEPT ![r].state = "cancelled"]
            /\ contributions' = [contributions EXCEPT
                                    ![r] = [p \in Players |-> NoContribution]]
       ELSE UNCHANGED <<attempt, contributions>>
    /\ penalties' = [penalties EXCEPT
                        ![r] = [p \in Players |-> [s \in Severities |-> 0]]]
    /\ worst' = [worst EXCEPT ![r] = [p \in Players |-> 0]]
    /\ bans' = [bans EXCEPT ![r] = {}]
    /\ Enqueue(r, <<"cancellation">>)
    /\ UNCHANGED <<season, awards, submissions, resets>>

BanPlayer(r, p) ==
    /\ Active(r)
    /\ bans' = [bans EXCEPT ![r] = @ \union {p}]
    /\ UNCHANGED <<season, round, attempt, contributions, worst, penalties,
                   awards, submissions, resets, openWork>>

UnbanPlayer(r, p) ==
    /\ Active(r)
    /\ bans' = [bans EXCEPT ![r] = @ \ {p}]
    /\ UNCHANGED <<season, round, attempt, contributions, worst, penalties,
                   awards, submissions, resets, openWork>>

ResetSeason ==
    /\ NoActiveRound
    /\ NoUnsettledTerminalRound
    /\ season < MaxSeasons
    /\ season' = season + 1
    /\ UNCHANGED <<round, attempt, contributions, worst, penalties, awards,
                   bans, submissions, resets, openWork>>

-----------------------------------------------------------------------------
(* The outbox resolves the oldest unresolved operation of a round, in the  *)
(* transaction that settles a terminal round with nothing left to resolve. *)

SettlesCompletedRound_(r) == round[r].state = "completed" /\ Tail(openWork[r]) = << >>

\* settleTerminalRoundIfReady, after the oldest operation is resolved.
SettlesRound(r) == Terminal(r) /\ Tail(openWork[r]) = << >>

ResolveWork(r) ==
    /\ openWork[r] # << >>
    /\ openWork' = [openWork EXCEPT ![r] = Tail(@)]
    /\ round' = [round EXCEPT
                    ![r].settled = @ \/ SettlesRound(r)]
    /\ UNCHANGED <<season, attempt, contributions, worst, penalties, awards,
                   bans, submissions, resets>>

ProcessMessage(r, m, p, parsed) ==
    \/ DeleteSubmission(r, m, p, parsed)
    \/ AcceptSubmission(r, m, p, parsed)
    \/ CompleteRound(r, m, p, parsed)
    \/ \E defer \in BOOLEAN : BreakRun(r, m, p, parsed, defer)

Next ==
    \/ \E r \in Rounds, m \in Messages, p \in Players, parsed \in Inputs :
            ProcessMessage(r, m, p, parsed)
    \/ \E m, breaking \in Messages : InvalidateAfterReconnectBreak(m, breaking)
    \/ \E breaking \in Messages : EnsureReconnectReset(breaking)
    \/ \E r \in Rounds, entries \in Compiled : ActivateRound(r, entries)
    \/ \E r \in Rounds : PauseRound(r) \/ ResumeRound(r) \/ CancelRound(r)
    \/ \E r \in Rounds, p \in Players : BanPlayer(r, p) \/ UnbanPlayer(r, p)
    \/ ResetSeason
    \/ \E r \in Rounds : ResolveWork(r)

Spec == Init /\ [][Next]_vars

-----------------------------------------------------------------------------
(* Safety properties. *)

Running(r) ==
    \/ round[r].state = "counting"
    \/ round[r].state = "paused" /\ round[r].pausedFrom = "counting"

\* The rounds table and the attempts table always agree: a run is in
\* progress exactly when the round counts, or was paused while counting, and
\* then it has accepted at least one value and not the last one.  Otherwise
\* processMessage throws ("active counting round has no attempt", "counting
\* state has no expected compiled entry") or penaltySeverity does, and since
\* that gates live intake the game stops.
AttemptMatchesRound ==
    \A r \in Rounds :
        /\ Running(r) <=> attempt[r].state = "active"
        /\ round[r].state = "paused" <=> round[r].pausedFrom # "none"
        /\ Running(r) => Len(attempt[r].authors) \in 1 .. Len(round[r].entries) - 1

\* Nobody supplies two consecutive values of a run, through pauses, bans,
\* duplicates and restarts of the run.
NobodyCountsTwiceInARow ==
    \A r \in Rounds : \A i \in 1 .. Len(attempt[r].authors) - 1 :
        attempt[r].authors[i] # attempt[r].authors[i + 1]

\* The sum of a player's penalty rows of a round, by severity in source_key.
PenaltyTotal(r, p) ==
    penalties[r][p][-2] + penalties[r][p][-3] + penalties[r][p][-4] + penalties[r][p][-5]

\* However many runs a player breaks, in whatever order of severities, the
\* rows in the ledger sum to their single worst severity of the round, and a
\* cancelled round leaves nothing (processMessage and cancelRound keep the
\* ledger and round_player_penalties in step).
PenaltyTotalIsWorst ==
    \A r \in Rounds, p \in Players :
        /\ PenaltyTotal(r, p) = worst[r][p]
        /\ round[r].state = "cancelled" => worst[r][p] = 0

\* No break ever meets a row under its own source_key.  The insert of
\* processMessage would throw on the UNIQUE column, the message would stay
\* unrecorded, and every later reconciliation would meet it again.
NoSourceKeyCollision ==
    \A r \in Rounds, p \in Players, severity \in Severities :
        Active(r) => SourceKeyFree(r, p, severity)

Positions(r, p) == {i \in DOMAIN attempt[r].authors : attempt[r].authors[i] = p}
BonusOf(r, p) ==
    FoldFunctionOnSet(+, 0, [i \in DOMAIN attempt[r].authors |-> round[r].entries[i].bonus],
                      Positions(r, p))

\* A completed round paid exactly the run that completed it: every entry was
\* accepted once, each contributor has an award, the bonus paid to each is
\* that of the entries they supplied, and nobody else was paid; contributions
\* to the runs broken before left no trace.  Other rounds have paid nothing.
AwardsPayTheWinningRun ==
    \A r \in Rounds :
        IF round[r].state = "completed"
        THEN /\ attempt[r].state = "completed"
             /\ Len(attempt[r].authors) = Len(round[r].entries)
             /\ \A p \in Players :
                    /\ awards[r][p].participation > 0 <=> Positions(r, p) # {}
                    /\ awards[r][p].bonus = BonusOf(r, p)
        ELSE \A p \in Players : awards[r][p] = NoAward

\* A round never starts over the unfinished business of another: while one
\* is active every terminal round is settled, and settled means that all
\* Discord work carrying its id is resolved.
RoundsDoNotOverlap ==
    /\ \A r, s \in Rounds : Active(r) /\ Active(s) => r = s
    /\ \A r, s \in Rounds : Active(r) /\ Terminal(s) => round[s].settled
    /\ \A r \in Rounds : round[r].settled => Terminal(r) /\ openWork[r] = << >>

\* Settlement is not missed either: a terminal round with nothing left to
\* resolve is settled, so activation and season reset are never blocked by a
\* round for which there is no work to deliver (settleTerminalRoundIfReady
\* runs only when an operation resolves).
NothingLeftMeansSettled ==
    \A r \in Rounds : Terminal(r) /\ openWork[r] = << >> => round[r].settled

\* Once a season is closed its standings never change again: every ledger
\* row is written under the season of its round, and a season closes only
\* between rounds (resetSeason).
ClosedSeasonIsFrozen ==
    [][\A r \in Rounds :
            round[r].season \notin {0, season} => UNCHANGED <<worst[r], penalties[r], awards[r]>>]_vars

\* A terminal round keeps its outcome and its scores, whatever late
\* invalidations, resets or moderation commands arrive.
TerminalRoundIsFinal ==
    [][\A r \in Rounds :
            Terminal(r) => /\ round'[r].state = round[r].state
                           /\ UNCHANGED <<worst[r], penalties[r], awards[r]>>]_vars
=============================================================================
