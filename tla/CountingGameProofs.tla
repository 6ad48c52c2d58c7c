------------------------- MODULE CountingGameProofs -------------------------
(***************************************************************************)
(* Theorems about CountingGame for every set of players, messages and      *)
(* rounds and every compiled configuration.                                *)
(*                                                                         *)
(* The invariants build on each other.  CoreInv (typing, the configuration *)
(* of activated rounds, and AttemptMatchesRound) is inductive by itself:   *)
(* typing alone is not, because the entry an accepted submission is read   *)
(* from exists only if the attempt is as long as the round allows.         *)
(* LedgerInv (penalty rows), SettlementInv (rounds, their work and         *)
(* seasons), NobodyCountsTwiceInARow and AwardsInv (contribution rows and  *)
(* what a completed round paid) are inductive relative to CoreInv.  The    *)
(* last rests on lemmas about sums, proved by induction on the size of a   *)
(* set.                                                                    *)
(***************************************************************************)
EXTENDS CountingGame, SequenceTheorems, FiniteSetTheorems, WellFoundedInduction, TLAPS

\* An activated round keeps the configuration it was compiled with.
ConfigInv == \A r \in Rounds : round[r].state # "absent" => round[r].entries \in Compiled

CoreInv == TypeOK /\ ConfigInv /\ AttemptMatchesRound

-----------------------------------------------------------------------------
(* What the operators of GameRules return. *)

\* penaltySeverity returns one of the four severities.
LEMMA SeverityType ==
    ASSUME NEW accepted, NEW required
    PROVE  PenaltySeverity(accepted, required) \in Severities
BY DEF PenaltySeverity, Severities

\* additionalPenalty returns a PenaltyDelta.
LEMMA AdditionalPenaltyType ==
    ASSUME NEW previous \in PenaltyTotals, NEW next \in Severities
    PROVE  AdditionalPenalty(previous, next) \in -5 .. 0
BY DEF AdditionalPenalty, PenaltyTotals, Severities

\* participationAwards returns 2, 3, 4 or 5.
LEMMA AwardType ==
    ASSUME NEW counts, NEW p \in DOMAIN counts
    PROVE  ParticipationAwards(counts)[p] \in {2, 3, 4, 5}
BY DEF ParticipationAwards, AwardTier

\* What completeRound pays is typed as the ledger is.
LEMMA CompletionAwardsType ==
    ASSUME NEW contribs \in ContributionRows
    PROVE  CompletionAwards(contribs)
                \in AwardRows
<1> DEFINE contributors == {p \in Players : contribs[p].count > 0}
           counts == [p \in contributors |-> contribs[p].count]
<1>1. ASSUME NEW p \in contributors
      PROVE  ParticipationAwards(counts)[p] \in {2, 3, 4, 5}
  <2>1. p \in DOMAIN counts  OBVIOUS
  <2> HIDE DEF counts
  <2> QED BY <2>1, AwardType
<1> HIDE DEF counts
<1>2. CompletionAwards(contribs) =
        [p \in Players |->
            IF p \in contributors
            THEN [participation |-> ParticipationAwards(counts)[p], bonus |-> contribs[p].bonus]
            ELSE NoAward]
  BY DEF CompletionAwards, counts
<1> QED BY <1>1, <1>2 DEF NoAward, AwardRows, ContributionRows

-----------------------------------------------------------------------------
(* What processMessage sees and decides. *)

\* Configurations are not empty and their entries are typed.
LEMMA EntriesType ==
    ASSUME CoreInv, NEW r \in Rounds, round[r].state # "absent"
    PROVE  /\ round[r].entries \in Seq(Entry)
           /\ Len(round[r].entries) \in Nat
           /\ Len(round[r].entries) >= 1
           /\ \A i \in 1 .. Len(round[r].entries) : round[r].entries[i].bonus \in Nat
<1>1. round[r].entries \in Seq(Entry) \ {<< >>}
  BY CompiledAssumption DEF CoreInv, ConfigInv
<1>2. Len(round[r].entries) \in Nat /\ Len(round[r].entries) >= 1
  BY <1>1, EmptySeq, LenProperties
<1>3. \A i \in 1 .. Len(round[r].entries) : round[r].entries[i] \in Entry
  BY <1>1, ElementOfSeq
<1> QED BY <1>1, <1>2, <1>3 DEF Entry

\* A submission is accepted only at the position after the accepted ones,
\* from a player other than the last, and completes exactly the last position.
LEMMA AcceptedDecision ==
    ASSUME CoreInv, NEW r \in Rounds, NEW p \in Players, NEW parsed \in Inputs,
           Active(r), Decide(r, p, parsed).kind = "accepted"
    PROVE  LET n == Len(AcceptedAuthors(r))
               decision == Decide(r, p, parsed)
           IN  /\ round[r].state \in {"waiting_for_start", "counting"}
               /\ AcceptedAuthors(r) \in Seq(Players)
               /\ n \in Nat
               /\ n + 1 \in 1 .. Len(round[r].entries)
               /\ decision.bonus = round[r].entries[n + 1].bonus
               /\ decision.bonus \in Nat
               /\ decision.completes = (n + 1 = Len(round[r].entries))
               /\ n > 0 => AcceptedAuthors(r)[n] # p
<1> DEFINE n == Len(AcceptedAuthors(r))
           entries == round[r].entries
           state == EngineStateOf(r)
<1>1. AcceptedAuthors(r) \in Seq(Players)
  BY DEF CoreInv, TypeOK, AttemptRecord, AcceptedAuthors
<1>2. n \in Nat /\ (n = 0 <=> AcceptedAuthors(r) = << >>)
  BY <1>1, EmptySeq, LenProperties
<1>3. /\ Len(entries) \in Nat /\ Len(entries) >= 1
      /\ \A i \in 1 .. Len(entries) : entries[i].bonus \in Nat
  BY EntriesType DEF Active, ActiveStates
<1>4. parsed.kind # "conversation"
  BY InputsAssumption
<1>5. round[r].state \in {"waiting_for_start", "counting"}
  BY <1>4 DEF Decide, EvaluateSubmission, EngineStateOf, DeleteWithoutEffect,
              Conversation, Active, ActiveStates
<1>6. CASE round[r].state = "waiting_for_start"
  <2>1. attempt[r].state # "active"
    BY <1>6 DEF CoreInv, AttemptMatchesRound, Running
  <2>2. n = 0
    BY <2>1, <1>2 DEF AcceptedAuthors
  <2>3. Decide(r, p, parsed) = Accepted(entries[1], Len(entries) = 1)
    <3>1. Decide(r, p, parsed) = EvaluateWhileWaiting(parsed, entries)
      BY <1>4, <1>6 DEF Decide, EvaluateSubmission, EngineStateOf, DeleteWithoutEffect,
                        Conversation
    <3> QED BY <3>1 DEF EvaluateWhileWaiting, DeleteWithoutEffect, Conversation
  <2>4. /\ Decide(r, p, parsed).bonus = entries[1].bonus
        /\ Decide(r, p, parsed).completes = (Len(entries) = 1)
    <3> DEFINE decision == Decide(r, p, parsed)
    <3>1. decision = Accepted(entries[1], Len(entries) = 1)
      BY <2>3
    <3> HIDE DEF decision
    <3>2. decision.bonus = entries[1].bonus /\ decision.completes = (Len(entries) = 1)
      BY <3>1, Zenon DEF Accepted
    <3> QED BY <3>2 DEF decision
  <2>5. (Len(entries) = 1) = (n + 1 = Len(entries))
    BY <2>2
  <2>6. Decide(r, p, parsed).completes = (n + 1 = Len(entries))
    BY <2>4, <2>5, Zenon
  <2> QED BY <1>1, <1>2, <1>3, <1>5, <2>2, <2>4, <2>6
<1>7. CASE round[r].state = "counting"
  <2>1. attempt[r].state = "active" /\ n \in 1 .. Len(entries) - 1
    BY <1>7 DEF CoreInv, AttemptMatchesRound, Running, AcceptedAuthors
  <2>2. Decide(r, p, parsed) = EvaluateWhileCounting(state, p, parsed, entries)
    BY <1>4, <1>7 DEF Decide, EvaluateSubmission, EngineStateOf, DeleteWithoutEffect,
                      Conversation
  <2>3. state.acceptedCount = n /\ state.previous = AcceptedAuthors(r)[n]
    BY <1>2, <2>1 DEF EngineStateOf
  <2> HIDE DEF state
  <2>4. /\ state.previous # p
        /\ Decide(r, p, parsed) = Accepted(entries[n + 1], n = Len(entries) - 1)
    BY <2>2, <2>3 DEF EvaluateWhileCounting, Broken
  <2>5. /\ Decide(r, p, parsed).bonus = entries[n + 1].bonus
        /\ Decide(r, p, parsed).completes = (n = Len(entries) - 1)
    <3> DEFINE decision == Decide(r, p, parsed)
    <3>1. decision = Accepted(entries[n + 1], n = Len(entries) - 1)
      BY <2>4
    <3> HIDE DEF decision
    <3>2. /\ decision.bonus = entries[n + 1].bonus
          /\ decision.completes = (n = Len(entries) - 1)
      BY <3>1, Zenon DEF Accepted
    <3> QED BY <3>2 DEF decision
  <2>6. (n = Len(entries) - 1) = (n + 1 = Len(entries))
    BY <1>2, <1>3
  <2>7. Decide(r, p, parsed).completes = (n + 1 = Len(entries))
    BY <2>5, <2>6, Zenon
  <2> QED BY <1>1, <1>2, <1>3, <1>5, <2>1, <2>3, <2>4, <2>5, <2>7
<1> QED BY <1>5, <1>6, <1>7

\* Only a counting round is broken, at one of the four severities.
LEMMA BrokenDecision ==
    ASSUME NEW r \in Rounds, NEW p \in Players, NEW parsed \in Inputs,
           Active(r), Decide(r, p, parsed).kind = "broken"
    PROVE  /\ round[r].state = "counting"
           /\ Decide(r, p, parsed).severity \in Severities
<1> DEFINE state == EngineStateOf(r)
<1>1. parsed.kind # "conversation"
  BY InputsAssumption
<1>2. /\ round[r].state = "counting"
      /\ Decide(r, p, parsed) = EvaluateWhileCounting(state, p, parsed, round[r].entries)
  BY <1>1 DEF Decide, EvaluateSubmission, EvaluateWhileWaiting, EngineStateOf,
              DeleteWithoutEffect, Conversation, Accepted, Active, ActiveStates
<1> HIDE DEF state
<1>3. Decide(r, p, parsed) = Broken(state.acceptedCount, Len(round[r].entries))
  BY <1>2 DEF EvaluateWhileCounting, Accepted
<1> QED BY <1>2, <1>3, SeverityType DEF Broken

-----------------------------------------------------------------------------
(* CoreInv is inductive. *)

LEMMA CoreInit == Init => CoreInv
<1> SUFFICES ASSUME Init PROVE CoreInv
  OBVIOUS
<1>1. TypeOK
  BY MaxSeasonsAssumption, EmptySeq
     DEF Init, TypeOK, PenaltyTotals, Severities, NoContribution, NoAward, NotReceived,
         RoundRecord, RoundStates, PausedFromStates, AttemptRecord, ContributionRows,
         AwardRows, SubmissionRecord
<1>2. ConfigInv
  BY DEF Init, ConfigInv
<1>3. AttemptMatchesRound
  BY DEF Init, AttemptMatchesRound, Running
<1> QED BY <1>1, <1>2, <1>3 DEF CoreInv

\* Changing the state and pausedFrom of a round keeps rounds typed.
LEMMA RoundUpdateType ==
    ASSUME TypeOK, NEW r \in Rounds,
           NEW state \in RoundStates, NEW pausedFrom \in PausedFromStates,
           round' = [round EXCEPT ![r].state = state, ![r].pausedFrom = pausedFrom]
    PROVE  round' \in [Rounds -> RoundRecord]
<1>1. round' = [round EXCEPT ![r] = [round[r] EXCEPT !.state = state,
                                                    !.pausedFrom = pausedFrom]]
  OBVIOUS
<1>2. [round[r] EXCEPT !.state = state, !.pausedFrom = pausedFrom] \in RoundRecord
  BY DEF TypeOK, RoundRecord
<1> QED BY <1>1, <1>2 DEF TypeOK

\* Recording a disposition of a fresh message keeps submissions typed.
LEMMA RecordType ==
    ASSUME TypeOK, NEW m \in Messages, NEW r \in Rounds, NEW decision \in Decisions,
           Record(m, r, decision)
    PROVE  submissions' \in [Messages -> SubmissionRecord]
BY DEF TypeOK, Record, SubmissionRecord

\* Enqueuing work of the known kinds keeps the outbox typed.
LEMMA EnqueueType ==
    ASSUME TypeOK, NEW r \in Rounds, NEW kinds \in Seq(WorkKinds), Enqueue(r, kinds)
    PROVE  openWork' \in [Rounds -> Seq(WorkKinds)]
BY ConcatProperties DEF TypeOK, Enqueue

LEMMA CoreDeleteSubmission ==
    ASSUME CoreInv, NEW r \in Rounds, NEW m \in Messages, NEW p \in Players,
           NEW parsed \in Inputs, DeleteSubmission(r, m, p, parsed)
    PROVE  CoreInv'
<1>1. TypeOK'
  BY RecordType DEF CoreInv, DeleteSubmission, TypeOK, Decisions
<1> QED BY <1>1 DEF CoreInv, DeleteSubmission, ConfigInv, AttemptMatchesRound, Running

\* The attempt an accepted submission leaves behind.
LEMMA AcceptedAttempt ==
    ASSUME CoreInv, NEW r \in Rounds, NEW p \in Players, NEW parsed \in Inputs,
           Active(r), Decide(r, p, parsed).kind = "accepted"
    PROVE  LET authors == ExtendedAttempt(r, p).authors
           IN  /\ authors \in Seq(Players)
               /\ Len(authors) \in Nat
               /\ Len(authors) \in 1 .. Len(round[r].entries)
               /\ ExtendedAttempt(r, p).state = "active"
               /\ ExtendedContributions(r, p, Decide(r, p, parsed).bonus)
                        \in ContributionRows
<1> DEFINE before == AcceptedAuthors(r)
<1>1. /\ before \in Seq(Players)
      /\ Len(before) + 1 \in 1 .. Len(round[r].entries)
      /\ Decide(r, p, parsed).bonus \in Nat
  BY AcceptedDecision
<1> HIDE DEF before
<1>2. /\ Append(before, p) \in Seq(Players)
      /\ Len(Append(before, p)) = Len(before) + 1
  BY <1>1, AppendProperties
<1>3. ExtendedAttempt(r, p) = [state |-> "active", authors |-> Append(before, p)]
  BY DEF ExtendedAttempt, before
<1>4. ExtendedContributions(r, p, Decide(r, p, parsed).bonus)
            \in ContributionRows
  <2> DEFINE bonus == Decide(r, p, parsed).bonus
             old == IF attempt[r].state = "active" THEN contributions[r]
                    ELSE [q \in Players |-> NoContribution]
  <2>1. old \in ContributionRows /\ bonus \in Nat
    BY <1>1 DEF NoContribution, CoreInv, TypeOK, ContributionRows
  <2>2. ExtendedContributions(r, p, bonus) =
            [old EXCEPT ![p] = [count |-> old[p].count + 1, bonus |-> old[p].bonus + bonus]]
    BY DEF ExtendedContributions
  <2> HIDE DEF old, bonus
  <2>3. ExtendedContributions(r, p, bonus) \in ContributionRows
    BY <2>1, <2>2 DEF ContributionRows
  <2> QED BY <2>3 DEF bonus
<1> QED BY <1>1, <1>2, <1>3, <1>4

LEMMA CoreAcceptSubmission ==
    ASSUME CoreInv, NEW r \in Rounds, NEW m \in Messages, NEW p \in Players,
           NEW parsed \in Inputs, AcceptSubmission(r, m, p, parsed)
    PROVE  CoreInv'
<1> DEFINE decision == Decide(r, p, parsed)
           extended == ExtendedAttempt(r, p)
<1>1. Active(r) /\ decision.kind = "accepted" /\ ~decision.completes
  BY DEF AcceptSubmission
<1>2. /\ extended \in [state : {"active"}, authors : Seq(Players)]
      /\ Len(extended.authors) \in 1 .. Len(round[r].entries) - 1
      /\ ExtendedContributions(r, p, decision.bonus)
                \in ContributionRows
  <2>1. Len(extended.authors) = Len(AcceptedAuthors(r)) + 1
    BY <1>1, AcceptedDecision, AppendProperties DEF ExtendedAttempt
  <2>2. Len(extended.authors) # Len(round[r].entries)
    <3>1. decision.completes = (Len(AcceptedAuthors(r)) + 1 = Len(round[r].entries))
      BY <1>1, AcceptedDecision
    <3> QED BY <1>1, <2>1, <3>1
  <2>3. Len(round[r].entries) \in Nat
    BY <1>1, EntriesType DEF Active, ActiveStates
  <2>4. extended \in [state : {"active"}, authors : Seq(Players)]
    BY <1>1, AcceptedAttempt DEF ExtendedAttempt
  <2> QED BY <1>1, <2>2, <2>3, <2>4, AcceptedAttempt
<1> HIDE DEF extended
<1>3. /\ attempt' = [attempt EXCEPT ![r] = extended]
      /\ contributions' = [contributions EXCEPT
                              ![r] = ExtendedContributions(r, p, decision.bonus)]
      /\ round' = [round EXCEPT ![r].state = "counting", ![r].pausedFrom = "none"]
      /\ Record(m, r, "accepted")
      /\ UNCHANGED <<season, worst, penalties, awards, bans, resets, openWork>>
  BY DEF AcceptSubmission, extended
<1> HIDE DEF decision
<1>4. TypeOK'
  <2>1. submissions' \in [Messages -> SubmissionRecord]
    BY <1>3, RecordType DEF CoreInv, Decisions
  <2>2. round' \in [Rounds -> RoundRecord]
    BY <1>3, RoundUpdateType DEF CoreInv, RoundStates, ActiveStates, PausedFromStates
  <2>3. attempt' \in [Rounds -> AttemptRecord]
    BY <1>2, <1>3 DEF CoreInv, TypeOK, AttemptRecord
  <2>4. contributions' \in [Rounds -> ContributionRows]
    BY <1>2, <1>3 DEF CoreInv, TypeOK
  <2> QED BY <1>3, <2>1, <2>2, <2>3, <2>4 DEF CoreInv, TypeOK
<1>5. ConfigInv'
  BY <1>1, <1>3 DEF CoreInv, TypeOK, ConfigInv, Active, ActiveStates
<1>6. AttemptMatchesRound'
  <2> SUFFICES ASSUME NEW s \in Rounds
               PROVE  /\ Running(s)' <=> attempt'[s].state = "active"
                      /\ round'[s].state = "paused" <=> round'[s].pausedFrom # "none"
                      /\ Running(s)' => Len(attempt'[s].authors)
                                            \in 1 .. Len(round'[s].entries) - 1
    BY DEF AttemptMatchesRound
  <2>1. CASE s = r
    <3>1. /\ round'[s].state = "counting"
          /\ round'[s].pausedFrom = "none"
          /\ round'[s].entries = round[s].entries
          /\ attempt'[s] = extended
      BY <1>3, <2>1 DEF CoreInv, TypeOK
    <3> QED BY <1>2, <2>1, <3>1 DEF Running
  <2>2. CASE s # r
    <3>1. round'[s] = round[s] /\ attempt'[s] = attempt[s]
      BY <1>3, <2>2 DEF CoreInv, TypeOK
    <3> QED BY <3>1 DEF CoreInv, AttemptMatchesRound, Running
  <2> QED BY <2>1, <2>2
<1> QED BY <1>4, <1>5, <1>6 DEF CoreInv

LEMMA CoreCompleteRound ==
    ASSUME CoreInv, NEW r \in Rounds, NEW m \in Messages, NEW p \in Players,
           NEW parsed \in Inputs, CompleteRound(r, m, p, parsed)
    PROVE  CoreInv'
<1> DEFINE decision == Decide(r, p, parsed)
           contribs == ExtendedContributions(r, p, decision.bonus)
           completed == [ExtendedAttempt(r, p) EXCEPT !.state = "completed"]
<1>1. Active(r) /\ decision.kind = "accepted"
  BY DEF CompleteRound
<1>2. /\ completed \in [state : {"completed"}, authors : Seq(Players)]
      /\ contribs \in ContributionRows
  BY <1>1, AcceptedAttempt DEF ExtendedAttempt
<1>3. CompletionAwards(contribs)
            \in AwardRows
  BY <1>2, CompletionAwardsType
<1>4. <<"completion", "leaderboard">> \in Seq(WorkKinds)
  BY DEF WorkKinds
<1>5. /\ attempt' = [attempt EXCEPT ![r] = completed]
      /\ contributions' = [contributions EXCEPT ![r] = contribs]
      /\ awards' = [awards EXCEPT ![r] = CompletionAwards(contribs)]
      /\ round' = [round EXCEPT ![r].state = "completed", ![r].pausedFrom = "none"]
      /\ bans' = [bans EXCEPT ![r] = {}]
      /\ Record(m, r, "accepted")
      /\ Enqueue(r, <<"completion", "leaderboard">>)
      /\ UNCHANGED <<season, worst, penalties, resets>>
  BY DEF CompleteRound
<1> HIDE DEF completed, contribs
<1>6. TypeOK'
  <2>1. openWork' \in [Rounds -> Seq(WorkKinds)]
    BY <1>4, <1>5, EnqueueType DEF CoreInv
  <2>2. submissions' \in [Messages -> SubmissionRecord]
    BY <1>5, RecordType DEF CoreInv, Decisions
  <2>3. round' \in [Rounds -> RoundRecord]
    BY <1>5, RoundUpdateType DEF CoreInv, RoundStates, TerminalStates, PausedFromStates
  <2>4. attempt' \in [Rounds -> AttemptRecord]
    BY <1>2, <1>5 DEF CoreInv, TypeOK, AttemptRecord
  <2>5. /\ contributions' \in [Rounds -> ContributionRows]
        /\ awards' \in [Rounds -> AwardRows]
        /\ bans' \in [Rounds -> SUBSET Players]
    BY <1>2, <1>3, <1>5 DEF CoreInv, TypeOK
  <2> QED BY <1>5, <2>1, <2>2, <2>3, <2>4, <2>5 DEF CoreInv, TypeOK
<1>7. ConfigInv'
  BY <1>1, <1>5 DEF CoreInv, TypeOK, ConfigInv, Active, ActiveStates
<1>8. AttemptMatchesRound'
  BY <1>2, <1>5 DEF CoreInv, TypeOK, AttemptMatchesRound, Running
<1> QED BY <1>6, <1>7, <1>8 DEF CoreInv

LEMMA CoreBreakRun ==
    ASSUME CoreInv, NEW r \in Rounds, NEW m \in Messages, NEW p \in Players,
           NEW parsed \in Inputs, NEW defer \in BOOLEAN, BreakRun(r, m, p, parsed, defer)
    PROVE  CoreInv'
<1> DEFINE severity == Decide(r, p, parsed).severity
<1>1. Active(r) /\ severity \in Severities
  BY BrokenDecision DEF BreakRun
<1>2. /\ attempt' = [attempt EXCEPT ![r].state = "broken"]
      /\ round' = [round EXCEPT ![r].state = "waiting_for_start", ![r].pausedFrom = "none"]
      /\ worst' = WorstAfter(r, p, severity)
      /\ penalties' = ChargedPenalties(r, p, severity)
      /\ contributions' = [contributions EXCEPT ![r] = [q \in Players |-> NoContribution]]
      /\ resets' = IF defer THEN resets ELSE resets \union {m}
      /\ Record(m, r, "broken")
      /\ UNCHANGED <<season, awards, bans, openWork>>
  BY DEF BreakRun
<1> HIDE DEF severity
<1>3. TypeOK'
  <2>1. submissions' \in [Messages -> SubmissionRecord]
    BY <1>2, RecordType DEF CoreInv, Decisions
  <2>2. round' \in [Rounds -> RoundRecord]
    BY <1>2, RoundUpdateType DEF CoreInv, RoundStates, ActiveStates, PausedFromStates
  <2>3. attempt' \in [Rounds -> AttemptRecord]
    BY <1>2 DEF CoreInv, TypeOK, AttemptRecord
  <2>4. worst' \in [Rounds -> [Players -> PenaltyTotals]]
    BY <1>1, <1>2 DEF CoreInv, TypeOK, WorstAfter, PenaltyTotals
  <2>5. penalties' \in [Rounds -> [Players -> [Severities -> -5 .. 0]]]
    <3>1. AdditionalPenalty(worst[r][p], severity) \in -5 .. 0
      <4>1. worst[r][p] \in PenaltyTotals
        BY DEF CoreInv, TypeOK
      <4> QED BY <1>1, <4>1, AdditionalPenaltyType
    <3> QED BY <1>1, <1>2, <3>1 DEF CoreInv, TypeOK, ChargedPenalties
  <2>6. contributions' \in [Rounds -> ContributionRows]
    BY <1>2 DEF CoreInv, TypeOK, ContributionRows, NoContribution
  <2>7. resets' \in SUBSET Messages
    BY <1>2 DEF CoreInv, TypeOK
  <2> QED BY <1>2, <2>1, <2>2, <2>3, <2>4, <2>5, <2>6, <2>7 DEF CoreInv, TypeOK
<1>4. ConfigInv'
  BY <1>1, <1>2 DEF CoreInv, TypeOK, RoundRecord, ConfigInv, Active, ActiveStates
<1>5. AttemptMatchesRound'
  BY <1>2 DEF CoreInv, TypeOK, RoundRecord, AttemptRecord, AttemptMatchesRound, Running
<1> QED BY <1>3, <1>4, <1>5 DEF CoreInv

LEMMA CoreReconnect ==
    ASSUME CoreInv, NEW m \in Messages, NEW breaking \in Messages,
           \/ InvalidateAfterReconnectBreak(m, breaking)
           \/ EnsureReconnectReset(breaking)
    PROVE  CoreInv'
<1>1. CASE InvalidateAfterReconnectBreak(m, breaking)
  <2>1. submissions[breaking].round \in Rounds
    BY <1>1 DEF InvalidateAfterReconnectBreak, CoreInv, TypeOK, SubmissionRecord, NotReceived
  <2>2. submissions' \in [Messages -> SubmissionRecord]
    BY <1>1, <2>1, RecordType DEF InvalidateAfterReconnectBreak, CoreInv, Decisions
  <2> QED BY <1>1, <2>2 DEF InvalidateAfterReconnectBreak, CoreInv, TypeOK, ConfigInv,
                            AttemptMatchesRound, Running
<1>2. CASE EnsureReconnectReset(breaking)
  BY <1>2 DEF EnsureReconnectReset, CoreInv, TypeOK, ConfigInv, AttemptMatchesRound, Running
<1> QED BY <1>1, <1>2

LEMMA CoreActivateRound ==
    ASSUME CoreInv, NEW r \in Rounds, NEW entries \in Compiled, ActivateRound(r, entries)
    PROVE  CoreInv'
<1> DEFINE started == [state |-> "waiting_for_start", pausedFrom |-> "none",
                       season |-> OpenSeason, settled |-> FALSE, entries |-> entries]
<1>1. /\ round[r].state = "absent"
      /\ season' = OpenSeason
      /\ round' = [round EXCEPT ![r] = started]
      /\ Enqueue(r, <<"start">>)
      /\ UNCHANGED <<attempt, contributions, worst, penalties, awards, bans,
                     submissions, resets>>
  BY DEF ActivateRound
<1>2. OpenSeason \in 0 .. MaxSeasons
  BY MaxSeasonsAssumption DEF CoreInv, TypeOK, OpenSeason
<1>3. TypeOK'
  <2>1. round' \in [Rounds -> RoundRecord]
    BY <1>1, <1>2 DEF CoreInv, TypeOK, RoundRecord, RoundStates, ActiveStates, PausedFromStates
  <2>2. openWork' \in [Rounds -> Seq(WorkKinds)]
    <3>1. <<"start">> \in Seq(WorkKinds)
      BY DEF WorkKinds
    <3> QED BY <1>1, <3>1, EnqueueType DEF CoreInv
  <2> QED BY <1>1, <1>2, <2>1, <2>2 DEF CoreInv, TypeOK
<1>4. ConfigInv'
  BY <1>1 DEF CoreInv, TypeOK, ConfigInv
<1>5. AttemptMatchesRound'
  BY <1>1 DEF CoreInv, TypeOK, AttemptMatchesRound, Running
<1> QED BY <1>3, <1>4, <1>5 DEF CoreInv

LEMMA CorePauseResume ==
    ASSUME CoreInv, NEW r \in Rounds, PauseRound(r) \/ ResumeRound(r)
    PROVE  CoreInv'
<1>1. CASE PauseRound(r)
  <2>1. round' \in [Rounds -> RoundRecord]
    BY <1>1, RoundUpdateType
       DEF PauseRound, CoreInv, RoundStates, ActiveStates, PausedFromStates
  <2>2. TypeOK'
    BY <1>1, <2>1 DEF PauseRound, CoreInv, TypeOK
  <2>3. ConfigInv' /\ AttemptMatchesRound'
    BY <1>1 DEF PauseRound, CoreInv, TypeOK, RoundRecord, ConfigInv, AttemptMatchesRound, Running
  <2> QED BY <2>2, <2>3 DEF CoreInv
<1>2. CASE ResumeRound(r)
  <2>1. round[r].pausedFrom \in {"waiting_for_start", "counting"}
    BY <1>2 DEF ResumeRound, CoreInv, TypeOK, RoundRecord, PausedFromStates, AttemptMatchesRound
  <2>2. round' \in [Rounds -> RoundRecord]
    BY <1>2, <2>1, RoundUpdateType
       DEF ResumeRound, CoreInv, RoundStates, ActiveStates, PausedFromStates
  <2>3. TypeOK'
    BY <1>2, <2>2 DEF ResumeRound, CoreInv, TypeOK
  <2>4. ConfigInv' /\ AttemptMatchesRound'
    BY <1>2, <2>1
       DEF ResumeRound, CoreInv, TypeOK, RoundRecord, ConfigInv, AttemptMatchesRound, Running
  <2> QED BY <2>3, <2>4 DEF CoreInv
<1> QED BY <1>1, <1>2

LEMMA CoreCancelRound ==
    ASSUME CoreInv, NEW r \in Rounds, CancelRound(r)
    PROVE  CoreInv'
<1>1. Active(r)
  BY DEF CancelRound
<1>2. /\ round' = [round EXCEPT ![r].state = "cancelled", ![r].pausedFrom = "none"]
      /\ \/ /\ attempt[r].state = "active"
            /\ attempt' = [attempt EXCEPT ![r].state = "cancelled"]
            /\ contributions' = [contributions EXCEPT
                                    ![r] = [p \in Players |-> NoContribution]]
         \/ attempt[r].state # "active" /\ UNCHANGED <<attempt, contributions>>
  BY DEF CancelRound
<1>3. TypeOK'
  <2>1. round' \in [Rounds -> RoundRecord]
    BY <1>2, RoundUpdateType DEF CoreInv, RoundStates, TerminalStates, PausedFromStates
  <2>2. /\ attempt' \in [Rounds -> AttemptRecord]
        /\ contributions' \in [Rounds -> ContributionRows]
    <3>1. CASE attempt[r].state = "active"
      <4>1. /\ attempt' = [attempt EXCEPT ![r].state = "cancelled"]
            /\ contributions' = [contributions EXCEPT
                                    ![r] = [p \in Players |-> NoContribution]]
        BY <1>2, <3>1
      <4>2. attempt' \in [Rounds -> AttemptRecord]
        BY <4>1 DEF CoreInv, TypeOK, AttemptRecord
      <4>3. contributions' \in [Rounds -> ContributionRows]
        BY <4>1 DEF CoreInv, TypeOK, ContributionRows, NoContribution
      <4> QED BY <4>2, <4>3
    <3>2. CASE attempt[r].state # "active"
      BY <1>2, <3>2 DEF CoreInv, TypeOK
    <3> QED BY <3>1, <3>2
  <2>4. openWork' \in [Rounds -> Seq(WorkKinds)]
    <3>1. <<"cancellation">> \in Seq(WorkKinds)
      BY DEF WorkKinds
    <3> QED BY <3>1, EnqueueType DEF CancelRound, CoreInv
  <2>5. worst' \in [Rounds -> [Players -> PenaltyTotals]]
    BY DEF CancelRound, CoreInv, TypeOK, PenaltyTotals
  <2>6. penalties' \in [Rounds -> [Players -> [Severities -> -5 .. 0]]]
    BY DEF CancelRound, CoreInv, TypeOK
  <2>7. bans' \in [Rounds -> SUBSET Players] /\ UNCHANGED <<season, awards, submissions, resets>>
    BY DEF CancelRound, CoreInv, TypeOK
  <2> QED BY <2>1, <2>2, <2>4, <2>5, <2>6, <2>7 DEF CoreInv, TypeOK
<1>4. ConfigInv'
  BY <1>1, <1>2 DEF CoreInv, TypeOK, RoundRecord, ConfigInv, Active, ActiveStates
<1>5. AttemptMatchesRound'
  BY <1>2 DEF CoreInv, TypeOK, RoundRecord, AttemptRecord, AttemptMatchesRound, Running
<1> QED BY <1>3, <1>4, <1>5 DEF CoreInv

LEMMA CoreAdministration ==
    ASSUME CoreInv,
           \/ \E r \in Rounds, p \in Players : BanPlayer(r, p) \/ UnbanPlayer(r, p)
           \/ ResetSeason
    PROVE  CoreInv'
<1>1. CASE \E r \in Rounds, p \in Players : BanPlayer(r, p) \/ UnbanPlayer(r, p)
  <2>1. PICK r \in Rounds, p \in Players : BanPlayer(r, p) \/ UnbanPlayer(r, p)
    BY <1>1
  <2>2. /\ bans' \in [Rounds -> SUBSET Players]
        /\ UNCHANGED <<season, round, attempt, contributions, worst, penalties, awards,
                       submissions, resets, openWork>>
    <3>1. CASE BanPlayer(r, p)
      BY <3>1 DEF BanPlayer, CoreInv, TypeOK
    <3>2. CASE UnbanPlayer(r, p)
      BY <3>2 DEF UnbanPlayer, CoreInv, TypeOK
    <3> QED BY <2>1, <3>1, <3>2
  <2> QED BY <2>2 DEF CoreInv, TypeOK, ConfigInv, AttemptMatchesRound, Running
<1>2. CASE ResetSeason
  <2>1. season' \in 0 .. MaxSeasons
    BY <1>2, MaxSeasonsAssumption DEF ResetSeason, CoreInv, TypeOK
  <2> QED BY <1>2, <2>1
             DEF ResetSeason, CoreInv, TypeOK, ConfigInv, AttemptMatchesRound, Running
<1> QED BY <1>1, <1>2

LEMMA CoreResolveWork ==
    ASSUME CoreInv, NEW r \in Rounds, ResolveWork(r)
    PROVE  CoreInv'
<1>1. /\ openWork[r] # << >>
      /\ openWork' = [openWork EXCEPT ![r] = Tail(openWork[r])]
      /\ round' = [round EXCEPT ![r].settled = round[r].settled \/ SettlesRound(r)]
      /\ UNCHANGED <<season, attempt, contributions, worst, penalties, awards, bans,
                     submissions, resets>>
  BY DEF ResolveWork
<1>2. TypeOK'
  <2>1. openWork' \in [Rounds -> Seq(WorkKinds)]
    BY <1>1, HeadTailProperties DEF CoreInv, TypeOK
  <2>2. round' \in [Rounds -> RoundRecord]
    <3>1. (round[r].settled \/ SettlesRound(r)) \in BOOLEAN
      OBVIOUS
    <3> QED BY <1>1, <3>1 DEF CoreInv, TypeOK, RoundRecord
  <2> QED BY <1>1, <2>1, <2>2 DEF CoreInv, TypeOK
<1>3. ConfigInv' /\ AttemptMatchesRound'
  BY <1>1 DEF CoreInv, TypeOK, RoundRecord, ConfigInv, AttemptMatchesRound, Running
<1> QED BY <1>2, <1>3 DEF CoreInv

LEMMA CoreStep == CoreInv /\ [Next]_vars => CoreInv'
<1> SUFFICES ASSUME CoreInv, [Next]_vars PROVE CoreInv'
  OBVIOUS
<1>1. CASE \E r \in Rounds, m \in Messages, p \in Players, parsed \in Inputs :
                ProcessMessage(r, m, p, parsed)
  BY <1>1, CoreDeleteSubmission, CoreAcceptSubmission, CoreCompleteRound, CoreBreakRun
     DEF ProcessMessage
<1>2. CASE \/ \E m, breaking \in Messages : InvalidateAfterReconnectBreak(m, breaking)
           \/ \E breaking \in Messages : EnsureReconnectReset(breaking)
  BY <1>2, CoreReconnect
<1>3. CASE \E r \in Rounds, entries \in Compiled : ActivateRound(r, entries)
  BY <1>3, CoreActivateRound
<1>4. CASE \E r \in Rounds : PauseRound(r) \/ ResumeRound(r) \/ CancelRound(r)
  BY <1>4, CorePauseResume, CoreCancelRound
<1>5. CASE \/ \E r \in Rounds, p \in Players : BanPlayer(r, p) \/ UnbanPlayer(r, p)
           \/ ResetSeason
  BY <1>5, CoreAdministration
<1>6. CASE \E r \in Rounds : ResolveWork(r)
  BY <1>6, CoreResolveWork
<1>7. CASE UNCHANGED vars
  BY <1>7 DEF vars, CoreInv, TypeOK, ConfigInv, AttemptMatchesRound, Running
<1> QED BY <1>1, <1>2, <1>3, <1>4, <1>5, <1>6, <1>7 DEF Next

\* The core invariant holds for every instance.
THEOREM CoreInvariant == Spec => []CoreInv
<1> QED BY CoreInit, CoreStep, PTL DEF Spec

\* Type correctness: in particular nobody's penalties of a round cost more
\* than five points per row, and no total is anything but the five values
\* PenaltyTotal admits.
THEOREM TypeCorrect == Spec => []TypeOK
<1>1. CoreInv => TypeOK
  BY DEF CoreInv
<1> QED BY <1>1, CoreInvariant, PTL

\* The rounds and the attempts table agree in every reachable state, so none
\* of the "impossible" exceptions of processMessage is ever thrown.
THEOREM AttemptsMatchRounds == Spec => []AttemptMatchesRound
<1>1. CoreInv => AttemptMatchesRound
  BY DEF CoreInv
<1> QED BY <1>1, CoreInvariant, PTL

-----------------------------------------------------------------------------
(* The ledger of penalties.  PenaltyTotalIsWorst is not inductive: nothing  *)
(* in it says that the row a worse break will insert is not there yet.     *)

\* Rows exist only for severities up to the worst one.
NoRowBeyondWorst ==
    \A r \in Rounds, p \in Players, severity \in Severities :
        severity < worst[r][p] => penalties[r][p][severity] = 0

LedgerInv == PenaltyTotalIsWorst /\ NoRowBeyondWorst

LEMMA LedgerInit == Init => LedgerInv
BY DEF Init, LedgerInv, PenaltyTotalIsWorst, PenaltyTotal, NoRowBeyondWorst, Severities

\* A step that leaves the penalties alone and cancels nothing.
LEMMA LedgerUnchanged ==
    ASSUME LedgerInv, UNCHANGED <<worst, penalties>>,
           \A r \in Rounds : round'[r].state = "cancelled" => round[r].state = "cancelled"
    PROVE  LedgerInv'
BY DEF LedgerInv, PenaltyTotalIsWorst, PenaltyTotal, NoRowBeyondWorst

\* What one break does to the rows of its author.
LEMMA ChargeOnce ==
    ASSUME TypeOK, LedgerInv, NEW r \in Rounds, NEW p \in Players,
           NEW severity \in Severities,
           worst' = WorstAfter(r, p, severity),
           penalties' = ChargedPenalties(r, p, severity)
    PROVE  /\ PenaltyTotal(r, p)' = worst'[r][p]
           /\ \A s \in Severities : s < worst'[r][p] => penalties'[r][p][s] = 0
<1> DEFINE w == worst[r][p]
           row == penalties[r][p]
<1>1. /\ w \in PenaltyTotals
      /\ row \in [Severities -> -5 .. 0]
      /\ row[-2] + row[-3] + row[-4] + row[-5] = w
      /\ \A s \in Severities : s < w => row[s] = 0
  BY DEF TypeOK, LedgerInv, PenaltyTotalIsWorst, PenaltyTotal, NoRowBeyondWorst
<1>2. CASE severity < w
  <2>1. /\ worst'[r][p] = severity
        /\ penalties'[r][p] = [row EXCEPT ![severity] = severity - w]
    <3>1. AdditionalPenalty(w, severity) = severity - w /\ severity - w # 0
      BY <1>1, <1>2 DEF AdditionalPenalty, PenaltyTotals, Severities
    <3> QED BY <1>2, <3>1 DEF TypeOK, WorstAfter, ChargedPenalties
  <2> HIDE DEF w, row
  <2>2. row[severity] = 0
    BY <1>1, <1>2
  <2>3. penalties'[r][p][-2] + penalties'[r][p][-3] + penalties'[r][p][-4]
            + penalties'[r][p][-5] = severity
    BY <1>1, <2>1, <2>2 DEF Severities, PenaltyTotals
  <2>4. \A s \in Severities : s < severity => penalties'[r][p][s] = 0
    BY <1>1, <1>2, <2>1 DEF Severities, PenaltyTotals
  <2> QED BY <2>1, <2>3, <2>4 DEF PenaltyTotal
<1>3. CASE ~(severity < w)
  <2>1. w # 0
    BY <1>3 DEF Severities
  <2>2. worst' = worst /\ penalties' = penalties
    BY <1>3, <2>1 DEF WorstAfter, ChargedPenalties, AdditionalPenalty
  <2> QED BY <1>1, <2>2 DEF PenaltyTotal
<1> QED BY <1>2, <1>3

LEMMA LedgerBreakRun ==
    ASSUME CoreInv, LedgerInv, NEW r \in Rounds, NEW m \in Messages, NEW p \in Players,
           NEW parsed \in Inputs, NEW defer \in BOOLEAN, BreakRun(r, m, p, parsed, defer)
    PROVE  LedgerInv'
<1> DEFINE severity == Decide(r, p, parsed).severity
<1>1. /\ severity \in Severities
      /\ worst' = WorstAfter(r, p, severity)
      /\ penalties' = ChargedPenalties(r, p, severity)
      /\ round' = [round EXCEPT ![r].state = "waiting_for_start", ![r].pausedFrom = "none"]
  BY BrokenDecision DEF BreakRun
<1> HIDE DEF severity
<1>2. /\ PenaltyTotal(r, p)' = worst'[r][p]
      /\ \A s \in Severities : s < worst'[r][p] => penalties'[r][p][s] = 0
  BY <1>1, ChargeOnce DEF CoreInv
<1>3. ASSUME NEW s \in Rounds, NEW q \in Players, s # r \/ q # p
      PROVE  worst'[s][q] = worst[s][q] /\ penalties'[s][q] = penalties[s][q]
  BY <1>1, <1>3 DEF CoreInv, TypeOK, WorstAfter, ChargedPenalties
<1>4. \A s \in Rounds : round'[s].state = "cancelled" => s # r /\ round[s].state = "cancelled"
  BY <1>1 DEF CoreInv, TypeOK, RoundRecord
<1>5. ASSUME NEW s \in Rounds, NEW q \in Players
      PROVE  /\ PenaltyTotal(s, q)' = worst'[s][q]
             /\ round'[s].state = "cancelled" => worst'[s][q] = 0
             /\ \A t \in Severities : t < worst'[s][q] => penalties'[s][q][t] = 0
  <2>1. CASE s = r /\ q = p
    BY <1>2, <1>4, <2>1
  <2>2. CASE s # r \/ q # p
    BY <1>3, <1>4, <2>2 DEF LedgerInv, PenaltyTotalIsWorst, PenaltyTotal, NoRowBeyondWorst
  <2> QED BY <2>1, <2>2
<1> QED BY <1>5 DEF LedgerInv, PenaltyTotalIsWorst, NoRowBeyondWorst

LEMMA LedgerCancelRound ==
    ASSUME CoreInv, LedgerInv, NEW r \in Rounds, CancelRound(r)
    PROVE  LedgerInv'
<1>1. /\ round' = [round EXCEPT ![r].state = "cancelled", ![r].pausedFrom = "none"]
      /\ penalties' = [penalties EXCEPT
                          ![r] = [p \in Players |-> [s \in Severities |-> 0]]]
      /\ worst' = [worst EXCEPT ![r] = [p \in Players |-> 0]]
  BY DEF CancelRound
<1>2. ASSUME NEW s \in Rounds, NEW q \in Players
      PROVE  /\ PenaltyTotal(s, q)' = worst'[s][q]
             /\ round'[s].state = "cancelled" => worst'[s][q] = 0
             /\ \A t \in Severities : t < worst'[s][q] => penalties'[s][q][t] = 0
  <2>1. CASE s = r
    <3>1. worst'[s][q] = 0 /\ penalties'[s][q] = [t \in Severities |-> 0]
      BY <1>1, <2>1 DEF CoreInv, TypeOK
    <3> QED BY <3>1 DEF PenaltyTotal, Severities
  <2>2. CASE s # r
    <3>1. /\ worst'[s] = worst[s]
          /\ penalties'[s] = penalties[s]
          /\ round'[s] = round[s]
      BY <1>1, <2>2 DEF CoreInv, TypeOK
    <3> QED BY <3>1 DEF LedgerInv, PenaltyTotalIsWorst, PenaltyTotal, NoRowBeyondWorst
  <2> QED BY <2>1, <2>2
<1> QED BY <1>2 DEF LedgerInv, PenaltyTotalIsWorst, NoRowBeyondWorst

LEMMA LedgerStep == CoreInv /\ LedgerInv /\ [Next]_vars => LedgerInv'
<1> SUFFICES ASSUME CoreInv, LedgerInv, [Next]_vars PROVE LedgerInv'
  OBVIOUS
<1>1. ASSUME NEW r \in Rounds, NEW m \in Messages, NEW p \in Players, NEW parsed \in Inputs,
             ProcessMessage(r, m, p, parsed)
      PROVE  LedgerInv'
  <2>1. CASE DeleteSubmission(r, m, p, parsed)
    BY <2>1, LedgerUnchanged DEF DeleteSubmission
  <2>2. CASE AcceptSubmission(r, m, p, parsed)
    BY <2>2, LedgerUnchanged DEF AcceptSubmission, CoreInv, TypeOK, RoundRecord
  <2>3. CASE CompleteRound(r, m, p, parsed)
    BY <2>3, LedgerUnchanged DEF CompleteRound, CoreInv, TypeOK, RoundRecord
  <2>4. CASE \E defer \in BOOLEAN : BreakRun(r, m, p, parsed, defer)
    BY <2>4, LedgerBreakRun
  <2> QED BY <1>1, <2>1, <2>2, <2>3, <2>4 DEF ProcessMessage
<1>2. CASE \/ \E m, breaking \in Messages : InvalidateAfterReconnectBreak(m, breaking)
           \/ \E breaking \in Messages : EnsureReconnectReset(breaking)
  BY <1>2, LedgerUnchanged DEF InvalidateAfterReconnectBreak, EnsureReconnectReset
<1>3. ASSUME NEW r \in Rounds, NEW entries \in Compiled, ActivateRound(r, entries)
      PROVE  LedgerInv'
  BY <1>3, LedgerUnchanged DEF ActivateRound, CoreInv, TypeOK
<1>4. ASSUME NEW r \in Rounds, PauseRound(r) \/ ResumeRound(r) \/ CancelRound(r)
      PROVE  LedgerInv'
  <2>1. CASE PauseRound(r)
    BY <2>1, LedgerUnchanged DEF PauseRound, CoreInv, TypeOK, RoundRecord
  <2>2. CASE ResumeRound(r)
    <3>1. round[r].pausedFrom # "cancelled"
      BY DEF CoreInv, TypeOK, RoundRecord, PausedFromStates
    <3> QED BY <2>2, <3>1, LedgerUnchanged DEF ResumeRound, CoreInv, TypeOK, RoundRecord
  <2>3. CASE CancelRound(r)
    BY <2>3, LedgerCancelRound
  <2> QED BY <1>4, <2>1, <2>2, <2>3
<1>5. CASE \/ \E r \in Rounds, p \in Players : BanPlayer(r, p) \/ UnbanPlayer(r, p)
           \/ ResetSeason
  <2>1. UNCHANGED <<round, worst, penalties>>
    BY <1>5 DEF BanPlayer, UnbanPlayer, ResetSeason
  <2> QED BY <2>1, LedgerUnchanged
<1>6. ASSUME NEW r \in Rounds, ResolveWork(r)
      PROVE  LedgerInv'
  BY <1>6, LedgerUnchanged DEF ResolveWork, CoreInv, TypeOK, RoundRecord
<1>7. CASE UNCHANGED vars
  BY <1>7, LedgerUnchanged DEF vars
<1> QED BY <1>1, <1>2, <1>3, <1>4, <1>5, <1>6, <1>7 DEF Next

LEMMA LedgerInvariant == Spec => []LedgerInv
<1> QED BY CoreInvariant, LedgerInit, LedgerStep, PTL DEF Spec

\* However many breaks, by whomever and in whatever order of severities: the
\* penalty rows of a player in a round sum to their single worst severity,
\* and a cancelled round has none.
THEOREM PenaltiesAreWorst == Spec => []PenaltyTotalIsWorst
<1>1. LedgerInv => PenaltyTotalIsWorst
  BY DEF LedgerInv
<1> QED BY <1>1, LedgerInvariant, PTL

\* The UNIQUE source_key of a penalty row never makes processMessage throw.
THEOREM SourceKeysAreFree == Spec => []NoSourceKeyCollision
<1>1. LedgerInv => NoSourceKeyCollision
  BY DEF LedgerInv, NoRowBeyondWorst, NoSourceKeyCollision, SourceKeyFree, AdditionalPenalty
<1> QED BY <1>1, LedgerInvariant, PTL

-----------------------------------------------------------------------------
(* Rounds, their Discord work, and seasons. *)

\* The active round plays in the open season.
SeasonInv == \A r \in Rounds : Active(r) => round[r].season = season /\ season # 0

SettlementInv == RoundsDoNotOverlap /\ NothingLeftMeansSettled /\ SeasonInv

LEMMA SettlementInit == Init => SettlementInv
BY DEF Init, SettlementInv, RoundsDoNotOverlap, NothingLeftMeansSettled, SeasonInv,
       Active, ActiveStates, Terminal, TerminalStates

\* The active round changes its state and stays active.
LEMMA ActiveRoundGoesOn ==
    ASSUME CoreInv, SettlementInv, NEW r \in Rounds, Active(r),
           NEW state \in ActiveStates, NEW pausedFrom,
           round' = [round EXCEPT ![r].state = state, ![r].pausedFrom = pausedFrom],
           UNCHANGED <<season, openWork>>
    PROVE  SettlementInv'
<1>1. /\ round'[r].state \in ActiveStates
      /\ round'[r].settled = round[r].settled
      /\ round'[r].season = round[r].season
      /\ \A s \in Rounds : s # r => round'[s] = round[s]
  BY DEF CoreInv, TypeOK, RoundRecord
<1> QED BY <1>1 DEF SettlementInv, RoundsDoNotOverlap, NothingLeftMeansSettled, SeasonInv,
                    Active, ActiveStates, Terminal, TerminalStates

\* The active round ends, and its last work is enqueued.
LEMMA ActiveRoundEnds ==
    ASSUME CoreInv, SettlementInv, NEW r \in Rounds, Active(r),
           NEW state \in TerminalStates, NEW pausedFrom,
           NEW kinds \in Seq(WorkKinds), kinds # << >>,
           round' = [round EXCEPT ![r].state = state, ![r].pausedFrom = pausedFrom],
           Enqueue(r, kinds), season' = season
    PROVE  SettlementInv'
<1>1. /\ round'[r].state \in TerminalStates
      /\ round'[r].settled = round[r].settled
      /\ \A s \in Rounds : s # r => round'[s] = round[s] /\ openWork'[s] = openWork[s]
  BY DEF CoreInv, TypeOK, RoundRecord, Enqueue
<1>2. openWork'[r] # << >>
  <2>1. openWork[r] \in Seq(WorkKinds) /\ openWork'[r] = openWork[r] \o kinds
    BY DEF CoreInv, TypeOK, Enqueue
  <2> QED BY <2>1, ConcatEqualIffEmpty, ConcatEmptySeq, ConcatProperties, EmptySeq, LenProperties
<1>3. ~round[r].settled /\ \A s \in Rounds : s # r => ~Active(s)
  BY DEF SettlementInv, RoundsDoNotOverlap, Active, ActiveStates, Terminal, TerminalStates
<1> QED BY <1>1, <1>2, <1>3
           DEF SettlementInv, RoundsDoNotOverlap, NothingLeftMeansSettled, SeasonInv,
               Active, ActiveStates, Terminal, TerminalStates

LEMMA SettlementActivateRound ==
    ASSUME CoreInv, SettlementInv, NEW r \in Rounds, NEW entries \in Compiled,
           ActivateRound(r, entries)
    PROVE  SettlementInv'
<1>1. /\ round[r].state = "absent"
      /\ \A s \in Rounds : ~Active(s)
      /\ \A s \in Rounds : Terminal(s) => round[s].settled
      /\ season' = OpenSeason
  BY DEF ActivateRound, NoActiveRound, NoUnsettledTerminalRound
<1>2. /\ round'[r].state = "waiting_for_start"
      /\ round'[r].settled = FALSE
      /\ round'[r].season = OpenSeason
      /\ \A s \in Rounds : s # r => round'[s] = round[s] /\ openWork'[s] = openWork[s]
  BY DEF CoreInv, TypeOK, ActivateRound, Enqueue
<1>3. OpenSeason # 0
  BY DEF OpenSeason
<1> QED BY <1>1, <1>2, <1>3
           DEF SettlementInv, RoundsDoNotOverlap, NothingLeftMeansSettled, SeasonInv,
               Active, ActiveStates, Terminal, TerminalStates

LEMMA SettlementResolveWork ==
    ASSUME CoreInv, SettlementInv, NEW r \in Rounds, ResolveWork(r)
    PROVE  SettlementInv'
<1>1. openWork[r] # << >> /\ season' = season
  BY DEF ResolveWork
<1>2. ~round[r].settled
  BY <1>1 DEF SettlementInv, RoundsDoNotOverlap
<1>3. /\ openWork'[r] = Tail(openWork[r])
      /\ round'[r].settled = (round[r].settled \/ SettlesRound(r))
      /\ round'[r].state = round[r].state
      /\ round'[r].season = round[r].season
      /\ \A s \in Rounds : s # r => round'[s] = round[s] /\ openWork'[s] = openWork[s]
  BY DEF CoreInv, TypeOK, RoundRecord, ResolveWork
<1>4. round'[r].settled <=> Terminal(r) /\ openWork'[r] = << >>
  BY <1>2, <1>3 DEF SettlesRound
<1> QED BY <1>1, <1>2, <1>3, <1>4
           DEF SettlementInv, RoundsDoNotOverlap, NothingLeftMeansSettled, SeasonInv,
               Active, ActiveStates, Terminal, TerminalStates

LEMMA SettlementStep == CoreInv /\ SettlementInv /\ [Next]_vars => SettlementInv'
<1> SUFFICES ASSUME CoreInv, SettlementInv, [Next]_vars PROVE SettlementInv'
  OBVIOUS
<1>1. ASSUME UNCHANGED <<season, round, openWork>>
      PROVE  SettlementInv'
  BY <1>1 DEF SettlementInv, RoundsDoNotOverlap, NothingLeftMeansSettled, SeasonInv,
              Active, Terminal
<1>2. ASSUME NEW r \in Rounds, NEW m \in Messages, NEW p \in Players, NEW parsed \in Inputs,
             ProcessMessage(r, m, p, parsed)
      PROVE  SettlementInv'
  <2>1. CASE DeleteSubmission(r, m, p, parsed)
    BY <1>1, <2>1 DEF DeleteSubmission
  <2>2. CASE AcceptSubmission(r, m, p, parsed)
    BY <2>2, ActiveRoundGoesOn DEF AcceptSubmission, ActiveStates
  <2>3. CASE CompleteRound(r, m, p, parsed)
    <3>1. <<"completion", "leaderboard">> \in Seq(WorkKinds)
      BY DEF WorkKinds
    <3>2. <<"completion", "leaderboard">> # << >>
      OBVIOUS
    <3> QED BY <2>3, <3>1, <3>2, ActiveRoundEnds DEF CompleteRound, TerminalStates
  <2>4. CASE \E defer \in BOOLEAN : BreakRun(r, m, p, parsed, defer)
    BY <2>4, ActiveRoundGoesOn DEF BreakRun, ActiveStates
  <2> QED BY <1>2, <2>1, <2>2, <2>3, <2>4 DEF ProcessMessage
<1>3. CASE \/ \E m, breaking \in Messages : InvalidateAfterReconnectBreak(m, breaking)
           \/ \E breaking \in Messages : EnsureReconnectReset(breaking)
  BY <1>1, <1>3 DEF InvalidateAfterReconnectBreak, EnsureReconnectReset
<1>4. ASSUME NEW r \in Rounds, NEW entries \in Compiled, ActivateRound(r, entries)
      PROVE  SettlementInv'
  BY <1>4, SettlementActivateRound
<1>5. ASSUME NEW r \in Rounds, PauseRound(r) \/ ResumeRound(r) \/ CancelRound(r)
      PROVE  SettlementInv'
  <2>1. CASE PauseRound(r)
    BY <2>1, ActiveRoundGoesOn DEF PauseRound, Active, ActiveStates
  <2>2. CASE ResumeRound(r)
    <3>1. round[r].pausedFrom \in ActiveStates /\ Active(r)
      BY <2>2 DEF ResumeRound, CoreInv, TypeOK, RoundRecord, PausedFromStates,
                  AttemptMatchesRound, Active, ActiveStates
    <3> QED BY <2>2, <3>1, ActiveRoundGoesOn DEF ResumeRound
  <2>3. CASE CancelRound(r)
    <3>1. <<"cancellation">> \in Seq(WorkKinds)
      BY DEF WorkKinds
    <3>2. <<"cancellation">> # << >>
      OBVIOUS
    <3> QED BY <2>3, <3>1, <3>2, ActiveRoundEnds DEF CancelRound, TerminalStates
  <2> QED BY <1>5, <2>1, <2>2, <2>3
<1>6. CASE \E r \in Rounds, p \in Players : BanPlayer(r, p) \/ UnbanPlayer(r, p)
  BY <1>1, <1>6 DEF BanPlayer, UnbanPlayer
<1>7. CASE ResetSeason
  BY <1>7 DEF ResetSeason, NoActiveRound, SettlementInv, RoundsDoNotOverlap,
              NothingLeftMeansSettled, SeasonInv, Active, Terminal
<1>8. ASSUME NEW r \in Rounds, ResolveWork(r)
      PROVE  SettlementInv'
  BY <1>8, SettlementResolveWork
<1>9. CASE UNCHANGED vars
  BY <1>1, <1>9 DEF vars
<1> QED BY <1>2, <1>3, <1>4, <1>5, <1>6, <1>7, <1>8, <1>9 DEF Next

LEMMA SettlementInvariant == Spec => []SettlementInv
<1> QED BY CoreInvariant, SettlementInit, SettlementStep, PTL DEF Spec

\* Rounds never overlap, and a settled round has no work left.
THEOREM RoundsNeverOverlap == Spec => []RoundsDoNotOverlap
<1>1. SettlementInv => RoundsDoNotOverlap
  BY DEF SettlementInv
<1> QED BY <1>1, SettlementInvariant, PTL

\* A terminal round with no work left is settled: activation and season reset
\* are never blocked for good by a round with nothing to deliver.
THEOREM SettlementIsNotMissed == Spec => []NothingLeftMeansSettled
<1>1. SettlementInv => NothingLeftMeansSettled
  BY DEF SettlementInv
<1> QED BY <1>1, SettlementInvariant, PTL

-----------------------------------------------------------------------------
(* What a step may never do to the scores. *)

\* Only the active round is scored.
LEMMA OnlyActiveRoundScores ==
    ASSUME CoreInv, [Next]_vars, NEW s \in Rounds, ~Active(s)
    PROVE  UNCHANGED <<worst[s], penalties[s], awards[s]>>
<1>1. ASSUME NEW r \in Rounds, NEW m \in Messages, NEW p \in Players, NEW parsed \in Inputs,
             ProcessMessage(r, m, p, parsed)
      PROVE  UNCHANGED <<worst[s], penalties[s], awards[s]>>
  <2>1. CASE DeleteSubmission(r, m, p, parsed) \/ AcceptSubmission(r, m, p, parsed)
    BY <2>1 DEF DeleteSubmission, AcceptSubmission
  <2>2. CASE CompleteRound(r, m, p, parsed)
    <3>1. r # s
      BY <2>2 DEF CompleteRound
    <3> QED BY <2>2, <3>1 DEF CompleteRound, CoreInv, TypeOK
  <2>3. CASE \E defer \in BOOLEAN : BreakRun(r, m, p, parsed, defer)
    <3>1. /\ r # s
          /\ worst' = WorstAfter(r, p, Decide(r, p, parsed).severity)
          /\ penalties' = ChargedPenalties(r, p, Decide(r, p, parsed).severity)
          /\ awards' = awards
      BY <2>3 DEF BreakRun
    <3> QED BY <3>1 DEF WorstAfter, ChargedPenalties, CoreInv, TypeOK
  <2> QED BY <1>1, <2>1, <2>2, <2>3 DEF ProcessMessage
<1>2. CASE \/ \E m, breaking \in Messages : InvalidateAfterReconnectBreak(m, breaking)
           \/ \E breaking \in Messages : EnsureReconnectReset(breaking)
  BY <1>2 DEF InvalidateAfterReconnectBreak, EnsureReconnectReset
<1>3. CASE \E r \in Rounds, entries \in Compiled : ActivateRound(r, entries)
  BY <1>3 DEF ActivateRound
<1>4. ASSUME NEW r \in Rounds, PauseRound(r) \/ ResumeRound(r) \/ CancelRound(r)
      PROVE  UNCHANGED <<worst[s], penalties[s], awards[s]>>
  <2>1. CASE PauseRound(r) \/ ResumeRound(r)
    BY <2>1 DEF PauseRound, ResumeRound
  <2>2. CASE CancelRound(r)
    <3>1. r # s
      BY <2>2 DEF CancelRound
    <3> QED BY <2>2, <3>1 DEF CancelRound, CoreInv, TypeOK
  <2> QED BY <1>4, <2>1, <2>2
<1>5. CASE \/ \E r \in Rounds, p \in Players : BanPlayer(r, p) \/ UnbanPlayer(r, p)
           \/ ResetSeason
  BY <1>5 DEF BanPlayer, UnbanPlayer, ResetSeason
<1>6. CASE \E r \in Rounds : ResolveWork(r)
  BY <1>6 DEF ResolveWork
<1>7. CASE UNCHANGED vars
  BY <1>7 DEF vars
<1> QED BY <1>1, <1>2, <1>3, <1>4, <1>5, <1>6, <1>7 DEF Next

\* A terminal round stays in its state.
LEMMA TerminalStateStays ==
    ASSUME CoreInv, [Next]_vars, NEW s \in Rounds, Terminal(s)
    PROVE  round'[s].state = round[s].state
<1>1. ~Active(s) /\ round[s].state \notin {"absent", "paused", "waiting_for_start", "counting"}
  BY DEF Active, ActiveStates, Terminal, TerminalStates
<1>2. ASSUME NEW r \in Rounds, NEW m \in Messages, NEW p \in Players, NEW parsed \in Inputs,
             ProcessMessage(r, m, p, parsed)
      PROVE  round'[s].state = round[s].state
  <2>1. r # s
    BY <1>1, <1>2 DEF ProcessMessage, DeleteSubmission, AcceptSubmission, CompleteRound, BreakRun
  <2>2. CASE DeleteSubmission(r, m, p, parsed)
    BY <2>2 DEF DeleteSubmission
  <2>3. CASE AcceptSubmission(r, m, p, parsed)
    BY <2>1, <2>3 DEF AcceptSubmission, CoreInv, TypeOK
  <2>4. CASE CompleteRound(r, m, p, parsed)
    BY <2>1, <2>4 DEF CompleteRound, CoreInv, TypeOK
  <2>5. CASE \E defer \in BOOLEAN : BreakRun(r, m, p, parsed, defer)
    BY <2>1, <2>5 DEF BreakRun, CoreInv, TypeOK
  <2> QED BY <1>2, <2>2, <2>3, <2>4, <2>5 DEF ProcessMessage
<1>3. CASE \/ \E m, breaking \in Messages : InvalidateAfterReconnectBreak(m, breaking)
           \/ \E breaking \in Messages : EnsureReconnectReset(breaking)
  BY <1>3 DEF InvalidateAfterReconnectBreak, EnsureReconnectReset
<1>4. ASSUME NEW r \in Rounds, NEW entries \in Compiled, ActivateRound(r, entries)
      PROVE  round'[s].state = round[s].state
  BY <1>1, <1>4 DEF ActivateRound, CoreInv, TypeOK
<1>5. ASSUME NEW r \in Rounds, PauseRound(r) \/ ResumeRound(r) \/ CancelRound(r)
      PROVE  round'[s].state = round[s].state
  <2>1. CASE PauseRound(r)
    BY <1>1, <2>1 DEF PauseRound, CoreInv, TypeOK
  <2>2. CASE ResumeRound(r)
    BY <1>1, <2>2 DEF ResumeRound, CoreInv, TypeOK
  <2>3. CASE CancelRound(r)
    BY <1>1, <2>3 DEF CancelRound, CoreInv, TypeOK
  <2> QED BY <1>5, <2>1, <2>2, <2>3
<1>6. CASE \/ \E r \in Rounds, p \in Players : BanPlayer(r, p) \/ UnbanPlayer(r, p)
           \/ ResetSeason
  BY <1>6 DEF BanPlayer, UnbanPlayer, ResetSeason
<1>7. ASSUME NEW r \in Rounds, ResolveWork(r)
      PROVE  round'[s].state = round[s].state
  BY <1>7 DEF ResolveWork, CoreInv, TypeOK, RoundRecord
<1>8. CASE UNCHANGED vars
  BY <1>8 DEF vars
<1> QED BY <1>2, <1>3, <1>4, <1>5, <1>6, <1>7, <1>8 DEF Next

\* No step changes the scores of a closed season.
THEOREM ClosedSeasonsAreFrozen == Spec => ClosedSeasonIsFrozen
<1>1. ASSUME CoreInv, SettlementInv, [Next]_vars, NEW r \in Rounds,
             round[r].season \notin {0, season}
      PROVE  UNCHANGED <<worst[r], penalties[r], awards[r]>>
  <2>1. ~Active(r)
    BY <1>1 DEF SettlementInv, SeasonInv
  <2> QED BY <1>1, <2>1, OnlyActiveRoundScores
<1>2. CoreInv /\ SettlementInv /\ [Next]_vars =>
        [\A r \in Rounds : round[r].season \notin {0, season} =>
            UNCHANGED <<worst[r], penalties[r], awards[r]>>]_vars
  BY <1>1
<1> QED BY <1>2, CoreInvariant, SettlementInvariant, PTL DEF Spec, ClosedSeasonIsFrozen

\* No step changes the outcome or the scores of a terminal round.
THEOREM TerminalRoundsAreFinal == Spec => TerminalRoundIsFinal
<1>1. ASSUME CoreInv, [Next]_vars, NEW r \in Rounds, Terminal(r)
      PROVE  /\ round'[r].state = round[r].state
             /\ UNCHANGED <<worst[r], penalties[r], awards[r]>>
  <2>1. ~Active(r)
    BY <1>1 DEF Active, ActiveStates, Terminal, TerminalStates
  <2> QED BY <1>1, <2>1, OnlyActiveRoundScores, TerminalStateStays
<1>2. CoreInv /\ [Next]_vars =>
        [\A r \in Rounds : Terminal(r) =>
            /\ round'[r].state = round[r].state
            /\ UNCHANGED <<worst[r], penalties[r], awards[r]>>]_vars
  BY <1>1
<1> QED BY <1>2, CoreInvariant, PTL DEF Spec, TerminalRoundIsFinal

-----------------------------------------------------------------------------
(* Consecutive values of a run. *)

NoRepeats(authors) == \A i \in 1 .. Len(authors) - 1 : authors[i] # authors[i + 1]

\* An accepted submission extends a run without repeats by another author.
LEMMA ExtendedWithoutRepeats ==
    ASSUME CoreInv, NobodyCountsTwiceInARow,
           NEW r \in Rounds, NEW p \in Players, NEW parsed \in Inputs,
           Active(r), Decide(r, p, parsed).kind = "accepted"
    PROVE  NoRepeats(ExtendedAttempt(r, p).authors)
<1> DEFINE before == AcceptedAuthors(r)
           n == Len(before)
<1>1. /\ before \in Seq(Players)
      /\ n \in Nat
      /\ n > 0 => before[n] # p
  BY AcceptedDecision
<1>2. NoRepeats(before)
  <2>1. CASE attempt[r].state = "active"
    BY <2>1 DEF NobodyCountsTwiceInARow, NoRepeats, AcceptedAuthors
  <2>2. CASE attempt[r].state # "active"
    <3>1. before = << >>
      BY <2>2 DEF AcceptedAuthors
    <3> QED BY <3>1, EmptySeq DEF NoRepeats
  <2> QED BY <2>1, <2>2
<1>3. ExtendedAttempt(r, p).authors = Append(before, p)
  BY DEF ExtendedAttempt
<1> HIDE DEF before
<1>4. /\ Len(Append(before, p)) = n + 1
      /\ \A i \in 1 .. n : Append(before, p)[i] = before[i]
      /\ Append(before, p)[n + 1] = p
  BY <1>1, AppendProperties
<1>5. ASSUME NEW i \in 1 .. n
      PROVE  Append(before, p)[i] # Append(before, p)[i + 1]
  <2>1. CASE i = n
    BY <1>1, <1>4, <2>1
  <2>2. CASE i # n
    BY <1>1, <1>2, <1>4, <2>2 DEF NoRepeats
  <2> QED BY <2>1, <2>2
<1> QED BY <1>1, <1>3, <1>4, <1>5 DEF NoRepeats

\* A step that changes only the state of attempts.
LEMMA AuthorsUnchanged ==
    ASSUME NobodyCountsTwiceInARow,
           \A s \in Rounds : attempt'[s].authors = attempt[s].authors
    PROVE  NobodyCountsTwiceInARow'
BY DEF NobodyCountsTwiceInARow

LEMMA RepeatsStep == CoreInv /\ NobodyCountsTwiceInARow /\ [Next]_vars
                        => NobodyCountsTwiceInARow'
<1> SUFFICES ASSUME CoreInv, NobodyCountsTwiceInARow, [Next]_vars
             PROVE  NobodyCountsTwiceInARow'
  OBVIOUS
<1>1. ASSUME UNCHANGED attempt
      PROVE  NobodyCountsTwiceInARow'
  BY <1>1, AuthorsUnchanged
<1>2. ASSUME NEW r \in Rounds, NEW m \in Messages, NEW p \in Players, NEW parsed \in Inputs,
             ProcessMessage(r, m, p, parsed)
      PROVE  NobodyCountsTwiceInARow'
  <2>1. CASE DeleteSubmission(r, m, p, parsed)
    BY <1>1, <2>1 DEF DeleteSubmission
  <2>2. CASE AcceptSubmission(r, m, p, parsed) \/ CompleteRound(r, m, p, parsed)
    <3>1. Active(r) /\ Decide(r, p, parsed).kind = "accepted"
      BY <2>2 DEF AcceptSubmission, CompleteRound
    <3>2. /\ attempt'[r].authors = ExtendedAttempt(r, p).authors
          /\ \A s \in Rounds : s # r => attempt'[s] = attempt[s]
      <4>1. CASE AcceptSubmission(r, m, p, parsed)
        BY <4>1 DEF AcceptSubmission, CoreInv, TypeOK
      <4>2. CASE CompleteRound(r, m, p, parsed)
        BY <4>2 DEF CompleteRound, ExtendedAttempt, CoreInv, TypeOK
      <4> QED BY <2>2, <4>1, <4>2
    <3>3. NoRepeats(attempt'[r].authors)
      BY <3>1, <3>2, ExtendedWithoutRepeats
    <3> QED BY <3>2, <3>3 DEF NobodyCountsTwiceInARow, NoRepeats
  <2>3. CASE \E defer \in BOOLEAN : BreakRun(r, m, p, parsed, defer)
    <3>1. attempt' = [attempt EXCEPT ![r].state = "broken"]
      BY <2>3 DEF BreakRun
    <3> QED BY <3>1, AuthorsUnchanged DEF CoreInv, TypeOK, AttemptRecord
  <2> QED BY <1>2, <2>1, <2>2, <2>3 DEF ProcessMessage
<1>3. CASE \/ \E m, breaking \in Messages : InvalidateAfterReconnectBreak(m, breaking)
           \/ \E breaking \in Messages : EnsureReconnectReset(breaking)
  BY <1>1, <1>3 DEF InvalidateAfterReconnectBreak, EnsureReconnectReset
<1>4. CASE \E r \in Rounds, entries \in Compiled : ActivateRound(r, entries)
  BY <1>1, <1>4 DEF ActivateRound
<1>5. ASSUME NEW r \in Rounds, PauseRound(r) \/ ResumeRound(r) \/ CancelRound(r)
      PROVE  NobodyCountsTwiceInARow'
  <2>1. CASE PauseRound(r) \/ ResumeRound(r)
    BY <1>1, <2>1 DEF PauseRound, ResumeRound
  <2>2. CASE CancelRound(r)
    <3>1. CASE attempt[r].state = "active"
      <4>1. attempt' = [attempt EXCEPT ![r].state = "cancelled"]
        BY <2>2, <3>1 DEF CancelRound
      <4> QED BY <4>1, AuthorsUnchanged DEF CoreInv, TypeOK, AttemptRecord
    <3>2. CASE attempt[r].state # "active"
      BY <1>1, <2>2, <3>2 DEF CancelRound
    <3> QED BY <3>1, <3>2
  <2> QED BY <1>5, <2>1, <2>2
<1>6. CASE \/ \E r \in Rounds, p \in Players : BanPlayer(r, p) \/ UnbanPlayer(r, p)
           \/ ResetSeason
  BY <1>1, <1>6 DEF BanPlayer, UnbanPlayer, ResetSeason
<1>7. CASE \E r \in Rounds : ResolveWork(r)
  BY <1>1, <1>7 DEF ResolveWork
<1>8. CASE UNCHANGED vars
  BY <1>1, <1>8 DEF vars
<1> QED BY <1>2, <1>3, <1>4, <1>5, <1>6, <1>7, <1>8 DEF Next

\* No run of any round contains two consecutive values of one player.
THEOREM NobodyRepeats == Spec => []NobodyCountsTwiceInARow
<1>1. Init => NobodyCountsTwiceInARow
  BY EmptySeq DEF Init, NobodyCountsTwiceInARow
<1> QED BY <1>1, CoreInvariant, RepeatsStep, PTL DEF Spec

-----------------------------------------------------------------------------
(* Induction, for sets: the library's theorems take a predicate, which the *)
(* provers at hand cannot instantiate.                                     *)

LEMMA SetInduction ==
    ASSUME NEW N \in SUBSET Nat, 0 \in N, \A n \in N : n + 1 \in N
    PROVE  N = Nat
<1>1. SUFFICES ASSUME Nat \ N # {} PROVE FALSE
  OBVIOUS
<1>2. ASSUME NEW R, IsWellFoundedOn(R, Nat), \A x, y \in Nat : y < x => <<y, x>> \in R
      PROVE  \E x \in Nat \ N : \A y \in Nat \ N : ~ (y < x)
  <2>1. PICK x \in Nat \ N : \A y \in Nat \ N : ~ (<<y, x>> \in R)
    BY <1>1, <1>2, WFMin
  <2> QED BY <1>2, <2>1
<1>3. IsWellFoundedOn(OpToRel(<, Nat), Nat)
  BY NatLessThanWellFounded, Zenon
<1>4. \A x, y \in Nat : y < x => <<y, x>> \in OpToRel(<, Nat)
  BY Zenon DEF OpToRel
<1>5. PICK x \in Nat \ N : \A y \in Nat \ N : ~ (y < x)
  BY <1>2, <1>3, <1>4, Zenon
<1>6. x # 0 /\ x - 1 \in Nat /\ x - 1 < x
  BY <1>5
<1>7. x - 1 \in N
  BY <1>5, <1>6
<1>8. (x - 1) + 1 \in N
  BY <1>7
<1> QED BY <1>5, <1>8

\* What holds of every set of n elements, by induction on n.
LEMMA SizeInduction ==
    ASSUME NEW S, IsFiniteSet(S), NEW F \in SUBSET SUBSET S, 
           \A T \in SUBSET S : (\A x \in T : T \ {x} \in F) => T \in F
    PROVE  SUBSET S \subseteq F
<1> DEFINE N == {n \in Nat : \A T \in SUBSET S : Cardinality(T) = n => T \in F}
<1>1. \A T \in SUBSET S : IsFiniteSet(T) /\ Cardinality(T) \in Nat
  BY FS_Subset, FS_CardinalityType
<1>2. 0 \in N
  <2>1. \A T \in SUBSET S : Cardinality(T) = 0 => T = {}
    BY <1>1, FS_EmptySet
  <2> QED BY <2>1
<1>3. ASSUME NEW n \in N PROVE n + 1 \in N
  <2>1. SUFFICES ASSUME NEW T \in SUBSET S, Cardinality(T) = n + 1 PROVE T \in F
    OBVIOUS
  <2>2. ASSUME NEW x \in T PROVE T \ {x} \in F
    <3>1. Cardinality(T \ {x}) = Cardinality(T) - 1
      BY <1>1, FS_RemoveElement
    <3>2. Cardinality(T \ {x}) = n
      BY <2>1, <3>1
    <3> QED BY <3>2
  <2> QED BY <2>2
<1>4. N = Nat
  <2> HIDE DEF N
  <2>1. N \subseteq Nat
    BY DEF N
  <2> QED BY <1>2, <1>3, <2>1, SetInduction
<1> QED BY <1>1, <1>4

-----------------------------------------------------------------------------
(* Sums.  FoldFunctionOnSet adds the elements in an order of its own.       *)

Picked(T) == CHOOSE x \in T : TRUE

IsSum(it, f, S) ==
    it = [T \in SUBSET S |-> IF T = {} THEN 0 ELSE f[Picked(T)] + it[T \ {Picked(T)}]]

Sum(f, S) == FoldFunctionOnSet(+, 0, f, S)

LEMMA PickedIsIn == ASSUME NEW T, T # {} PROVE Picked(T) \in T
BY DEF Picked

\* The values of a sum are determined by those it adds.
LEMMA SumsAgree ==
    ASSUME NEW S, IsFiniteSet(S), NEW T \in SUBSET S, NEW f, NEW g, \A x \in T : f[x] = g[x],
           NEW it, IsSum(it, f, S), NEW jt, IsSum(jt, g, T)
    PROVE  \A U \in SUBSET T : it[U] = jt[U]
<1> DEFINE F == {U \in SUBSET T : it[U] = jt[U]}
<1>1. IsFiniteSet(T)
  BY FS_Subset
<1>2. ASSUME NEW U \in SUBSET T, \A x \in U : U \ {x} \in F
      PROVE  U \in F
  <2>1. it[U] = IF U = {} THEN 0 ELSE f[Picked(U)] + it[U \ {Picked(U)}]
    <3>1. U \in SUBSET S OBVIOUS
    <3> QED BY <3>1, Zenon DEF IsSum
  <2>2. jt[U] = IF U = {} THEN 0 ELSE g[Picked(U)] + jt[U \ {Picked(U)}]
    BY Zenon DEF IsSum
  <2>3. U # {} => Picked(U) \in U /\ f[Picked(U)] = g[Picked(U)] /\ it[U \ {Picked(U)}] = jt[U \ {Picked(U)}]
    BY <1>2, PickedIsIn
  <2> QED BY <2>1, <2>2, <2>3
<1>3. SUBSET T \subseteq F
  <2> HIDE DEF F
  <2>1. F \in SUBSET SUBSET T
    BY DEF F
  <2> QED BY <1>1, <1>2, <2>1, SizeInduction
<1> QED BY <1>3

\* Recursion along the size of a finite set.
LEMMA SumExists ==
    ASSUME NEW S, IsFiniteSet(S), NEW f, \A x \in S : f[x] \in Int
    PROVE  \E it \in [SUBSET S -> Int] : IsSum(it, f, S)
<1> DEFINE Up(n) == {T \in SUBSET S : Cardinality(T) <= n}
           Later(it, T) == IF T = {} THEN 0 ELSE f[Picked(T)] + it[T \ {Picked(T)}]
           N == {n \in Nat : \E it \in [Up(n) -> Int] : \A T \in Up(n) : it[T] = Later(it, T)}
<1>1. \A T \in SUBSET S : IsFiniteSet(T) /\ Cardinality(T) \in Nat /\ Cardinality(T) <= Cardinality(S)
  BY FS_Subset, FS_CardinalityType
<1>2. \A T \in SUBSET S : T # {} => Picked(T) \in T /\ f[Picked(T)] \in Int
                                  /\ Cardinality(T \ {Picked(T)}) = Cardinality(T) - 1
  BY <1>1, PickedIsIn, FS_RemoveElement
<1>3. 0 \in N
  <2>1. \A T \in Up(0) : T = {}
    BY <1>1, FS_EmptySet
  <2>2. [T \in Up(0) |-> 0] \in [Up(0) -> Int]
    OBVIOUS
  <2>3. \A T \in Up(0) : [U \in Up(0) |-> 0][T] = Later([U \in Up(0) |-> 0], T)
    BY <2>1
  <2> QED BY <2>2, <2>3
<1>4. ASSUME NEW n \in N PROVE n + 1 \in N
  <2>1. PICK it \in [Up(n) -> Int] : \A T \in Up(n) : it[T] = Later(it, T)
    OBVIOUS
  <2> DEFINE jt == [T \in Up(n + 1) |-> Later(it, T)]
  <2>2. ASSUME NEW T \in Up(n + 1), T # {}
        PROVE  T \ {Picked(T)} \in Up(n)
    BY <1>1, <1>2, <2>2
  <2>3. ASSUME NEW T \in Up(n + 1) PROVE Later(it, T) \in Int
    BY <1>2, <2>2, <2>3
  <2>4. \A T \in Up(n) : T \in Up(n + 1) /\ jt[T] = it[T]
    BY <1>1, <2>1
  <2>5. ASSUME NEW T \in Up(n + 1) PROVE jt[T] = Later(jt, T)
    BY <2>2, <2>4
  <2>6. jt \in [Up(n + 1) -> Int]
    BY <2>3
  <2>7. \E kt \in [Up(n + 1) -> Int] : \A T \in Up(n + 1) : kt[T] = Later(kt, T)
    <3> HIDE DEF jt, Later, Up
    <3> QED BY <2>5, <2>6
  <2> QED
    <3> HIDE DEF jt, Later, Up
    <3> QED BY <2>7
<1>5. N = Nat
  <2> HIDE DEF N
  <2>1. N \subseteq Nat
    BY DEF N
  <2> QED BY <1>3, <1>4, <2>1, SetInduction
<1>6. Cardinality(S) \in N
  BY <1>1, <1>5
<1>7. Up(Cardinality(S)) = SUBSET S
  BY <1>1
<1>8. PICK it \in [SUBSET S -> Int] : \A T \in SUBSET S : it[T] = Later(it, T)
  <2> HIDE DEF Later, Up
  <2>1. \E it \in [Up(Cardinality(S)) -> Int] : \A T \in Up(Cardinality(S)) : it[T] = Later(it, T)
    BY <1>6
  <2> QED BY <1>7, <2>1
<1> QED BY <1>8 DEF IsSum

LEMMA SumUnfolded ==
    ASSUME NEW S, IsFiniteSet(S), NEW f, \A x \in S : f[x] \in Int
    PROVE  \E it \in [SUBSET S -> Int] : IsSum(it, f, S) /\ Sum(f, S) = it[S]
<1> DEFINE iter == CHOOSE it : IsSum(it, f, S)
<1>1. PICK it \in [SUBSET S -> Int] : IsSum(it, f, S)
  BY SumExists
<1>2. IsSum(iter, f, S)
  BY <1>1
<1>3. Sum(f, S) = iter[S]
  BY Zenon DEF Sum, FoldFunctionOnSet, MapThenFoldSet, IsSum, Picked
<1>4. \A U \in SUBSET S : iter[U] = it[U]
  <2> HIDE DEF iter
  <2> QED BY <1>1, <1>2, SumsAgree
<1> QED BY <1>1, <1>3, <1>4

LEMMA SumEmpty == ASSUME NEW f PROVE Sum(f, {}) = 0
<1>1. PICK it \in [SUBSET {} -> Int] : IsSum(it, f, {}) /\ Sum(f, {}) = it[{}]
  BY SumUnfolded, FS_EmptySet
<1> QED BY <1>1 DEF IsSum

LEMMA SumTyped ==
    ASSUME NEW S, IsFiniteSet(S), NEW f, \A x \in S : f[x] \in Int
    PROVE  Sum(f, S) \in Int
<1>1. PICK it \in [SUBSET S -> Int] : Sum(f, S) = it[S]
  BY SumUnfolded
<1> QED BY <1>1

LEMMA SumOfSame ==
    ASSUME NEW S, IsFiniteSet(S), NEW f, NEW g, \A x \in S : f[x] \in Int /\ f[x] = g[x]
    PROVE  Sum(f, S) = Sum(g, S)
<1>1. PICK it : IsSum(it, f, S) /\ Sum(f, S) = it[S]
  BY SumUnfolded
<1>2. PICK jt : IsSum(jt, g, S) /\ Sum(g, S) = jt[S]
  BY SumUnfolded
<1>3. it[S] = jt[S]
  BY <1>1, <1>2, SumsAgree
<1> QED BY <1>1, <1>2, <1>3

LEMMA SumWithOneMore ==
    ASSUME NEW S, IsFiniteSet(S), NEW f, \A x \in S : f[x] \in Int, NEW x \in S
    PROVE  Sum(f, S) = Sum(f, S \ {x}) + f[x]
<1>1. PICK it \in [SUBSET S -> Int] : IsSum(it, f, S) /\ Sum(f, S) = it[S]
  BY SumUnfolded
<1> DEFINE F == {T \in SUBSET S : \A y \in T : it[T] = it[T \ {y}] + f[y]}
<1>2. ASSUME NEW T \in SUBSET S, \A y \in T : T \ {y} \in F PROVE T \in F
  <2>1. SUFFICES ASSUME NEW y \in T PROVE it[T] = it[T \ {y}] + f[y]
    OBVIOUS
  <2> DEFINE c == Picked(T)
  <2>2. c \in T /\ it[T] = f[c] + it[T \ {c}]
    BY <1>1, PickedIsIn DEF IsSum
  <2> HIDE DEF c
  <2>3. CASE c = y
    BY <1>1, <2>2, <2>3
  <2>4. CASE c # y
    <3>1. y \in T \ {c} /\ c \in T \ {y} /\ T \ {c} \in F /\ T \ {y} \in F
      BY <1>2, <2>2, <2>4
    <3>2. it[T \ {c}] = it[(T \ {c}) \ {y}] + f[y]
      BY <3>1
    <3>3. it[T \ {y}] = it[(T \ {y}) \ {c}] + f[c]
      BY <3>1
    <3>4. (T \ {c}) \ {y} = (T \ {y}) \ {c} /\ (T \ {c}) \ {y} \in SUBSET S
      OBVIOUS
    <3>5. it[(T \ {c}) \ {y}] \in Int /\ f[c] \in Int /\ f[y] \in Int
      BY <1>1, <2>2, <3>4
    <3>6. it[T] = f[c] + (it[(T \ {c}) \ {y}] + f[y]) /\ it[T \ {y}] = it[(T \ {c}) \ {y}] + f[c]
      BY <2>2, <3>2, <3>3, <3>4
    <3> QED BY <3>5, <3>6
  <2> QED BY <2>3, <2>4
<1>3. SUBSET S \subseteq F
  <2> HIDE DEF F
  <2>1. F \in SUBSET SUBSET S
    BY DEF F
  <2>2. \A T \in SUBSET S : (\A y \in T : T \ {y} \in F) => T \in F
    BY <1>2
  <2>3. \A G \in SUBSET SUBSET S :
          (\A T \in SUBSET S : (\A y \in T : T \ {y} \in G) => T \in G) => SUBSET S \subseteq G
    BY SizeInduction
  <2> QED BY <2>1, <2>2, <2>3, Zenon
<1>4. it[S] = it[S \ {x}] + f[x]
  BY <1>3
<1>5. PICK jt : IsSum(jt, f, S \ {x}) /\ Sum(f, S \ {x}) = jt[S \ {x}]
  <2>1. IsFiniteSet(S \ {x})
    BY FS_Subset
  <2> QED BY <2>1, SumUnfolded
<1>6. it[S \ {x}] = jt[S \ {x}]
  BY <1>1, <1>5, SumsAgree
<1> QED BY <1>1, <1>4, <1>5, <1>6

-----------------------------------------------------------------------------
(* What the run in progress has earned, and what a completed one was paid. *)

\* Whose submissions a run is made of, and the bonuses of their entries.
PositionsIn(authors, p) == {i \in DOMAIN authors : authors[i] = p}
Earned(authors, entries, p) ==
    Sum([i \in DOMAIN authors |-> entries[i].bonus], PositionsIn(authors, p))

\* The contribution rows are those of a run.
Tally(rows, authors, entries) ==
    \A p \in Players :
        /\ rows[p].count > 0 <=> PositionsIn(authors, p) # {}
        /\ rows[p].bonus = Earned(authors, entries, p)

Counted(r) == Tally(contributions[r], attempt[r].authors, round[r].entries)

\* What AwardsPayTheWinningRun says of one round, in these terms.
Paid(r) ==
    IF round[r].state = "completed"
    THEN /\ attempt[r].state = "completed"
         /\ Len(attempt[r].authors) = Len(round[r].entries)
         /\ \A p \in Players :
                /\ awards[r][p].participation > 0 <=> PositionsIn(attempt[r].authors, p) # {}
                /\ awards[r][p].bonus = Earned(attempt[r].authors, round[r].entries, p)
    ELSE \A p \in Players : awards[r][p] = NoAward

\* AwardsPayTheWinningRun is not inductive: what a completion pays is read
\* from the contribution rows, of which it says nothing.  While a run is in
\* progress they are its tally; those of a broken run are gone, and those of
\* a completed one do not matter any more.
AwardsInv == \A r \in Rounds : (attempt[r].state = "active" => Counted(r)) /\ Paid(r)

LEMMA EarnedNothing ==
    ASSUME NEW entries, NEW p
    PROVE  PositionsIn(<< >>, p) = {} /\ Earned(<< >>, entries, p) = 0
<1>1. PositionsIn(<< >>, p) = {}
  BY DEF PositionsIn
<1> QED BY <1>1, SumEmpty DEF Earned

\* One more submission adds its position and its bonus to its author's.
LEMMA EarnedWithOneMore ==
    ASSUME NEW authors \in Seq(Players), NEW entries,
           \A i \in 1 .. Len(authors) + 1 : entries[i].bonus \in Nat,
           NEW q \in Players, NEW p \in Players
    PROVE  LET more == Append(authors, q) IN
             /\ PositionsIn(more, p) # {} <=> p = q \/ PositionsIn(authors, p) # {}
             /\ Earned(more, entries, p) =
                  Earned(authors, entries, p)
                    + IF p = q THEN entries[Len(authors) + 1].bonus ELSE 0
             /\ Earned(authors, entries, p) \in Int
<1> DEFINE more == Append(authors, q)
           n == Len(authors)
           f == [i \in DOMAIN authors |-> entries[i].bonus]
           g == [i \in DOMAIN more |-> entries[i].bonus]
           P == PositionsIn(authors, p)
           Q == PositionsIn(more, p)
<1>1. /\ n \in Nat /\ DOMAIN authors = 1 .. n /\ DOMAIN more = 1 .. n + 1
      /\ \A i \in 1 .. n : more[i] = authors[i]
      /\ more[n + 1] = q
  OBVIOUS
<1>2. P \subseteq 1 .. n /\ Q \subseteq 1 .. n + 1 /\ n + 1 \notin P
      /\ Q = IF p = q THEN P \union {n + 1} ELSE P
  <2>1. \A i \in Q : i \in P \/ (i = n + 1 /\ p = q)
    BY <1>1 DEF PositionsIn
  <2>2. \A i \in P : i \in Q /\ i \in 1 .. n
    BY <1>1 DEF PositionsIn
  <2>3. n + 1 \in Q <=> p = q
    BY <1>1 DEF PositionsIn
  <2>4. Q \subseteq 1 .. n + 1
    BY <1>1 DEF PositionsIn
  <2>5. n + 1 \notin 1 .. n
    BY <1>1
  <2> HIDE DEF P, Q
  <2>6. P \subseteq 1 .. n /\ n + 1 \notin P
    BY <2>2, <2>5
  <2>7. CASE p = q
    <3>1. Q = P \union {n + 1}
      <4> HIDE <1>1
      <4> QED BY <2>1, <2>2, <2>3, <2>7, Zenon
    <3> QED BY <2>4, <2>6, <2>7, <3>1
  <2>8. CASE p # q
    <3>1. Q = P
      BY <2>1, <2>2, <2>8, Zenon
    <3> QED BY <2>4, <2>6, <2>8, <3>1
  <2> QED BY <2>7, <2>8
<1>3. \A i \in 1 .. n : f[i] = entries[i].bonus /\ g[i] = f[i] /\ f[i] \in Int
  BY <1>1
<1>4. g[n + 1] = entries[n + 1].bonus /\ g[n + 1] \in Int
  BY <1>1
<1>5. IsFiniteSet(P) /\ IsFiniteSet(Q)
  <2>1. IsFiniteSet(1 .. n) /\ IsFiniteSet(1 .. n + 1)
    BY <1>1, FS_Interval
  <2> QED BY <1>2, <2>1, FS_Subset
<1>6. Earned(authors, entries, p) = Sum(f, P) /\ Earned(more, entries, p) = Sum(g, Q)
  BY DEF Earned
<1> HIDE DEF f, g, P, Q, more
<1>7. Sum(f, P) \in Int
  BY <1>2, <1>3, <1>5, SumTyped
<1>8. Sum(f, P) = Sum(g, P)
  BY <1>2, <1>3, <1>5, SumOfSame
<1>9. CASE p = q
  <2>1. n + 1 \in Q /\ Q \ {n + 1} = P
    BY <1>2, <1>9
  <2>2. \A i \in Q : g[i] \in Int
    <3>1. \A i \in 1 .. n + 1 : i \in 1 .. n \/ i = n + 1
      BY <1>1
    <3> QED BY <1>2, <1>3, <1>4, <3>1
  <2>3. Sum(g, Q) = Sum(g, Q \ {n + 1}) + g[n + 1]
    BY <1>5, <2>1, <2>2, SumWithOneMore
  <2> QED BY <1>4, <1>6, <1>7, <1>8, <1>9, <2>1, <2>3 DEF P, Q, more
<1>10. CASE p # q
  BY <1>2, <1>6, <1>7, <1>8, <1>10 DEF P, Q, more
<1> QED BY <1>9, <1>10

LEMMA PaidIsTheProperty == AwardsInv => AwardsPayTheWinningRun
BY DEF AwardsInv, AwardsPayTheWinningRun, Paid, Positions, PositionsIn, BonusOf, Earned, Sum

LEMMA AwardsInit == Init => AwardsInv
BY DEF Init, AwardsInv, Paid

\* The rows after an accepted submission are the tally of the extended run.
LEMMA TallyExtended ==
    ASSUME CoreInv, AwardsInv, NEW r \in Rounds, NEW p \in Players, NEW parsed \in Inputs,
           Active(r), Decide(r, p, parsed).kind = "accepted"
    PROVE  Tally(ExtendedContributions(r, p, Decide(r, p, parsed).bonus),
                 Append(AcceptedAuthors(r), p), round[r].entries)
<1> DEFINE authors == AcceptedAuthors(r)
           entries == round[r].entries
           n == Len(authors)
           bonus == Decide(r, p, parsed).bonus
           before == IF attempt[r].state = "active"
                     THEN contributions[r]
                     ELSE [q \in Players |-> NoContribution]
           rows == ExtendedContributions(r, p, bonus)
<1>1. /\ authors \in Seq(Players) /\ n \in Nat /\ n + 1 \in 1 .. Len(entries)
      /\ bonus = entries[n + 1].bonus /\ bonus \in Nat
  BY AcceptedDecision
<1>2. \A i \in 1 .. n + 1 : entries[i].bonus \in Nat
  <2>1. /\ Len(entries) \in Nat /\ \A i \in 1 .. Len(entries) : entries[i].bonus \in Nat
    BY EntriesType DEF Active, ActiveStates
  <2> QED BY <1>1, <2>1
<1>3. before \in [Players -> [count : Nat, bonus : Nat]]
  BY DEF CoreInv, TypeOK, ContributionRows, NoContribution
<1>4. Tally(before, authors, entries)
  <2>1. CASE attempt[r].state = "active"
    BY <2>1 DEF AwardsInv, Counted, AcceptedAuthors
  <2>2. CASE attempt[r].state # "active"
    <3>1. authors = << >> /\ before = [q \in Players |-> NoContribution]
      BY <2>2 DEF AcceptedAuthors
    <3>2. \A q \in Players : before[q].count = 0 /\ before[q].bonus = 0
      BY <3>1 DEF NoContribution
    <3> HIDE DEF authors, before
    <3> QED BY <3>1, <3>2, EarnedNothing DEF Tally
  <2> QED BY <2>1, <2>2
<1>5. /\ rows[p] = [count |-> before[p].count + 1, bonus |-> before[p].bonus + bonus]
      /\ \A q \in Players : q # p => rows[q] = before[q]
  BY <1>3 DEF ExtendedContributions
<1> HIDE DEF authors, entries, n, bonus, before, rows
<1>6. ASSUME NEW q \in Players
      PROVE  /\ rows[q].count > 0 <=> PositionsIn(Append(authors, p), q) # {}
             /\ rows[q].bonus = Earned(Append(authors, p), entries, q)
  <2>1. /\ PositionsIn(Append(authors, p), q) # {} <=> q = p \/ PositionsIn(authors, q) # {}
        /\ Earned(Append(authors, p), entries, q) =
             Earned(authors, entries, q) + IF q = p THEN entries[n + 1].bonus ELSE 0
        /\ Earned(authors, entries, q) \in Int
    BY <1>1, <1>2, EarnedWithOneMore DEF n
  <2>2. /\ before[q].count > 0 <=> PositionsIn(authors, q) # {}
        /\ before[q].bonus = Earned(authors, entries, q)
        /\ before[q].count \in Nat
    BY <1>3, <1>4 DEF Tally
  <2>3. CASE q = p
    BY <1>1, <1>5, <2>1, <2>2, <2>3
  <2>4. CASE q # p
    BY <1>5, <2>1, <2>2, <2>4
  <2> QED BY <2>3, <2>4
<1> QED BY <1>6 DEF Tally, rows, authors, entries, bonus

\* completeRound pays what the rows say, and nobody else.
LEMMA TallyPaid ==
    ASSUME NEW rows \in ContributionRows, NEW authors, NEW entries,
           Tally(rows, authors, entries), NEW p \in Players
    PROVE  /\ CompletionAwards(rows)[p].participation > 0 <=> PositionsIn(authors, p) # {}
           /\ CompletionAwards(rows)[p].bonus = Earned(authors, entries, p)
<1> DEFINE contributors == {q \in Players : rows[q].count > 0}
           counts == [q \in contributors |-> rows[q].count]
<1>1. CompletionAwards(rows)[p] =
        IF p \in contributors
        THEN [participation |-> ParticipationAwards(counts)[p], bonus |-> rows[p].bonus]
        ELSE NoAward
  BY DEF CompletionAwards
<1>2. DOMAIN counts = contributors
  OBVIOUS
<1>3. p \in contributors <=> PositionsIn(authors, p) # {}
  BY DEF Tally
<1>4. rows[p].bonus = Earned(authors, entries, p)
  BY DEF Tally
<1> HIDE DEF contributors, counts
<1>5. CASE p \in contributors
  <2>1. ParticipationAwards(counts)[p] \in {2, 3, 4, 5}
    BY <1>2, <1>5, AwardType
  <2> QED BY <1>1, <1>3, <1>4, <1>5, <2>1
<1>6. CASE p \notin contributors
  <2>1. Earned(authors, entries, p) = 0
    BY <1>3, <1>6, SumEmpty DEF Earned
  <2> QED BY <1>1, <1>3, <1>6, <2>1 DEF NoAward
<1> QED BY <1>5, <1>6

\* The rounds a step does not touch: their authors, entries, awards and rows
\* stay, and completing is the only step into the completed state.
LEMMA AwardsKept ==
    ASSUME AwardsInv, NEW r \in Rounds,
           attempt'[r].authors = attempt[r].authors,
           round'[r].entries = round[r].entries,
           awards'[r] = awards[r],
           round'[r].state = "completed" <=> round[r].state = "completed",
           round[r].state = "completed" => attempt'[r].state = "completed",
           attempt'[r].state = "active" => attempt[r].state = "active"
                                           /\ contributions'[r] = contributions[r]
    PROVE  (attempt'[r].state = "active" => Counted(r)') /\ Paid(r)'
BY DEF AwardsInv, Paid, Counted, Tally

LEMMA AwardsAccept ==
    ASSUME CoreInv, AwardsInv, NEW r \in Rounds, NEW m \in Messages, NEW p \in Players,
           NEW parsed \in Inputs, AcceptSubmission(r, m, p, parsed)
    PROVE  AwardsInv'
<1> DEFINE bonus == Decide(r, p, parsed).bonus
<1>1. /\ Active(r) /\ Decide(r, p, parsed).kind = "accepted"
      /\ attempt' = [attempt EXCEPT ![r] = ExtendedAttempt(r, p)]
      /\ contributions' = [contributions EXCEPT ![r] = ExtendedContributions(r, p, bonus)]
      /\ round' = [round EXCEPT ![r].state = "counting", ![r].pausedFrom = "none"]
      /\ awards' = awards
  BY DEF AcceptSubmission
<1>2. Tally(ExtendedContributions(r, p, bonus), Append(AcceptedAuthors(r), p), round[r].entries)
  BY <1>1, TallyExtended
<1> HIDE DEF bonus
<1>3. /\ attempt'[r].authors = Append(AcceptedAuthors(r), p)
      /\ contributions'[r] = ExtendedContributions(r, p, bonus)
      /\ round'[r].entries = round[r].entries /\ round'[r].state = "counting"
      /\ \A s \in Rounds : s # r => /\ attempt'[s] = attempt[s] /\ round'[s] = round[s]
                                    /\ contributions'[s] = contributions[s]
  BY <1>1 DEF CoreInv, TypeOK, ExtendedAttempt, RoundRecord
<1>4. Counted(r)'
  BY <1>2, <1>3 DEF Counted, Tally
<1>5. Paid(r)'
  BY <1>1, <1>3 DEF Paid, AwardsInv, Active, ActiveStates
<1>6. ASSUME NEW s \in Rounds, s # r
      PROVE  (attempt'[s].state = "active" => Counted(s)') /\ Paid(s)'
  BY <1>1, <1>3, <1>6, AwardsKept DEF AwardsInv, Paid
<1> QED BY <1>4, <1>5, <1>6 DEF AwardsInv

LEMMA AwardsComplete ==
    ASSUME CoreInv, AwardsInv, NEW r \in Rounds, NEW m \in Messages, NEW p \in Players,
           NEW parsed \in Inputs, CompleteRound(r, m, p, parsed)
    PROVE  AwardsInv'
<1> DEFINE bonus == Decide(r, p, parsed).bonus
           rows == ExtendedContributions(r, p, bonus)
           authors == Append(AcceptedAuthors(r), p)
<1>1. /\ Active(r) /\ Decide(r, p, parsed).kind = "accepted" /\ Decide(r, p, parsed).completes
      /\ attempt' = [attempt EXCEPT ![r] = [ExtendedAttempt(r, p) EXCEPT !.state = "completed"]]
      /\ contributions' = [contributions EXCEPT ![r] = rows]
      /\ awards' = [awards EXCEPT ![r] = CompletionAwards(rows)]
      /\ round' = [round EXCEPT ![r].state = "completed", ![r].pausedFrom = "none"]
  BY DEF CompleteRound
<1>2. Tally(rows, authors, round[r].entries)
  BY <1>1, TallyExtended
<1>3. /\ AcceptedAuthors(r) \in Seq(Players)
      /\ bonus \in Nat
      /\ Len(AcceptedAuthors(r)) + 1 = Len(round[r].entries)
  BY <1>1, AcceptedDecision
<1>4. rows \in ContributionRows
  BY <1>3 DEF CoreInv, TypeOK, ContributionRows, ExtendedContributions, NoContribution
<1> HIDE DEF bonus, rows
<1>5. /\ attempt'[r].authors = authors /\ attempt'[r].state = "completed"
      /\ awards'[r] = CompletionAwards(rows)
      /\ round'[r].entries = round[r].entries /\ round'[r].state = "completed"
      /\ \A s \in Rounds : s # r => /\ attempt'[s] = attempt[s] /\ round'[s] = round[s]
                                    /\ contributions'[s] = contributions[s]
                                    /\ awards'[s] = awards[s]
  BY <1>1 DEF CoreInv, TypeOK, ExtendedAttempt, RoundRecord
<1>6. Len(authors) = Len(round[r].entries)
  BY <1>3
<1> HIDE DEF authors
<1>7. Paid(r)'
  BY <1>2, <1>4, <1>5, <1>6, TallyPaid DEF Paid
<1>8. ASSUME NEW s \in Rounds, s # r
      PROVE  (attempt'[s].state = "active" => Counted(s)') /\ Paid(s)'
  BY <1>5, <1>8, AwardsKept DEF AwardsInv, Paid
<1> QED BY <1>5, <1>7, <1>8 DEF AwardsInv

\* A run that ends without completing its round pays nothing, and a round
\* that is activated has no run.
LEMMA AwardsElsewhere ==
    ASSUME CoreInv, AwardsInv, NEW r \in Rounds, awards' = awards,
           \/ \E m \in Messages, p \in Players, parsed \in Inputs, defer \in BOOLEAN :
                BreakRun(r, m, p, parsed, defer)
           \/ CancelRound(r)
           \/ \E entries \in Compiled : ActivateRound(r, entries)
           \/ PauseRound(r) \/ ResumeRound(r) \/ ResolveWork(r)
    PROVE  AwardsInv'
<1>1. CASE \E m \in Messages, p \in Players, parsed \in Inputs, defer \in BOOLEAN :
                BreakRun(r, m, p, parsed, defer)
  <2>1. /\ Active(r)
        /\ attempt' = [attempt EXCEPT ![r].state = "broken"]
        /\ round' = [round EXCEPT ![r].state = "waiting_for_start", ![r].pausedFrom = "none"]
        /\ contributions' = [contributions EXCEPT ![r] = [q \in Players |-> NoContribution]]
    BY <1>1 DEF BreakRun
  <2>2. /\ attempt'[r].authors = attempt[r].authors /\ attempt'[r].state = "broken"
        /\ round'[r].entries = round[r].entries
        /\ round'[r].state = "waiting_for_start" /\ round[r].state # "completed"
    BY <2>1 DEF CoreInv, TypeOK, AttemptRecord, RoundRecord, Active, ActiveStates
  <2>3. \A s \in Rounds : s # r => attempt'[s] = attempt[s] /\ round'[s] = round[s]
                                   /\ contributions'[s] = contributions[s]
    BY <2>1 DEF CoreInv, TypeOK
  <2> QED BY <2>2, <2>3, AwardsKept DEF AwardsInv, Paid
<1>2. CASE CancelRound(r)
  <2>1. /\ attempt'[r].authors = attempt[r].authors /\ attempt'[r].state # "active"
        /\ round'[r].entries = round[r].entries
        /\ round'[r].state = "cancelled" /\ round[r].state # "completed"
    BY <1>2 DEF CancelRound, CoreInv, TypeOK, AttemptRecord, RoundRecord, Active, ActiveStates
  <2>2. \A s \in Rounds : s # r => attempt'[s] = attempt[s] /\ round'[s] = round[s]
                                   /\ contributions'[s] = contributions[s]
    BY <1>2 DEF CancelRound, CoreInv, TypeOK
  <2> QED BY <2>1, <2>2, AwardsKept DEF AwardsInv, Paid
<1>3. CASE \E entries \in Compiled : ActivateRound(r, entries)
  <2>1. /\ round[r].state = "absent" /\ round'[r].state = "waiting_for_start"
        /\ attempt' = attempt /\ contributions' = contributions
        /\ \A s \in Rounds : s # r => round'[s] = round[s]
    BY <1>3 DEF ActivateRound, CoreInv, TypeOK
  <2>2. attempt[r].state # "active"
    BY <2>1 DEF CoreInv, AttemptMatchesRound, Running
  <2>3. Paid(r)'
    BY <2>1 DEF AwardsInv, Paid
  <2>4. ASSUME NEW s \in Rounds, s # r
        PROVE  (attempt'[s].state = "active" => Counted(s)') /\ Paid(s)'
    BY <2>1, <2>4, AwardsKept DEF AwardsInv, Paid
  <2> QED BY <2>1, <2>2, <2>3, <2>4 DEF AwardsInv
<1>4. CASE PauseRound(r) \/ ResumeRound(r) \/ ResolveWork(r)
  <2>1. attempt' = attempt /\ contributions' = contributions
    BY <1>4 DEF PauseRound, ResumeRound, ResolveWork
  <2>2. \A s \in Rounds : round'[s].entries = round[s].entries
    <3>1. CASE PauseRound(r)
      BY <3>1 DEF PauseRound, CoreInv, TypeOK, RoundRecord
    <3>2. CASE ResumeRound(r)
      BY <3>2 DEF ResumeRound, CoreInv, TypeOK, RoundRecord
    <3>3. CASE ResolveWork(r)
      BY <3>3 DEF ResolveWork, CoreInv, TypeOK, RoundRecord
    <3> QED BY <1>4, <3>1, <3>2, <3>3
  <2>3. \A s \in Rounds : round'[s].state = "completed" <=> round[s].state = "completed"
    <3>1. CASE PauseRound(r)
      BY <3>1 DEF PauseRound, CoreInv, TypeOK, RoundRecord
    <3>2. CASE ResumeRound(r)
      BY <3>2 DEF ResumeRound, CoreInv, TypeOK, RoundRecord, PausedFromStates
    <3>3. CASE ResolveWork(r)
      BY <3>3 DEF ResolveWork, CoreInv, TypeOK, RoundRecord
    <3> QED BY <1>4, <3>1, <3>2, <3>3
  <2> QED BY <2>1, <2>2, <2>3, AwardsKept DEF AwardsInv, Paid
<1> QED BY <1>1, <1>2, <1>3, <1>4

LEMMA AwardsStep == CoreInv /\ AwardsInv /\ [Next]_vars => AwardsInv'
<1> SUFFICES ASSUME CoreInv, AwardsInv, [Next]_vars PROVE AwardsInv'
  OBVIOUS
<1>1. ASSUME UNCHANGED <<round, attempt, contributions, awards>>
      PROVE  AwardsInv'
  BY <1>1, AwardsKept DEF AwardsInv, Paid
<1>2. ASSUME NEW r \in Rounds, NEW m \in Messages, NEW p \in Players, NEW parsed \in Inputs,
             ProcessMessage(r, m, p, parsed)
      PROVE  AwardsInv'
  <2>1. CASE DeleteSubmission(r, m, p, parsed)
    BY <1>1, <2>1 DEF DeleteSubmission
  <2>2. CASE \E defer \in BOOLEAN : BreakRun(r, m, p, parsed, defer)
    <3>1. awards' = awards
      BY <2>2 DEF BreakRun
    <3> QED BY <2>2, <3>1, AwardsElsewhere
  <2> QED BY <1>2, <2>1, <2>2, AwardsAccept, AwardsComplete DEF ProcessMessage
<1>3. CASE \/ \E m, breaking \in Messages : InvalidateAfterReconnectBreak(m, breaking)
           \/ \E breaking \in Messages : EnsureReconnectReset(breaking)
  BY <1>1, <1>3 DEF InvalidateAfterReconnectBreak, EnsureReconnectReset
<1>4. CASE \E r \in Rounds, entries \in Compiled : ActivateRound(r, entries)
  <2>1. awards' = awards
    BY <1>4 DEF ActivateRound
  <2> QED BY <1>4, <2>1, AwardsElsewhere
<1>5. CASE \E r \in Rounds : PauseRound(r) \/ ResumeRound(r) \/ CancelRound(r)
  <2>1. awards' = awards
    BY <1>5 DEF PauseRound, ResumeRound, CancelRound
  <2> QED BY <1>5, <2>1, AwardsElsewhere
<1>6. CASE \/ \E r \in Rounds, p \in Players : BanPlayer(r, p) \/ UnbanPlayer(r, p)
           \/ ResetSeason
  BY <1>1, <1>6 DEF BanPlayer, UnbanPlayer, ResetSeason
<1>7. CASE \E r \in Rounds : ResolveWork(r)
  <2>1. awards' = awards
    BY <1>7 DEF ResolveWork
  <2> QED BY <1>7, <2>1, AwardsElsewhere
<1>8. CASE UNCHANGED vars
  BY <1>1, <1>8 DEF vars
<1> QED BY <1>2, <1>3, <1>4, <1>5, <1>6, <1>7, <1>8 DEF Next

\* Every completed round has paid its contributors, and them only, for the
\* entries they supplied to the run that completed it; no other round has
\* paid anything.
THEOREM WinningRunsArePaid == Spec => []AwardsPayTheWinningRun
<1> QED BY AwardsInit, AwardsStep, CoreInvariant, PaidIsTheProperty, PTL DEF Spec
=============================================================================
