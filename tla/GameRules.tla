----------------------------- MODULE GameRules -----------------------------
(***************************************************************************)
(* The pure domain rules of the counting game: how a numeric submission is *)
(* judged (src/domain/game-engine.ts) and how penalties and participation  *)
(* awards are computed (src/domain/scoring.ts).  Nothing here has state;   *)
(* CountingGame calls these operators from its actions, as GameService     *)
(* calls the functions.                                                    *)
(*                                                                         *)
(* A compiled round is the sequence of its included entries.  Of an entry  *)
(* the rules use its value and how many bonus rules it satisfies, so an    *)
(* entry is [value |-> n, bonus |-> k].  Positions in the code count from  *)
(* 0, TLA+ sequences from 1: entries[nextPosition] is                      *)
(* entries[nextPosition + 1] here.                                         *)
(*                                                                         *)
(* The code does its arithmetic in BigInt, so plain integers are exact.    *)
(*                                                                         *)
(* A definition whose name ends in _ is a faulty variant of the one after  *)
(* it, a mistake that code could contain.  Nothing here uses the variants: *)
(* putting one in the place of the original must break a property.         *)
(***************************************************************************)
EXTENDS Integers, Sequences, FiniteSets, Functions

\* PenaltySeverity of the code; a break never costs nothing.
Severities == {-2, -3, -4, -5}

\* PenaltyTotal of the code: 0 before a player's first break of the round.
PenaltyTotals == Severities \union {0}

\* The range check of penaltySeverity: outside it the function throws.
ValidProgress(accepted, required) == 0 < accepted /\ accepted <= required

PenaltySeverityExclusive_(accepted, required) ==
    CASE accepted * 4 < required -> -2
      [] accepted * 4 >= required /\ accepted * 2 < required -> -3
      [] accepted * 2 >= required /\ accepted * 4 < required * 3 -> -4
      [] OTHER -> -5

\* The price of a break after accepted of required entries.
PenaltySeverity(accepted, required) ==
    CASE accepted * 4 <= required -> -2
      [] accepted * 4 > required /\ accepted * 2 <= required -> -3
      [] accepted * 2 > required /\ accepted * 4 <= required * 3 -> -4
      [] OTHER -> -5

AdditionalPenaltyInFull_(previous, next) == IF next < previous THEN next ELSE 0

\* Only the worsening of a player's worst break of the round is charged.
AdditionalPenalty(previous, next) ==
    IF next < previous THEN next - previous ELSE 0

\* The sum the awards are measured against.
TotalCount(counts) == FoldFunction(+, 0, counts)

\* A contributor's count, to be compared with the mean, cross-multiplied.
Relative(counts, p) == counts[p] * Cardinality(DOMAIN counts)

AwardTierExclusive_(relative, total) ==
    CASE relative * 2 > total * 3 -> 5
      [] relative * 2 <= total * 3 /\ relative * 10 > total * 11 -> 4
      [] relative * 10 <= total * 11 /\ relative * 4 > total * 3 -> 3
      [] OTHER -> 2

\* The tier: 150%, 110% and 75% of the mean.
AwardTier(relative, total) ==
    CASE relative * 2 >= total * 3 -> 5
      [] relative * 2 < total * 3 /\ relative * 10 >= total * 11 -> 4
      [] relative * 10 < total * 11 /\ relative * 4 >= total * 3 -> 3
      [] OTHER -> 2

\* Awards for a completed attempt, from each contributor's accepted count.
ParticipationAwards(counts) ==
    [p \in DOMAIN counts |-> AwardTier(Relative(counts, p), TotalCount(counts))]

-----------------------------------------------------------------------------
(* Judging a submission.  A parsed message is a record [kind, value]; value *)
(* only matters for kind "safe_integer".  The engine state is the record   *)
(* [roundState, previous, acceptedCount, banned]; the code's nextPosition  *)
(* and acceptedCount are both the number of accepted submissions of the    *)
(* active attempt, and previous is NoPlayer when there is none.            *)

NoPlayer == "no player"

Conversation == [kind |-> "conversation", bonus |-> 0, completes |-> FALSE, severity |-> 0]
DeleteWithoutEffect == [Conversation EXCEPT !.kind = "delete_without_effect"]

Accepted(entry, completes) ==
    [kind |-> "accepted", bonus |-> entry.bonus, completes |-> completes, severity |-> 0]

Broken(accepted, required) ==
    [kind |-> "broken", bonus |-> 0, completes |-> FALSE,
     severity |-> PenaltySeverity(accepted, required)]

\* A round nobody has started: only the first entry's value opens a run.
EvaluateWhileWaiting(parsed, entries) ==
    IF parsed.kind = "safe_integer" /\ parsed.value = entries[1].value
    THEN Accepted(entries[1], Len(entries) = 1)
    ELSE DeleteWithoutEffect

EvaluateForAnyPlayer_(state, player, parsed, entries) ==
    LET expected == entries[state.acceptedCount + 1]
    IN  IF parsed.kind = "out_of_range" \/ parsed.value # expected.value
        THEN Broken(state.acceptedCount, Len(entries))
        ELSE Accepted(expected, state.acceptedCount = Len(entries) - 1)

\* A run in progress: a number is the next value from somebody else, or it
\* breaks the run, whichever of the three reasons applies first.
EvaluateWhileCounting(state, player, parsed, entries) ==
    LET expected == entries[state.acceptedCount + 1]
        outOfRange == parsed.kind = "out_of_range"
        samePlayer == state.previous = player
        unexpected == parsed.value # expected.value
    IN  IF outOfRange \/ samePlayer \/ unexpected
        THEN Broken(state.acceptedCount, Len(entries))
        ELSE Accepted(expected, state.acceptedCount = Len(entries) - 1)

EvaluateSubmission(state, player, parsed, entries) ==
    IF parsed.kind = "conversation" THEN Conversation
    ELSE IF state.roundState = "paused" \/ player \in state.banned
         THEN DeleteWithoutEffect
    ELSE IF state.roundState = "waiting_for_start"
         THEN EvaluateWhileWaiting(parsed, entries)
    ELSE EvaluateWhileCounting(state, player, parsed, entries)
=============================================================================
