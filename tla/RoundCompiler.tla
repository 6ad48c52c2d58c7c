---------------------------- MODULE RoundCompiler ----------------------------
(***************************************************************************)
(* src/domain/round-compiler.ts and src/domain/predicates.ts: how a        *)
(* template becomes the entries a round counts through, or is rejected.    *)
(* Numbers are the safe integers; wording, names and announcements are     *)
(* left out, and a rejection has no text.  Rules keep their order; a bonus *)
(* rule is known by its index.                                             *)
(*                                                                         *)
(* A definition whose name ends in _ is a faulty variant of the one after  *)
(* it; see GameRules.                                                      *)
(***************************************************************************)
EXTENDS Integers, Sequences, SequencesExt, Filtering

CONSTANTS
    MaxIncluded,    \* MAX_INCLUDED_ENTRIES
    MaxCandidates   \* MAX_CANDIDATE_ENTRIES

ASSUME LimitsAssumption == {MaxIncluded, MaxCandidates} \subseteq Nat \ {0}

-----------------------------------------------------------------------------
\* predicates.ts

\* Odd factors up to the square root.
IsPrime(value) ==
    \/ value = 2
    \/ /\ value > 2 /\ value % 2 # 0
       /\ \A factor \in 3 .. value : factor % 2 # 0 /\ factor * factor <= value
            => value % factor # 0

MatchesPredicate(value, predicate) ==
    CASE predicate.kind = "prime" -> IsPrime(value)
      [] predicate.kind = "divisible_by" -> value % predicate.divisor = 0
      [] predicate.kind = "one_of" -> value \in predicate.values
      [] predicate.kind = "range" -> value \in predicate.minimum .. predicate.maximum

MatchesAny(value, rules) == \E i \in DOMAIN rules : MatchesPredicate(value, rules[i])

-----------------------------------------------------------------------------
\* round-compiler.ts

\* copyPredicate accepts the predicate.
ValidPredicate(predicate) ==
    CASE predicate.kind = "prime" -> TRUE
      [] predicate.kind = "divisible_by" -> predicate.divisor > 0
      [] predicate.kind = "one_of" -> predicate.values \subseteq Nat
      [] predicate.kind = "range" ->
           /\ {predicate.minimum, predicate.maximum} \subseteq Nat
           /\ predicate.minimum <= predicate.maximum

ValidRules(rules) == \A i \in DOMAIN rules : ValidPredicate(rules[i])

\* The checks on start, target and step.
ValidRange(input) ==
    /\ {input.start, input.target} \subseteq Nat
    /\ input.step > 0
    /\ input.target >= input.start
    /\ (input.target - input.start) % input.step = 0
    /\ (input.target - input.start) \div input.step + 1 <= MaxCandidates

\* The target must not be skipped, unless it is the start.
TargetIsKept(input) ==
    input.target # input.start => ~MatchesAny(input.target, input.skipRules)

Candidates(input) ==
    [n \in 1 .. (input.target - input.start) \div input.step + 1 |->
       input.start + (n - 1) * input.step]

\* The start is never skipped.
Included_(input, value) == ~MatchesAny(value, input.skipRules)
Included(input, value) ==
    value = input.start \/ ~MatchesAny(value, input.skipRules)

Values(input) ==
    LET candidates == Candidates(input) IN
      Filtered(candidates, {n \in DOMAIN candidates : Included(input, candidates[n])})

\* The bonus rules of a value, in their order.
BonusRules(input, value) ==
    InOrder({i \in DOMAIN input.bonusRules : MatchesPredicate(value, input.bonusRules[i])})

Entries(input) ==
    LET values == Values(input) IN
      [n \in DOMAIN values |->
         [position |-> n - 1, value |-> values[n],
          bonus |-> BonusRules(input, values[n])]]

\* compileRound returns, rather than throws.
Compiles(input) ==
    /\ ValidRange(input)
    /\ ValidRules(input.skipRules) /\ ValidRules(input.bonusRules)
    /\ TargetIsKept(input)
    /\ Len(Values(input)) <= MaxIncluded
=============================================================================
