--------------------------- MODULE MCCountingGame ---------------------------
(***************************************************************************)
(* An instance of CountingGame for TLC.  Rounds and messages are numbered, *)
(* and LowestIdFirst takes them in that order: the specification treats    *)
(* all ids alike, so this only removes renamings of the same behaviour.    *)
(*                                                                         *)
(* A behaviour is followed as long as it is one of two scenarios: one long *)
(* round with all the messages, broken again and again at every severity,  *)
(* or two short rounds with a few messages and every season there is.      *)
(***************************************************************************)
EXTENDS CountingGame, TLC

CONSTANTS p1, p2

\* Values are not their positions, and some entries carry a bonus.
LongRound == << [value |-> 3, bonus |-> 1], [value |-> 5, bonus |-> 0],
                [value |-> 6, bonus |-> 2], [value |-> 7, bonus |-> 0],
                [value |-> 9, bonus |-> 1] >>
PairRound == SubSeq(LongRound, 1, 2)
OneValueRound == SubSeq(LongRound, 1, 1)

AllRounds == {LongRound, PairRound, OneValueRound}

Number(n) == [kind |-> "safe_integer", value |-> n]
TooLarge == [kind |-> "out_of_range", value |-> 0]

AllInputs == {Number(n) : n \in {3, 5, 6, 7, 9}} \union {TooLarge}

TwoPlayers == {p1, p2}
Symmetry == Permutations(Players)

LowestIdFirst ==
    /\ \A m, n \in Messages : m < n /\ ~Fresh(n) => ~Fresh(m)
    /\ \A r, s \in Rounds :
            r < s /\ round[s].state # "absent" => round[r].state # "absent"

FewMessages == 1 .. 3

OneLongRound ==
    /\ season <= 1
    /\ \A r \in Rounds : round[r].state # "absent" => r = 1 /\ round[r].entries = LongRound

ShortRounds ==
    /\ \A r \in Rounds : round[r].entries # LongRound
    /\ \A m \in Messages : ~Fresh(m) => m \in FewMessages

Scenario == LowestIdFirst /\ (OneLongRound \/ ShortRounds)
=============================================================================
