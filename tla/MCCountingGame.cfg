\* One long round with up to seven messages, or two short ones with three and
\* three seasons.
SPECIFICATION Spec
CONSTANTS
    p1 = p1
    p2 = p2
    Players <- TwoPlayers
    Messages = {1, 2, 3, 4, 5, 6, 7}
    Rounds = {1, 2}
    Compiled <- AllRounds
    Inputs <- AllInputs
    MaxSeasons = 3
SYMMETRY Symmetry
CONSTRAINT Scenario
CHECK_DEADLOCK FALSE
INVARIANTS
    TypeOK
    AttemptMatchesRound
    NobodyCountsTwiceInARow
    PenaltyTotalIsWorst
    NoSourceKeyCollision
    AwardsPayTheWinningRun
    RoundsDoNotOverlap
    NothingLeftMeansSettled
PROPERTIES
    ClosedSeasonIsFrozen
    TerminalRoundIsFinal
