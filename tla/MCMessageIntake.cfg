\* Gaps that overlap with each other and with start-up, failing reconciliations
\* and messages, a crash; the second message is a bot's.
SPECIFICATION FairSpec
CONSTANTS
    NumMessages = 3
    Eligible = {1, 3}
    MaxRounds = 2
    FailuresOverlap = FALSE
    MaxGaps = 2
    MaxReconcileFaults = 1
    MaxProcessFaults = 1
    MaxCrashes = 1
    MaxFaults = 3
CHECK_DEADLOCK FALSE
INVARIANTS
    TypeOK
    CheckpointCoversExamined
PROPERTIES
    JudgedInOrder
    InvalidatedUntilTheReset
    EveryMessageIsExamined
