\* One gap whose reconciliation fails.
SPECIFICATION Spec
CONSTANTS
    NumMessages = 3
    Eligible = {1, 2, 3}
    MaxRounds = 1
    FailuresOverlap = TRUE
    MaxGaps = 1
    MaxReconcileFaults = 1
    MaxProcessFaults = 0
    MaxCrashes = 0
    MaxFaults = 2
CHECK_DEADLOCK FALSE
INVARIANTS
    CheckpointCoversExamined
