\* Two rounds, two gaps, and a reconciliation that fails (start-up's, with the process,
\* or a reconnect's).
SPECIFICATION Spec
CONSTANTS
    NumMessages = 3
    Eligible = {1, 2, 3}
    MaxRounds = 2
    FailuresOverlap = FALSE
    MaxGaps = 2
    MaxReconcileFaults = 1
    MaxProcessFaults = 0
    MaxCrashes = 0
    MaxFaults = 3
CHECK_DEADLOCK FALSE
INVARIANT EvaluationStopsForItsRound
