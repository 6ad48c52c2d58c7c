\* Two Configures in one launch, nothing fails but the candidate's bot.
SPECIFICATION Spec
CONSTANTS
    MaxApplications = 2
    MaxLaunches = 1
    MaxFaults = 0
CHECK_DEADLOCK FALSE
INVARIANT FailedCandidateIsRestored
