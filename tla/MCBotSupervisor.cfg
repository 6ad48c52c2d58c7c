\* A start and two clicks while the bot crashes as often as the budget has
\* restarts, and once more.
SPECIFICATION FairSpec
CONSTANTS
    NumCommands = 3
    MaxCrashes = 2
    NumRestarts = 1
    HealthLimit = 2
CHECK_DEADLOCK FALSE
INVARIANTS
    StoppedMeansNoBot
    NoOrphan
    RapidCrashesEnd
    OnlyARestartOutlivesExit
PROPERTIES
    EveryCommandEnds
