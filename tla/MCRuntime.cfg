\* A shutdown at any time, during start-up too.
SPECIFICATION FairSpec
CONSTANTS
    Channels = {c1, c2}
    MaxJobs = 2
    MaxRequests = 1
CHECK_DEADLOCK FALSE
INVARIANTS
    TypeOK
    OneDispatchAtATime
    QuietWhenClosed
PROPERTIES
    WakeIsServed
    ShutdownEnds
