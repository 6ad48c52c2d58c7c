\* An announcement, the deletion of an original, the last announcement of the
\* round: every kind of fault.
SPECIFICATION FairSpec
CONSTANTS
    NumOps = 3
    Creates = {1, 3}
    RoundOps = {1, 3}
    MaxAmbiguous = 2
    MaxDefinite = 1
    MaxLookupFaults = 1
    MaxWriteFaults = 1
    MaxCrashes = 1
CHECK_DEADLOCK FALSE
INVARIANTS
    DispatcherOwnsItsRow
    DuplicatesOnlyAfterForgetting
PROPERTIES
    ImplementsOrderedChannel
    EveryOperationIsHandled
