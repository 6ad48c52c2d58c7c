\* One announcement, one lost answer, one refusal.
SPECIFICATION Spec
CONSTANTS
    NumOps = 1
    Creates = {1}
    RoundOps = {1}
    MaxAmbiguous = 1
    MaxDefinite = 1
    MaxLookupFaults = 0
    MaxWriteFaults = 0
    MaxCrashes = 0
CHECK_DEADLOCK FALSE
INVARIANTS
    NoBlindDuplicate
