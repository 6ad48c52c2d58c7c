\* Two applications, two launches, one failure: a set-up and a Configure, or two
\* Configures that may overlap, with Exit and the end of the launcher at any moment.
SPECIFICATION Spec
CONSTANTS
    MaxApplications = 2
    MaxLaunches = 2
    MaxFaults = 1
CHECK_DEADLOCK FALSE
INVARIANTS
    PriorIsKept
    
PROPERTIES
    FailureRestores
    EveryApplicationEnds
