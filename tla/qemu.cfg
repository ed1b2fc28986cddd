CONSTANTS
    MayFill = TRUE
    MaxAttempts = 3
    MaxEvents = 2
    MaxFaults = 2
SPECIFICATION FairSpec
INVARIANTS
    TypeOK
PROPERTIES
    ImplementsContract
    JobEnds
CHECK_DEADLOCK FALSE
