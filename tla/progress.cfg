CONSTANTS
    n1 = n1
    p1 = p1
    p2 = p2
    p3 = p3
    None = None
    Gone = Gone
    Node = {n1}
    PodName = {p1, p2, p3}
    ActionChoices = {"start", "stop"}
    NodeChoices = {None}
    NovncChoices = {TRUE}
    MayDelete = TRUE
    Lag = FALSE
    MaxRequests = 3
    MaxFaults = 1
SPECIFICATION FairSpec
INVARIANTS
    GoneMeansNoConsole
PROPERTIES
    TerminatingIsFinal
    StopCompletes
    DeleteCompletes
    StartCompletes
CHECK_DEADLOCK FALSE
