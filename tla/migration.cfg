CONSTANTS
    n1 = n1
    n2 = n2
    p1 = p1
    p2 = p2
    p3 = p3
    None = None
    Gone = Gone
    Node = {n1, n2}
    PodName = {p1, p2, p3}
    ActionChoices = {"start", "stop"}
    NodeChoices = {n1, n2}
    NovncChoices = {FALSE}
    MayDelete = TRUE
    Lag = FALSE
    MaxRequests = 4
    MaxFaults = 1
SPECIFICATION Spec
INVARIANTS
    GoneMeansNoPods
    OneGuest
    NewestIsTarget
PROPERTIES
    StoppedMeansQuiet
SYMMETRY Symmetry
CHECK_DEADLOCK FALSE
