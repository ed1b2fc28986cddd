CONSTANTS
    n1 = n1
    n2 = n2
    p1 = p1
    p2 = p2
    p3 = p3
    None = None
    Gone = Gone
    Node = {n1, n2}
    PodName = {p1, p2, p3}
    ActionChoices = {"start"}
    NodeChoices = {n1, n2}
    NovncChoices = {FALSE}
    MayDelete = FALSE
    Lag = TRUE
    MaxRequests = 2
    MaxFaults = 0
SPECIFICATION Spec
PROPERTIES
    TargetCreatedOnce
SYMMETRY Symmetry
CHECK_DEADLOCK FALSE
