CONSTANTS
    n1 = n1
    n2 = n2
    p1 = p1
    p2 = p2
    None = None
    Gone = Gone
    Node = {n1, n2}
    PodName = {p1, p2}
    ActionChoices = {"start"}
    NodeChoices = {None, n2}
    NovncChoices = {TRUE}
    MayDelete = TRUE
    Lag = TRUE
    MaxRequests = 3
    MaxFaults = 0
SPECIFICATION Spec
INVARIANTS
    TypeOK
    IndInv
PROPERTIES
    UserSpecPreserved
SYMMETRY Symmetry
CHECK_DEADLOCK FALSE
