CONSTANTS
    n1 = n1
    n2 = n2
    d1 = d1
    d2 = d2
    s1 = s1
    s2 = s2
    s3 = s3
    None = None
    Partial = Partial
    Baseless = Baseless
    Upstream = Upstream
    Invalid = Invalid
    Node = {n1, n2}
    Docker = {d1, d2}
    Existing = {d2}
    Snapshot = {s1, s2, s3}
    FromVM = {TRUE, FALSE}
    Sources = {"longhorn"}
    ParentSize = 1
    Based = TRUE
    MinChoices = {1}
    InitNodes = {n1}
    Lag = FALSE
    MaxImages = 1
    MaxRequests = 1
    MaxFaults = 1
SPECIFICATION FairSpec
PROPERTIES
    ImageSettles
CHECK_DEADLOCK FALSE
