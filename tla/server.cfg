CONSTANTS
    None = None
    c1 = c1
    c2 = c2
    Existing = {0, 2}
    Asked = {0, 1}
    Conn = {c1, c2}
    Patient = {c1}
    Kinds = {"create", "update", "delete", "action", "actions", "read",
             "set", "add", "remove"}
    ActionChoices = {"start", "stop"}
    CpuChoices = {1, 2}
    ImageChoices = {1, 2}
    MaxName = 2
    Lag = TRUE
    MaxRequests = 2
    MaxWrites = 1
    MaxFaults = 1
SPECIFICATION FairSpec
INVARIANTS
    TypeOK
PROPERTIES
    AnswersAreTrue
    OnlyAsked
    RetrySucceeds
CHECK_DEADLOCK FALSE
