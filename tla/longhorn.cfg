CONSTANTS
    e1 = e1
    e2 = e2
    Endpoint = {e1, e2}
    Installed = {e1}
    None = None
    Unset = Unset
    GoodKey = GoodKey
    BadKey = BadKey
    Lag = TRUE
    MaxMachines = 2
    MaxPods = 2
    MaxRequests = 2
    MaxFaults = 1
SPECIFICATION FairSpec
INVARIANTS
    TypeOK
    GoneLeavesNoStorage
    OwnDisk
PROPERTIES
    ClientFollowsSettings
    StartedHasStorage
    DeletedIsGone
CHECK_DEADLOCK FALSE
