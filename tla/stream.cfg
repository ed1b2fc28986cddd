CONSTANTS
    r1 = r1
    r2 = r2
    c1 = c1
    c2 = c2
    Resource = {r1}
    Conn = {c1, c2}
    Periods = {0, 31}
    MaxChanges = 2
    MaxFaults = 1
SPECIFICATION FairSpec
INVARIANTS
    TypeOK
    NoPanic
PROPERTIES
    StreamsShowLatest
    HandlersEnd
