CONSTANTS
    None = None
    m1 = m1
    m2 = m2
    a1 = a1
    a2 = a2
    br0 = br0
    eth0 = eth0
    Machine = {m1, m2}
    IP = {a1, a2}
    Device = {br0}
    Bridge = br0
    MaxLeases = 2
    MaxWrites = 1
SPECIFICATION FairSpec
INVARIANTS
    TypeOK
PROPERTIES
    OthersKept
    AddressIsFound
