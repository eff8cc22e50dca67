SPECIFICATION FairSpec
CONSTANTS
    d1 = d1
    d2 = d2
    NULL = NULL
    Slots = {d1, d2}
    Mounted = FALSE
    MaxCommits = 3
    MaxFaults = 2
INVARIANTS TypeOK ScanIsOfOneHead LeftUsable
PROPERTY ScansKeepComing
