SPECIFICATION FairSpec
CONSTANTS
    d1 = d1
    d2 = d2
    NULL = NULL
    Slots = {d1}
    Mounted = TRUE
    MaxCommits = 3
    MaxFaults = 0
PROPERTY ScansKeepComing
