SPECIFICATION FairSpec
CONSTANTS
    f1 = f1
    f2 = f2
    p1 = p1
    p2 = p2
    NULL = NULL
    Fingerprints = {f1, f2}
    Runners = {p1}
    Reports <- SomeReports
    PageSize = 2
    MaxNew = 1
    MaxUnlabelled = 1
    MaxForeign = 2
    MaxFaults = 2
INVARIANTS TypeOK FiledOnce FiledIsScanned
PROPERTY BacklogIsWorkedOff
