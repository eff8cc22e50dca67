SPECIFICATION FairSpec
CONSTANTS
    MaxVersions = 3
    MaxEffects = 3
    MaxRequests = 3
    MaxFailures = 2
INVARIANTS TypeOK DisposedIsSilent
PROPERTIES RowsNeverGoBack ChangesAreShown
