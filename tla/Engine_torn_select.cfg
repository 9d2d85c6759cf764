SPECIFICATION Spec
CONSTANTS
    Procs = {p1}
    MaxId = 30
    StoredBefore <- NewOnly
    CanCrash = FALSE
    MaxTorn = 1
    MaxFailures = 0
    MaxPieces = 5
INVARIANT IndexAgreesWithScan
