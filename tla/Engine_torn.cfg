SPECIFICATION Spec
CONSTANTS
    Procs = {p1}
    MaxId = 30
    StoredBefore <- NewOnly
    CanCrash = TRUE
    MaxTorn = 2
    MaxFailures = 1
    MaxPieces = 5
INVARIANT OwnRowsReadable
