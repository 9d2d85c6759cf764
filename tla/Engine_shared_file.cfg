SPECIFICATION Spec
CONSTANTS
    Procs = {p1, p2}
    MaxId = 12
    StoredBefore <- NewOnly
    CanCrash = TRUE
    MaxTorn = 2
    MaxFailures = 0
    MaxPieces = 3
PROPERTY IndexEntriesStay
