SPECIFICATION Spec
CONSTANTS
    Procs = {p1}
    MaxId = 5
    StoredBefore <- NewOrOld
    CanCrash = TRUE
    MaxTorn = 0
    MaxFailures = 1
    MaxPieces = 6
INVARIANTS AckedRowsStay RestartRestores
PROPERTIES IdsGrow ImplementsIdTable
