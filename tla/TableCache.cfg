SPECIFICATION Spec
CONSTANTS
    Tables = {t1, t2, t3, t4, t5}
    RowsBefore = {0, 2}
    MaxRows = 2
    MaxFailures = 1
SYMMETRY TableSymmetry
INVARIANTS PointerIsFresh OneRuntimePerTable RuntimesMatchFiles FreedExactlyOnce
PROPERTY CachedRuntimesStay
