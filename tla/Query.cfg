SPECIFICATION Spec
CONSTANTS
    Inserts <- MCInserts
    Selects <- MCSelects
    FilesBefore <- MCFilesBefore
    MaxId = 3
    IdText <- MCIdText
    MaxRows = 2
INVARIANTS RefusalsAreRight PathsAgree
PROPERTY ImplementsTable
