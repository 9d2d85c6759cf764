SPECIFICATION Spec
CONSTANTS
    Ids <- MCIds
    Values <- MCValues
    MaxId = 30
    MaxAppends = 3
INVARIANTS OffsetsLeadToRows TearsSpoilOneLine EngineReadsTheFile
CHECK_DEADLOCK FALSE
