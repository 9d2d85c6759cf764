SPECIFICATION Spec
CONSTANTS
    Order = 3
    Keys <- SixKeys
    Offsets = {o1, o2}
    Nodes <- ThirteenNodes
    Null = Null
    MaxFailures = 0
SYMMETRY OffsetSymmetry
INVARIANTS AlwaysValid NothingLeaks
PROPERTY ImplementsIndexMap
