SPECIFICATION Spec
CONSTANTS
    Order = 4
    Keys <- TenKeys
    Offsets = {o1}
    Nodes <- NineNodes
    Null = Null
    MaxFailures = 0
INVARIANTS AlwaysValid WellFilled
