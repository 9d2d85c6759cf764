SPECIFICATION FairSpec
CONSTANTS
    Order = 3
    Keys <- FiveKeys
    Offsets = {o1}
    Nodes <- NineNodes
    Null = Null
    MaxFailures = 1
INVARIANTS TypeInv RelationshipHolds FreedOnce ValidateIsSound
PROPERTIES ChainKeepsRows CallsReturn
