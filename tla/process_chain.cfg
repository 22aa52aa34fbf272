SPECIFICATION Spec
CONSTANTS
    l1 = l1
    l2 = l2
    c1 = c1
    c2 = c2
    b1 = b1
    b2 = b2
    b3 = b3
    NoId = NoId
    LibOrder <- MCLibOrder
    ChainsOf <- MCChainsOf
    BlocksOf <- MCBlocksOf
    Programs <- FivePrograms
    MaxDepth = 6
    MaxGoto = 2
    MaxItems = 2
INVARIANT RunCoherent
PROPERTY ScopesKept
