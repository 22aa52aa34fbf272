SPECIFICATION FairSpec
CONSTANTS
    Kinds <- AllKinds
    MaxBlocks = 5
    MaxFaults = 2
    Worlds <- BothWorlds
    StartBlock = 1
    Confirmations = 1
    MaxSpan = 2
    None = None
INVARIANT ProjectionSound
PROPERTY CursorIsReplay
PROPERTY Converges
