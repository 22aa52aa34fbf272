SPECIFICATION FairSpec
CONSTANTS
    Calls = {p1, p2}
    Zones = {z1}
    Nodes = {n1, n2}
    NoNode = NoNode
    NoCall = NoCall
    MaxGen = 3
    Worlds <- FiveWorlds
    p1 = p1
    p2 = p2
    n1 = n1
    n2 = n2
    z1 = z1
INVARIANT RelaySound
PROPERTY SerialOrder
PROPERTY EventuallyAssigned
CHECK_DEADLOCK FALSE
