SPECIFICATION FairSpec
CONSTANTS
    Mgrs = {m1, m2}
    NoMgr = NoMgr
    MaxCert = 5
    MaxOrders = 6
    Worlds <- FiveWorlds
    m1 = m1
    m2 = m2
INVARIANT CertsSound
PROPERTY KeepsServing
PROPERTY EventuallyServing
CHECK_DEADLOCK FALSE
