SPECIFICATION FairSpec
CONSTANTS
    Clients = {"c1", "c2"}
    Ids = {"a", "b", "d"}
    Binds = {"x", "y"}
    Dispatches <- DispatchD
    Files <- AllFiles
    Rules = {"r1"}
    Worlds <- FourWorlds
INVARIANT ReloadSound
INVARIANT NeverStranded
PROPERTY CommandsAnswered
CHECK_DEADLOCK FALSE
