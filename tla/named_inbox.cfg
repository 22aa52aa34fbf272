SPECIFICATION FairSpec
CONSTANTS
    Requests = {1, 2, 3}
    NoRequest = 0
    Keys = {"k1", "k2"}
    Principals = {"p1", "p2"}
    EncodingOf <- Forms
    MaxEntries = 2
    Concurrency = 2
    MaxInstances = 2
    Worlds <- SixWorlds
INVARIANT CacheSound
PROPERTY SignatureKept
PROPERTY Drained
CHECK_DEADLOCK FALSE
