SPECIFICATION FairSpec
CONSTANTS
    Users = {"u1", "u2"}
    Domains = {"d1", "d2"}
    Names = {"n1", "n2", "n3", "hidden", "control"}
    Types = {"A", "TXT"}
    Values = {"v1", "v2"}
    Ttls = {1, 2}
    Replicas = {"r1", "r2"}
    Tasks = {"k1", "k2"}
    NoUser = "nobody"
    NoDomain = "unbound"
    NoName = "no name"
    NoType = "no type"
    NoValue = "no value"
    NoTask = "free"
    Covers <- InDomains
    Bridge <- InBridge
    Hidden = {"hidden", "control"}
    Control = {"control"}
    OnChain = {}
    Retention = 2
    PageLimit = 1
    Worlds <- TenWorlds
INVARIANT RecordsSound
INVARIANT CachesCovered
PROPERTY FeedComplete
PROPERTY EventuallyFresh
CHECK_DEADLOCK FALSE
