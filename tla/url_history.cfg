SPECIFICATION DriverSpec
CONSTANTS
    Urls = {u1, u2, u3}
    Redacted <- SharedKeys
    KeyOf <- OneTunnel
    Outcomes = {"Reachable", "Unreachable"}
    NoProber = {u3}
    Queries = {q1, q2}
    Probes = {p1, p2}
    Stacks = {s1, s2}
    Ttl <- ShortTtl
    MaxAges = {0}
    Limit = 1
    Permits = 1
    MaxMissed = 2
    Worlds <- SixWorlds
    u1 = u1
    u2 = u2
    u3 = u3
    k1 = k1
    q1 = q1
    q2 = q2
    p1 = p1
    p2 = p2
    s1 = s1
    s2 = s2
INVARIANT PinsSound
INVARIANT SingleFlight
PROPERTY EvictionFair
PROPERTY InFlightDrains
