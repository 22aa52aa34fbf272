SPECIFICATION FairSpec
CONSTANTS
    Requests = {r1, r2}
    Payloads = {p1}
    MaxFaults = 4
    Worlds <- ThreeWorlds
INVARIANT WritesSafe
PROPERTY FinalIsFinal
PROPERTY ReplayConverges
