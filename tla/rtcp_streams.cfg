SPECIFICATION FairSpec
CONSTANTS
    None = None
    open1 = open1  ropen1 = ropen1  ping1 = ping1
    x = x  y = y
    Requests <- AllRequests
    Opens = {open1}
    ROpens = {ropen1}
    Pings = {ping1}
    PingHome <- AcceptorPings
    Ids = {x, y}
    MaxIds = 1
    MaxBuilds = 1
    AgingEnds <- BothEnds
    ClosingEnds <- Acceptor
    Bootstrap = FALSE
    CallersDrop = TRUE
CONSTRAINT TwoEvents
CHECK_DEADLOCK FALSE
INVARIANT StreamsSound
INVARIANT KeyEpochBounded
INVARIANT ResourcesOwned
PROPERTY StreamsEnd
