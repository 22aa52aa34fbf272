SPECIFICATION FairSpec
CONSTANTS
    None = None
    t1 = t1  t2 = t2  
    alice = alice  bob = bob  d1 = d1  d2 = d2
    Tunnels = {t1, t2}
    Names = {alice, bob}
    Devs = {d1, d2}
    Keys <- WithBootstrap
    Docs <- AllDocs
    KeyDev <- MCKeyDev
    DirectKey <- MCDirectKey
    DocName <- MCDocName
    DocDev <- MCDocDev
    DocIat <- MCDocIat
    InDocs <- AllDocs
    InDevs <- D1
    Dials <- DialRivals
    ReportTrusts <- AnyTrust
    AgedChoices = {TRUE, FALSE}
    AnonymousAllow = TRUE
CHECK_DEADLOCK FALSE
INVARIANT MapConsistent
INVARIANT NegativeFence
INVARIANT ShutdownSafe
PROPERTY RegistrySpec
PROPERTY TasksEnd
