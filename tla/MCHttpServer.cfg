SPECIFICATION FairSpec
CONSTANTS
    Connections = {c1, c2}
    Sockets = {s1, s2, s3, s4}
    Addresses = 2
    OverlappingStart = FALSE
INVARIANTS RegisteredAreOpen AllOrNothing
PROPERTIES EveryLifecycle StopReturns SilentConnectionsClose
