SPECIFICATION FairSpec
CONSTANTS
    c1 = c1
    c2 = c2
    k1 = k1
    k2 = k2
    Keys = {k1, k2}
    Conns = {c1, c2}
    MeshPackets = {m1, m2}
    AppPackets = {}
    KeyOf <- TwoKeys
    ReplayEnabled = TRUE
    ReplayLimit = 1
    SkipOwn = TRUE
    StoreOutgoing = TRUE
    MaxPending = 3
    Budget <- Steady
CHECK_DEADLOCK FALSE
INVARIANTS
    LimitKeepsNewest
PROPERTIES
    GetsThrough
    HandshakeEnds
