SPECIFICATION Spec
CONSTANTS
    c1 = c1
    c2 = c2
    k1 = k1
    k2 = k2
    Keys = {k1}
    Conns = {c1, c2}
    MeshPackets = {m1, m2}
    AppPackets = {}
    KeyOf <- OneKey
    ReplayEnabled = TRUE
    ReplayLimit = 3
    SkipOwn = TRUE
    StoreOutgoing = TRUE
    MaxPending = 3
    Budget <- MeshOnly
SYMMETRY SymSlots
CHECK_DEADLOCK FALSE
INVARIANTS
    NothingPassedOver
    LiveHasNoBacklog
    FirstSeenInOrder
    AtMostOneSecondCopy
PROPERTIES
    CursorOnlyForward
    QuietHandshake
    FlushSkipsOnlyCovered
    IsMailbox
