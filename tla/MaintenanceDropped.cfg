SPECIFICATION MSpec
CONSTANTS
    c1 = c1
    c2 = c2
    k1 = k1
    k2 = k2
    Keys = {k1}
    Conns = {c1, c2}
    MeshPackets = {m1}
    AppPackets = {}
    KeyOf <- OneKey
    ReplayEnabled = TRUE
    ReplayLimit = 3
    SkipOwn = TRUE
    StoreOutgoing = TRUE
    MaxPending = 3
    Budget <- Wiped
    MaxClears = 1
    MaxResets = 0
SYMMETRY Sym
CHECK_DEADLOCK FALSE
PROPERTIES
    DroppedMoveNoCursor
