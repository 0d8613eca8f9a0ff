SPECIFICATION MSpec
CONSTANTS
    c1 = c1
    c2 = c2
    k1 = k1
    k2 = k2
    Keys = {k1}
    Conns = {c1}
    MeshPackets = {m1}
    AppPackets = {a1}
    KeyOf <- Single
    ReplayEnabled = TRUE
    ReplayLimit = 3
    SkipOwn = TRUE
    StoreOutgoing = TRUE
    MaxPending = 3
    Budget <- Rewound
    MaxClears = 1
    MaxResets = 1
SYMMETRY Sym
CHECK_DEADLOCK FALSE
PROPERTIES
    ClearedRowsStayGone
    OnlyMaintenanceRewinds
    ResetHoldsWhileAway
