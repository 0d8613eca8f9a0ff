SPECIFICATION Spec
CONSTANTS
    c1 = c1
    c2 = c2
    k1 = k1
    k2 = k2
    Keys = {k1, k2}
    Conns = {c1, c2}
    MeshPackets = {}
    AppPackets = {a1, a2}
    KeyOf <- TwoKeys
    ReplayEnabled = TRUE
    ReplayLimit = 3
    SkipOwn = TRUE
    StoreOutgoing = TRUE
    MaxPending = 3
    Budget <- Writers
SYMMETRY SymPairs
CHECK_DEADLOCK FALSE
INVARIANTS
    CursorWithinStore
    NoEcho
PROPERTIES
    NewRowsPastCursors
    CrashRepeatsOne
