SPECIFICATION Spec
CONSTANTS
    me = me
    n1 = n1
    n2 = n2
    s1 = s1
    s2 = s2
    Me = me
    Nodes = {me, n1, n2}
    Setters = {s1, s2}
    MaxWire = 2
    Mixes <- Some
SYMMETRY Sym
CHECK_DEADLOCK FALSE
INVARIANTS
    StarsAgree
    CacheFollows
    HandshakeWhole
    ListComplete
