SPECIFICATION FairSpec
CONSTANTS
    h1 = h1
    h2 = h2
    p1 = p1
    p2 = p2
    Hosts = {h1, h2}
    Ports = {p1, p2}
    Own <- OwnMix
    Home <- EnvAddress
    Patches <- Bodies
    Requests = {"w1", "w2"}
    Apps = {"a1"}
    Budgets <- Mixes
CHECK_DEADLOCK FALSE
INVARIANTS
    NeverDialsItself
    ConnectedHasInterface
    RefreshDue
    LinkFollowsPrefs
PROPERTIES
    TargetReached
    ConfigCatchesUp
    StopEnds
