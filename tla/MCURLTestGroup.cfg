CONSTANTS
    Outbounds <- Pair
    Network <- TCPOnly
    RealTag <- MCRealTag
    Delays <- NearAndFar
    Word = 8
    Tolerance = 1
    Interval = 1
    IdleTimeout = 2
    InterruptExternal = FALSE
    Clients = {c1}
    Loops = {l1, l2}
    Outside = Outside
    Survivors = {y}
    None = None
    x = x
    y = y
    g = g
    c1 = c1
    l1 = l1
    l2 = l2
SPECIFICATION FairSpec
INVARIANTS
    GroupInv
    LoopInv
PROPERTIES
    SwitchImproves
    Failover
    IdleStops
