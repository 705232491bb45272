CONSTANTS
    Workers = {w1, w2}
    Closers = {k1, k2}
    Conns = {c1, c2}
    NoConn = NoConn
    NumIds = 4
    MaxLifetime = 2
    UDPSize <- OneLarge
    InitialSize = 1
    w1 = w1
    w2 = w2
    c1 = c1
    c2 = c2
    k1 = k1
    k2 = k2
SPECIFICATION Spec
SYMMETRY ConnSymmetry
INVARIANTS
    UDPInv
    ExclusiveIds
    OwnAnswer
    CloseReleases
