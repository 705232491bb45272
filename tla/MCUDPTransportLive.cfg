CONSTANTS
    Workers = {w1, w2}
    Closers = {k1}
    Conns = {c1}
    NoConn = NoConn
    NumIds = 1
    MaxLifetime = 0
    UDPSize <- AllSmall
    InitialSize = 1
    w1 = w1
    w2 = w2
    c1 = c1
    c2 = c2
    k1 = k1
    k2 = k2
SPECIFICATION FairSpec
PROPERTIES
    CloseDrains
