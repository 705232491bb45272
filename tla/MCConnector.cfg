CONSTANTS
    a = a
    b = b
    r = r
    NoCall = NoCall
    Calls = {a, b, r}
    DialedFrom <- MCDialedFrom
SPECIFICATION FairSpec
INVARIANTS
    NoOrphanConnection
    CachedContextLive
    RecursiveGetRefused
PROPERTIES
    ImplementsSharedConnection
    GetReturns
