CONSTANTS
    Queries = {q1, q2}
    Questions = {a, b}
    Transports = {t1, t2}
    Filters = {f1, f2}
    Answers = {good}
    Accepts <- GoodOnly
    Inputs <- OwnNameAndOther
    Resolver <- T2Loops
    UncachedResolvers = {}
    ServerName <- NameIsB
    Deadlineless = {t2}
    IndependentCache = FALSE
    DisableExpire = FALSE
    StoreRDRC = FALSE
    MaxTTL = 1
    Lifetimes <- Alike
    TTLModulus = 8
    RDRCTimeout = 1
    MaxTime = 2
    MaxSaving = 1
    Nobody = Nobody
    NoTransport = NoTransport
    NoFilter = NoFilter
    Nothing = Nothing
    a = a
    b = b
    t1 = t1
    t2 = t2
    f1 = f1
    f2 = f2
    good = good
    bad = bad
SPECIFICATION FairSpec

    
PROPERTIES
    AllReturn
