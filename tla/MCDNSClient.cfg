CONSTANTS
    Queries = {q1, q2}
    Questions = {a, b}
    Transports = {t1, t2}
    Filters = {f1, f2}
    Answers = {good, bad}
    Accepts <- TwoFilters
    Inputs <- FilteredServers
    Resolver <- T1ByName
    UncachedResolvers = {t1}
    ServerName <- NameIsB
    Deadlineless = {}
    IndependentCache = TRUE
    DisableExpire = FALSE
    StoreRDRC = TRUE
    MaxTTL = 2
    Lifetimes <- Unequal
    TTLModulus = 8
    RDRCTimeout = 0
    MaxTime = 2
    MaxSaving = 1
    Nobody = Nobody
    NoTransport = NoTransport
    NoFilter = NoFilter
    Nothing = Nothing
    a = a
    b = b
    t1 = t1
    t2 = t2
    f1 = f1
    f2 = f2
    good = good
    bad = bad
SYMMETRY QuerySymmetry
SPECIFICATION Spec
INVARIANTS
    FilterHonoured
    RejectionIsOwn

    
