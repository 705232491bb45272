CONSTANTS
    Boxes = {1, 2}
    Configs <- SmallConfigs
    Fallback <- Fallbacks
    None = None
    Starters = {s1, s2}
    Closers = {k1}
SPECIFICATION FairSpec
INVARIANTS
    DependenciesFirst
    InboundsServed
    NothingLeft
    StartVerdict
    StatusHonest
    OneInstance
PROPERTIES
    CallsReturn
