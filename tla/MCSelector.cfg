CONSTANTS
    Conns = {c}
    Kinds <- AnyKind
    Outbounds = {x, y}
    Removed = Removed
    Default = x
    InterruptExternal = TRUE
    Users = {u1, u2}
    None = None
    c = c
    x = x
    y = y
    u1 = u1
    u2 = u2
SPECIFICATION FairSpec
INVARIANTS
    SelectorInv
    CloseOnce
    SwitchReaches
    Persisted
PROPERTIES
    Released
