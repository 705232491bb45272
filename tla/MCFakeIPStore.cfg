CONSTANTS
    Clients = {c1, c2}
    Domains = {d1, d2, d3}
    Families = {"4", "6"}
    MaxAddress = 9
    Configs <- MovedAndTiny
    Storages = {TRUE, FALSE}
    None = None
    c1 = c1
    c2 = c2
    d1 = d1
    d2 = d2
    d3 = d3
SPECIFICATION Spec
SYMMETRY Symmetry
INVARIANTS
    MemoryAnswersInRange
    InverseMaps
    RoundRobin
