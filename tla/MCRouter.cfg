CONSTANTS
    Conns = {c1, c2}
    Domains = {d1, d2}
    Addresses = {a1, a2, b1, f1, f2}
    Servers = {local, remote, fakeip}
    FakeServer = fakeip
    DefaultServer = remote
    Zone <- Zones
    FakeAddress <- Fakes
    Tags = {ads, geo}
    None = None
    Configs <- SmallConfigs
    Entries <- SmallEntries
    Source = client
    SourcePort = 1000
    Ports = {53, 443}
    Outbounds = {direct, proxy}
    Deadlineless = {remote}
    d1 = d1
    d2 = d2
    a1 = a1
    a2 = a2
    b1 = b1
    f1 = f1
    f2 = f2
    local = local
    remote = remote
    fakeip = fakeip
    client = client
    other = other
    ads = ads
    geo = geo
    direct = direct
    proxy = proxy
SPECIFICATION FairSpec
INVARIANTS
    MatchesAsDocumented
    DNSFirstRuleWins
    DialsOwnAddresses
    PreMatchAgrees
PROPERTIES
    Decided
