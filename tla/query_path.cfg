CONSTANTS
    Addrs = {p1, r1}
    Pools = {k1, k2, k3}
    Clients = {c1}
    Probes = {h1}
    TheShard = sh1
    FirstPrimary = p1
    Levels = {"strong", "eventual", "bounded_staleness"}
SPECIFICATION PathSpec
INVARIANTS
    PathTypeOK
    NoPoolLeaks
    RegisteredPoolsWork
    MembersKeepTheirPool
    QueriesFollowFailover
PROPERTIES
    DrainCompletes
    CloseCompletes
    DeposedFallsSilent
