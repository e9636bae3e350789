CONSTANTS
    Addrs = {a1}
    Pools = {k1, k2}
    Clients = {c1}
    Probes = {h1}
SPECIFICATION Spec
INVARIANTS
    NothingOpenAfterClose
CHECK_DEADLOCK FALSE
