CONSTANTS
    sh1 = sh1
    sh2 = sh2
    p1 = p1
    p2 = p2
    r1 = r1
    r2 = r2
    Shards = {sh1}
    Addrs = {p1, r1, r2}
    Config <- TwoReplicas
    Sweeps = {w1}
    SuspectAfterMisses = 1
    DownAfterMisses = 1
    MissCap = 1
    PgPromote = TRUE
    QuorumGuard = TRUE
    MayCancel = FALSE
    LagValues = {0}
    Flaky = {r1}
    Crashable = {p1}
    Restartable = {}
    LossyLinks = {}
SPECIFICATION FairSpec
PROPERTIES
    GuardProtectsPrimary
