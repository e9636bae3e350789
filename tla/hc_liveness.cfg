CONSTANTS
    sh1 = sh1
    sh2 = sh2
    p1 = p1
    p2 = p2
    r1 = r1
    r2 = r2
    Shards = {sh1, sh2}
    Addrs = {p1, r1, r2, p2}
    Config <- TwoShards
    Sweeps = {w1}
    SuspectAfterMisses = 1
    DownAfterMisses = 2
    MissCap = 2
    PgPromote = TRUE
    QuorumGuard = TRUE
    MayCancel = FALSE
    LagValues = {0, 1}
    Flaky = {p2}
    Crashable = {p1, r1}
    Restartable = {}
    LossyLinks = {r2}
SPECIFICATION FairSpec
PROPERTIES
    FailoverHappens
