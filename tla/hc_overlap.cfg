CONSTANTS
    sh1 = sh1
    sh2 = sh2
    p1 = p1
    p2 = p2
    r1 = r1
    r2 = r2
    Shards = {sh1}
    Addrs = {p1, r1}
    Config <- OneReplica
    Sweeps = {w1, w2}
    SuspectAfterMisses = 1
    DownAfterMisses = 2
    MissCap = 2
    PgPromote = TRUE
    QuorumGuard = TRUE
    MayCancel = TRUE
    LagValues = {0}
    Flaky = {p1}
    Crashable = {p1}
    Restartable = {p1}
    LossyLinks = {}
SPECIFICATION FairSpec
INVARIANTS
    OneCheckPerShard
    OwnEntry
PROPERTIES
    ShutdownCompletes
    QuietAfterReturn
CHECK_DEADLOCK FALSE
