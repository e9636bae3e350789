CONSTANTS
    sh1 = sh1
    sh2 = sh2
    p1 = p1
    p2 = p2
    r1 = r1
    r2 = r2
    Shards = {sh1}
    Addrs = {p1, r1, r2}
    Config <- TwoReplicas
    Sweeps = {w1}
    SuspectAfterMisses = 1
    DownAfterMisses = 2
    MissCap = 2
    PgPromote = TRUE
    QuorumGuard = TRUE
    MayCancel = FALSE
    LagValues = {0, 1}
    Flaky = {p1, r1, r2}
    Crashable = {p1, r2}
    Restartable = {r2}
    LossyLinks = {}
SPECIFICATION Spec
INVARIANTS
    TypeOK
    DownConfirmed
    RoutedPrimaryWritable
    PartitionNeverPromotes
    PoolsFollowMap
    NoNodeTwice
PROPERTIES
    ImplementsTopology
    SilenceKeepsLag
