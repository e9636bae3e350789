CONSTANTS
    sh1 = sh1
    sh2 = sh2
    p1 = p1
    p2 = p2
    r1 = r1
    r2 = r2
    Shards = {sh1, sh2}
    Addrs = {p1, p2, r1, r2}
    Launches <- SomeLaunches
    Handlers = {h1, h2}
    Lags = {0, 1}
    MaxLags <- SomeMaxLags
    MaxEvents = 1
SPECIFICATION FairSpec
INVARIANTS
    TypeOK
    ConfigurationIsKept
    RouteTellsTheTruth
    NewestEventHolds
    PromotesLikeController
    CheckerCanRun
PROPERTIES
    RequestsAnswered
CHECK_DEADLOCK FALSE
