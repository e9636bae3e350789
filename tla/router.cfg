CONSTANTS
    sh1 = sh1
    sh2 = sh2
    p1 = p1
    p2 = p2
    r1 = r1
    r2 = r2
    Shards = {sh1, sh2}
    Addrs = {p1, p2, r1, r2}
    VNodes = 1
    RingSize = 2
    Entries <- AllEntries
    MaxLags <- SomeMaxLags
SPECIFICATION Spec
INVARIANTS
    NeverMissing
    AnswerFitsRequest
