CONSTANTS
    MaxReplicas = 3
    MaxLag = 2
    Shards = {}
    Addrs = {1, 2, 3}
    ReplicaLists <- AllLists
SPECIFICATION Spec
INVARIANTS
    LoopSelectsCandidate
CHECK_DEADLOCK FALSE
