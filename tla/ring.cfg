CONSTANTS
    Shards = {A, B, C}
    VNodes = 2
    RingSize = 4
SPECIFICATION RingSpec
INVARIANTS
    TablesAgree
    ShardForIsOwner
PROPERTIES
    OnlyItsKeysMove
