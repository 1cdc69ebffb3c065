SPECIFICATION Spec
CONSTANTS
    Bits <- MCBits
    OneSecToNano = 10
    OneDayToSec = 3
    PackShift <- MCShift
    EpochDay = 2
    MaxInstant = 50
    HashBytes <- MCHash
    RadixAbove = 2
    Rounds = 3
    Batches <- default_optimizer
    Rewrite <- apply_rule
    Jobs = {"numbers", "cast", "time", "like", "string", "expression", "predicate", "reference",
            "keys", "order", "tuple", "index", "join", "sort", "group", "plan", "statistics", "sketch", "cache"}
    None = None
    CacheKey = {"k1", "k2", "k3"}
    Value = {"v", "w"}
    Shard = {1}
    ShardOf <- MCShardOf
    Cap = 2
    Node = {1, 2, 3}
    MaxRefs = 1
    SketchKey = {"k1", "k2", "k3", "null"}
    NullKey = "null"
    Column = {0, 1}
    Offset <- MCColumns
    MaxAdded = 2
    NullCount = {0, 1, 3}
INVARIANTS
    EvictionKeepsReferences
    EstimatesCover
PROPERTIES
    ImplementsLru
    
    
    ExpressionsTyped
    RewritesKeepRows
    CodecKeepsRows
    IndexFindsRows
    
    
    GroupsRight
    PlansKeepResult
    StatisticsFit
