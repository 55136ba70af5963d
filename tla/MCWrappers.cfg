CONSTANTS
    t1 = t1
    t2 = t2
    k1 = k1
    k2 = k2
    Kinds <- MCKinds
    Prefix <- MCPrefix
    Collections <- MCCollections
    Keys <- MCKeys
    ForeignPlaces <- MCForeignPlaces
    TTLs <- MCTTLs
    MinTtl = 2
    MaxTtl = 5
    MissingTtl = 9
    Batches <- MCBatches
    MaxPuts = 2
    CacheTasks = {t1, t2}
    CacheKeys = {k1, k2}
    KeyLists <- MCKeyLists
    CacheTtls <- MCCacheTtls
    PutTtls <- MCPutTtls
    Duration = 1
    MaxCacheTime = 2
    MaxCachePuts = 2
    MaxCalls = 4
SPECIFICATION Spec
SYMMETRY MCSymmetry
CHECK_DEADLOCK FALSE
INVARIANTS
    UserSees
    StaleOnlyByRace
    FreshEnough
