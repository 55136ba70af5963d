\* Unconditional writes, reads and cull under a limit: the feed mirrors the maps.  (put and
\* delete take the steps of put_many and delete_many with one key.)
CONSTANTS
    c1 = c1
    c2 = c2
    t1 = t1
    t2 = t2
    t3 = t3
    s1 = s1
    Collections = {c1}
    Keys = {1, 2}
    Subscribers = {s1}
    Retention = 3
    RingCapacity = 3
    MaxRevision = 12
    Tasks = {t1, t2}
    NoTask = NoTask
    NoLimit = NoLimit
    MaxEntries = 1
    Operations = {"get", "ttl", "get_many", "ttl_many", "keys", "put_many", "delete_many", "collections", "cull"}
    MaxBatch = 2
    MaxCalls = 2
    MaxRivals = 0
    MaxTime = 1
    MayFail = FALSE
    MayCancel = FALSE
    Revisions <- MCRevisions
    Starts <- MCBeginning
    Filters <- MCFilters
    Seed <- MCSeedNothing
    Ttls <- MCTtls
SPECIFICATION Spec
SYMMETRY TaskSymmetry
INVARIANTS
    MirrorExact
    CapacityRespected
CHECK_DEADLOCK FALSE
