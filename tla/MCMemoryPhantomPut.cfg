\* A put against destroy_collection.
CONSTANTS
    c1 = c1
    c2 = c2
    t1 = t1
    t2 = t2
    t3 = t3
    s1 = s1
    Collections = {c1}
    Keys = {1}
    Subscribers = {}
    Retention = 3
    RingCapacity = 3
    MaxRevision = 12
    Tasks = {t1, t2}
    NoTask = NoTask
    NoLimit = NoLimit
    MaxEntries = NoLimit
    Operations = {"put", "destroy_collection"}
    MaxBatch = 2
    MaxCalls = 2
    MaxRivals = 0
    MaxTime = 0
    MayFail = FALSE
    MayCancel = FALSE
    Revisions <- MCRevisions
    Starts <- MCStarts
    Filters <- MCFilters
    Seed <- MCSeedNothing
    Ttls <- MCNoTtl
SPECIFICATION Spec
SYMMETRY TaskSymmetry
INVARIANTS
    NoPhantomPut
CHECK_DEADLOCK FALSE
