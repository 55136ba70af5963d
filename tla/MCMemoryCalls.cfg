\* Single-key, conditional and destroying calls that fail or are dropped, over a seed.
CONSTANTS
    c1 = c1
    c2 = c2
    t1 = t1
    t2 = t2
    t3 = t3
    s1 = s1
    Collections = {c1}
    Keys = {1}
    Subscribers = {}
    Retention = 3
    RingCapacity = 3
    MaxRevision = 12
    Tasks = {t1, t2}
    NoTask = NoTask
    NoLimit = NoLimit
    MaxEntries = 1
    Operations = {"get_with_revision", "put", "delete", "compare_and_swap", "compare_and_delete", "destroy", "destroy_collection"}
    MaxBatch = 1
    MaxCalls = 3
    MaxRivals = 1
    MaxTime = 1
    MayFail = TRUE
    MayCancel = TRUE
    Revisions <- MCRevisions
    Starts <- MCStarts
    Filters <- MCFilters
    Seed <- MCSeedOne
    Ttls <- MCAllTtls
SPECIFICATION FairSpec
INVARIANTS
    TypeOK
    ExclusiveWins
    SpentTokensGone
    AnnouncedUnlessDropped
PROPERTIES
    CallsReturn
CHECK_DEADLOCK FALSE
