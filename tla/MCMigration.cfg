CONSTANTS
    c1 = c1
    c2 = c2
    k1 = k1
    k2 = k2
    Collections = {c1, c2}
    Keys = {k1, k2}
    Jobs <- MCJobs
    Used <- MCUsed
    PageLimit = 4
    BatchSize = 2
    TTLs <- MCTTLs
    MaxTime = 1
    MaxWrites = 2
    MaxRestarts = 1
SPECIFICATION FairSpec
CHECK_DEADLOCK FALSE
INVARIANTS
    TargetAgrees
    
    
PROPERTIES
    MoveKeepsEntries
    EventuallyArrives
