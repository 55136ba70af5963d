\* One subscriber, every start and two filters; the feed outgrows both the retention
\* and the ring; a consumer that keeps calling recv passes every change.
CONSTANTS
    c1 = c1
    c2 = c2
    s1 = s1
    Collections = {c1, c2}
    Keys = {1}
    Subscribers = {s1}
    Retention = 2
    RingCapacity = 2
    MaxRevision = 4
    Revisions <- MCRevisions
    Starts <- MCStarts
    Filters <- MCFilters
SPECIFICATION FeedFairSpec
CHECK_DEADLOCK FALSE
INVARIANTS
    FeedTypeOK
    RetainedSuffix
    NoSilentGap
    RefusedOnlyIfGone
PROPERTIES
    DeliveredInOrder
    ImplementsChangeFeed
    EventuallyPassed
