CONSTANTS
    c1 = c1
    w1 = w1
    w2 = w2
    s1 = s1
    Feeds = {"postgres"}
    Collections = {c1}
    Keys = {1, 2}
    Writers = {w1, w2}
    Subscribers = {s1}
    Retention = 3
    MaxRevision = 3
    Revisions <- MCRevisions
    Starts <- MCStarts
    Filters <- MCNoFilter
SPECIFICATION Spec
CHECK_DEADLOCK FALSE
INVARIANTS
    NothingSkipped
