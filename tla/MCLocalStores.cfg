SPECIFICATION Spec
CONSTANTS
    t1 = t1
    t2 = t2
    c1 = c1
    c2 = c2
    k1 = k1
    k2 = k2
    long = long
    NoTask = NoTask
    Tasks = {t1, t2}
    Backends = {"filetree", "disk", "rocksdb", "simple", "null", "keyring", "memcached"}
    Collections = {c1, c2}
    Slots <- MCSlots
    LongKeys = {long}
    Calls <- MCCalls
    Stores <- MCStores
    PageSize = 1
    MaxTime = 1
SYMMETRY MCSymmetry
CHECK_DEADLOCK FALSE
INVARIANTS
    AnswersTrue
    EffectsDone
    TornOnlyByRace
