SPECIFICATION FairSpec
CONSTANTS
    t1 = t1
    t2 = t2
    s1 = s1
    s2 = s2
    Threads = {t1, t2}
    Spans = {s1, s2}
    Central = Central
    Sizes <- MCSizes
    Alignment = 2
    MaxBytes = 8
    PageSize = 6
    SpanPages = 1
    MaxTrackers = 1
    Null = Null
    Junk = Junk
    None = None
INVARIANTS
    GivenToOne
    NothingLost
    TrackerExact
    BlockFits
PROPERTY
    LockIsReleased
