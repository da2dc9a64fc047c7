\* Two messages fetched one at a time, with Redis commands that fail.
CONSTANTS
    m1 = m1
    m2 = m2
    s1 = s1
    Msgs = {m1, m2}
    Sessions = {s1}
    Retry = Retry
    Batch = 1
    MaxAttempts = 1
    Faults = TRUE
    None = None
SPECIFICATION Spec
SYMMETRY Symmetry
INVARIANTS TypeOK 
CHECK_DEADLOCK FALSE
