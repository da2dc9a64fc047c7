\* Both kinds of pool, with two tasks queued or in flight; a pool of the
\* bounded kind may be destroyed.
CONSTANTS
    w1 = w1
    w2 = w2
    w3 = w3
    s1 = s1
    s2 = s2
    Workers = {w1, w2, w3}
    Submitters = {s1, s2}
    Limit = 2
    Destroyed = {"bounded"}
    MaxTasks = 5
SPECIFICATION PoolFair
INVARIANTS PoolTypeOK TasksAccounted StoppedIsDrained DepthExact
PROPERTIES AcceptedRuns
CHECK_DEADLOCK FALSE
