\* A Redis pool from one connection to one more than the nested gets can hold.
SPECIFICATION ConnSpec
CONSTANTS
    d1 = d1
    d2 = d2
    r1 = r1
    rt = rt
    lg = lg
    DbWorkers = {d1, d2}
    RedisWorkers = {r1}
    RetryThreads = {rt}
    LogThreads = {lg}
    RedisSizes = {1, 2, 3, 4, 5}
    DbSizes = {1}
SYMMETRY PoolSymmetry
INVARIANTS ConnTypeOK StandstillNeedsNesting
CHECK_DEADLOCK FALSE
