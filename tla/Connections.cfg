\* A reactor and a worker; events one at a time or all together, and a
\* worker that disconnects a slow connection.
SPECIFICATION Spec
CONSTANTS
    c1 = c1
    c2 = c2
    c3 = c3
    u1 = u1
    u2 = u2
    r1 = r1
    w1 = w1
    None = None
    Conns = {c1, c2, c3}
    Fds = {4, 5}
    Users = {u1, u2}
    Reactors = {r1}
    Workers = {w1}
    EventSets = {{"IN"}, {"OUT"}, {"IN", "OUT", "HUP"}}
SYMMETRY ConnSymmetry
INVARIANTS   OnlineIsOpen OpenIsMapped BoundIsReachable
CHECK_DEADLOCK FALSE
