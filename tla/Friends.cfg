\* Two users who add each other while two tasks read their lists.
SPECIFICATION FriendsFair
CONSTANTS
    u1 = u1
    u2 = u2
    a1 = a1
    a2 = a2
    l1 = l1
    l2 = l2
    Users = {u1, u2}
    Adds = {a1, a2}
    Who <- MCWho
    Whom <- MCWhom
    Readers = {l1, l2}
    MaxFaults = 2
INVARIANTS StaleHasReason FriendsMutual
PROPERTIES CacheSettles
CHECK_DEADLOCK FALSE
