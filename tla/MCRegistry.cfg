\* One account with two sockets on one worker and one on another; every failure.
CONSTANTS
    w1 = w1
    w2 = w2
    u1 = u1
    g1 = g1
    s1 = s1
    s2 = s2
    s3 = s3
    Workers = {w1, w2}
    Users = {u1}
    Groups = {g1}
    Sockets = {s1, s2, s3}
    Home <- HomeShared
    Owner <- OwnerShared
    Faults = {"redis", "db", "crash"}
SPECIFICATION LiveSpec
CHECK_DEADLOCK FALSE
INVARIANTS
    RoutingIndexed
    RoutesHaveSockets
    ZeroHasCleaner
    NeverOvercounts
    OfflineWhenClosed
PROPERTIES
    CleanupFinishes
