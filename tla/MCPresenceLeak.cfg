\* Two sockets of one account on one worker, no faults.
CONSTANTS
    w1 = w1
    w2 = w2
    u1 = u1
    g1 = g1
    s1 = s1
    s2 = s2
    s3 = s3
    Workers = {w1, w2}
    Users = {u1}
    Groups = {g1}
    Sockets = {s1, s2, s3}
    Home <- HomeShared
    Owner <- OwnerShared
    Faults = {}
SPECIFICATION Spec
INVARIANTS
    PresenceReturnsToZero
