\* A member with one socket, a message, and every failure.
CONSTANTS
    w1 = w1
    u1 = u1
    u2 = u2
    g1 = g1
    m1 = m1
    s1 = s1
    Workers = {w1}
    Users = {u1, u2}
    Groups = {g1}
    Sockets = {s1}
    Home <- HomeOne
    Owner <- OwnerOne
    Messages = {m1}
    Sender <- SentByCreator
    Target <- TargetOne
    Creator <- CreatorOne
    MaxChanges = 2
    Faults = {"redis", "db", "crash", "pubsub"}
SPECIFICATION FanoutLiveSpec
CHECK_DEADLOCK FALSE
INVARIANTS
    MembersAreRouted
    OnlyMembersEver
    
PROPERTIES
    JoinReaches
