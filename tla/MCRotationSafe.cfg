\* Three requests of one account, which may fail or deadlock.
CONSTANTS
    u1 = u1
    p1 = p1
    p2 = p2
    p3 = p3
    x1 = x1
    x2 = x2
    x3 = x3
    Users = {u1}
    Pairs = {p1, p2, p3}
    UserOf <- OneUser
    Established = {p1}
    Txs = {x1, x2, x3}
    MayFail = TRUE
    NoTx = NoTx
    NoPair = NoPair
SPECIFICATION LiveSpec
CHECK_DEADLOCK FALSE
INVARIANTS
    FamilySingleLive
    LogoutSticks
    NobodyIsStuck
PROPERTIES
    ImplementsSessionFamily
    RequestsEnd
