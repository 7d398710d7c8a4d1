\* A rotation overtakes the reuse detection of its own family.
CONSTANTS
    u1 = u1
    p1 = p1
    p2 = p2
    p3 = p3
    x1 = x1
    x2 = x2
    x3 = x3
    Users = {u1}
    Pairs = {p1, p2, p3}
    UserOf <- OneUser
    Established = {p1}
    Txs = {x1, x2, x3}
    MayFail = FALSE
    NoTx = NoTx
    NoPair = NoPair
SPECIFICATION Spec
CHECK_DEADLOCK FALSE
SYMMETRY Symmetric
INVARIANTS
    ReuseEndsFamily
