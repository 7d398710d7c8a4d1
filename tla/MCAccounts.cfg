\* One username, three accounts that may have it in turn, three calls.
CONSTANTS
    u1 = u1
    u2 = u2
    u3 = u3
    n1 = n1
    Users = {u1, u2, u3}
    Names = {n1}
    NameOf <- OneName
    Outdated = {u1}
    Txs = {x1, x2, x3}
    NoTx = NoTx
    NoUser = NoUser
SPECIFICATION LiveSpec
CHECK_DEADLOCK FALSE
INVARIANTS
    SessionsAreOwned
    UniqueNames
PROPERTIES
    RefusalsAreExplained
    CallsEnd
