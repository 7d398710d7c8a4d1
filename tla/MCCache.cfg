\* A cache for one entry; two tokens of one account and three lookups.
CONSTANTS
    w1 = w1
    u1 = u1
    t1 = t1
    t2 = t2
    Workers = {w1}
    Users = {u1}
    Tokens = {t1, t2}
    UserOf <- OneUser
    Requests <- RequestsMixed
    CacheTTL = 2
    CacheSize = 1
    FetchTime = 1
SPECIFICATION CacheLiveSpec
INVARIANTS
    TokenStaleBound
    AccountStaleBound
PROPERTIES
    LateFillBound
    RevokedEventuallyRefused
