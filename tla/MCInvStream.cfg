\* One worker, one token and its lookups; trimming, failures and restarts.
CONSTANTS
    w1 = w1
    u1 = u1
    t1 = t1
    Workers = {w1}
    Users = {u1}
    Tokens = {t1}
    UserOf <- OneToken
    Requests <- OneLookup
    CacheTTL = 1
    CacheSize = 5
    FetchTime = 1
    StreamMax = 1
    MaxEvents = 2
    StreamFaults = TRUE
SPECIFICATION InvLiveSpec
INVARIANTS
    InvalidationClears
    CursorSkipsNothing
PROPERTIES
    EventsConsumed
