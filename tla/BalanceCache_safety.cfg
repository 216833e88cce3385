SPECIFICATION Spec
CONSTANTS
    Calls = {c1, c2}
    EventTypes <- AllTypes
    Keys = {k1, k2}
    Subscribers = {cache, listener}
    Interested <- CacheAndListener
    Cache = cache
    listener = listener
    MaxRetryAttempts = 2
    DeduplicationTtl = 0
    AsyncProcessing = FALSE
    MaxSubscriptions = 1
    LastTick = 1
    Users = {u1}
    Models = {m1}
    MaxSize = 1
    Ttl = 0
    MaxUntold = 1
    MaxFailures = 1
    MaxRestarts = 1
    Null = Null
SYMMETRY Symmetry
CHECK_DEADLOCK FALSE
INVARIANTS
    TypeOK
    IInv
    DeliveredOncePerKey
    CacheBounded
    FreshUnlessDisturbed
