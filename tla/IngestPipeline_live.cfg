SPECIFICATION FairSpec
CONSTANTS
    Events = {a, b}
    Keys = {k1}
    Workers = {w1}
    Loops = {l1}
    Owner <- OneLoop
    Posters = {p1, p2}
    Replayers = {r1}
    MaxRetryAttempts = 2
    MaxConcurrentJobs = 2
    NamedEvents = TRUE
    MaxRequests = 2
    MaxReplays = 2
    MaxStops = 0
    MaxCrashes = 0
    MaxFaults = 0
    MaxExpiries = 0
    w1 = w1
    w2 = w2
    l1 = l1
    l2 = l2
    Null = Null
CHECK_DEADLOCK FALSE
INVARIANTS
    RetryBudget
    EventsPerKeyBounded
PROPERTIES
    Settles
    DoneSettles
