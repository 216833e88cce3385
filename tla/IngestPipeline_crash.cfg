SPECIFICATION FairSpec
CONSTANTS
    Events = {a}
    Keys = {k1}
    Workers = {w1}
    Loops = {l1}
    Owner <- OneLoop
    Posters = {p1}
    Replayers = {r1}
    MaxRetryAttempts = 1
    MaxConcurrentJobs = 2
    NamedEvents = FALSE
    MaxRequests = 1
    MaxReplays = 0
    MaxStops = 0
    MaxCrashes = 1
    MaxFaults = 0
    MaxExpiries = 0
    w1 = w1
    w2 = w2
    l1 = l1
    l2 = l2
    Null = Null
CHECK_DEADLOCK FALSE
PROPERTIES
    Settles
