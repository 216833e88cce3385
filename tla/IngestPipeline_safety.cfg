SPECIFICATION Spec
CONSTANTS
    Events = {a}
    Keys = {k1}
    Workers = {w1, w2}
    Loops = {l1, l2}
    Owner <- TwoWorkers
    Posters = {p1}
    Replayers = {r1}
    MaxRetryAttempts = 2
    MaxConcurrentJobs = 2
    NamedEvents = FALSE
    MaxRequests = 1
    MaxReplays = 1
    MaxStops = 1
    MaxCrashes = 1
    MaxFaults = 1
    MaxExpiries = 1
    w1 = w1
    w2 = w2
    l1 = l1
    l2 = l2
    Null = Null
SYMMETRY Symmetry
CHECK_DEADLOCK FALSE
INVARIANTS
    TypeOK
    HandlingBound
    ProcessedWasHandled
    ParkedIsReplayable
    IInv
