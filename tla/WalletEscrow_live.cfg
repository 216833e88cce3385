SPECIFICATION FairSpec
CONSTANTS
    Users = {u1}
    Models = {m1}
    EscrowIds = {e1}
    QueueItems = {q1}
    Keys = {k1, k2}
    Calls = {c1, c2, c3}
    Amounts = {1}
    InitialBalance = 2
    MaxAttempts = 2
    Tolerance = 0
    TrustedCallers = TRUE
    SharedKeys = FALSE
    MaxCrashes = 0
    MaxOthers = 1
    Null = Null
CHECK_DEADLOCK FALSE
PROPERTIES
    EveryCallReturns
    RefundReleasesItem
