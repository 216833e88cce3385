SPECIFICATION FairSpec
CONSTANTS
    Users = {u1}
    Keys = {k1}
    Calls = {c1, c2}
    Amounts = {1, 2}
    InitialBalance = 1
    MaxRetryAttempts = 2
    LastDay = 2
    MaxCrashes = 1
    Null = Null
CHECK_DEADLOCK FALSE
PROPERTIES
    EveryCallReturns
