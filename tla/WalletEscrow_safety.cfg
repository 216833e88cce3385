SPECIFICATION Spec
CONSTANTS
    Users = {u1}
    Models = {m1}
    EscrowIds = {e1, e2}
    QueueItems = {q1, q2}
    Keys = {k1, k2}
    Calls = {c1, c2, c3}
    Amounts = {1, 2}
    InitialBalance = 1
    MaxAttempts = 2
    Tolerance = 0
    TrustedCallers = TRUE
    SharedKeys = TRUE
    MaxCrashes = 1
    MaxOthers = 1
    Null = Null
SYMMETRY Symmetry
CHECK_DEADLOCK FALSE
INVARIANTS
    TypeOK
    
    EscrowLockExclusive
    OneEffectPerKey
    AvailableExplained
    EscrowBacked
    PointsConserved
PROPERTIES
    HoldSpendsCurrentPoints
    ProcessedIsFinal
    ImplementsAtomicEscrow
