SPECIFICATION Spec
CONSTANTS
    Users = {u1}
    Keys = {k1}
    Calls = {c1, c2, c3}
    Amounts = {1, 2}
    InitialBalance = 1
    MaxRetryAttempts = 2
    LastDay = 2
    MaxCrashes = 0
    Null = Null
SYMMETRY Symmetry
CHECK_DEADLOCK FALSE
INVARIANTS
    TypeOK
    EntriesTellHistory
    LedgerExplainsWallet
    RepeatIsAnswered
PROPERTIES
    NegativeOnlyByCorrection
    ImplementsAtomicPoints
