SPECIFICATION Spec
CONSTANTS
    Accounts = {a1}
    Calls = {c1, c2}
    Keys = {k1}
    Amounts = {2000}
    WelcomeBonus = 1500
    ScoredAbove = 1000
    MaxUploads = 1
    MaxRows = 2
    MaxTime = 2
    MaxAwards = 2
    Null = Null
    WgsMedium = 1000
    WgsHigh = 1500
    WgsCritical = 2000
    ConfigKeys = {}
    NotSuperseded = Null
SYMMETRY Symmetry
CHECK_DEADLOCK FALSE
INVARIANTS
    TypeOK
    IInv
    SnapshotIsTotal
    UploadCounts
