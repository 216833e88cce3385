SPECIFICATION FairSpec
CONSTANTS
    Ids = {i1, i2}
    Calls = {c1, c2, c3}
    MaxTime = 1
    Null = Null
CHECK_DEADLOCK FALSE
INVARIANTS
    TypeOK
PROPERTIES
    ImplementsLifecycle
    ActiveEnds
