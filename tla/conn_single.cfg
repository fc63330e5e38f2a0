SPECIFICATION FairSpec
CONSTANTS
    InitNum = 1
    BuiltNums = {1}
    Rejected = {}
    MaxCommits = 3
    MaxFaults = 2
INVARIANTS
    TypeOK
    SomeTaskPending
    WireMatchesDeque
PROPERTIES
    KeepsPromise
    ResendsInOrder
CHECK_DEADLOCK FALSE
