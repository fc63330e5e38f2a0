SPECIFICATION ClientFairSpec
CONSTANTS
    InitNum = 1
    BuiltNums = {1}
    Rejected = {}
    MaxCommits = 2
    MaxFaults = 1
    MaxBuilt = 1
    EmptyCommits = FALSE
INVARIANTS
    PipelinesInOrder
    OwnReply
    EachOnceInOrder
    NoLostWakeup
    PromiseHasOwner
PROPERTIES
    CallsReturn
CHECK_DEADLOCK FALSE
