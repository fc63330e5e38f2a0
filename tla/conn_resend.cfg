SPECIFICATION Spec
CONSTANTS
    InitNum = 2
    BuiltNums = {1, 2}
    Rejected = {}
    MaxCommits = 2
    MaxFaults = 3
INVARIANTS
    CallbacksInOrder
    NothingLost
    CommittingNumCovers
    OneTaskAtATime
CHECK_DEADLOCK FALSE
