SPECIFICATION Spec
CONSTANTS
    InitNum = 1
    BuiltNums = {1, 2}
    Rejected = {}
    MaxCommits = 2
    MaxFaults = 1
INVARIANTS
    TailReplyDelivered
CHECK_DEADLOCK FALSE
