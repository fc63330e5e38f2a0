SPECIFICATION FairSpec
CONSTANTS
    InitNum = 1
    BuiltNums = {1}
    Rejected = {1}
    MaxCommits = 1
    MaxFaults = 0
PROPERTIES
    EveryCommitAnswered
CHECK_DEADLOCK FALSE
