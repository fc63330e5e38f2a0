SPECIFICATION Spec
CONSTANTS
    Client = {1, 2, 3}
    Id = {m, n}
    Value = {v1, v2}
    None = None
    Usages <- MCUsages
    MaxAsked = 2
    MaxFaults = 1
    m = m
    n = n
    v1 = v1
    v2 = v2
INVARIANTS
    DirtyIsListed
    CleanIsSaved
    HolderIsMarked
    TakenOnce
CHECK_DEADLOCK FALSE
