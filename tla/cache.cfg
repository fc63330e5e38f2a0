SPECIFICATION Spec
CONSTANTS
    Client = {c1, c2}
    Id = {i1}
    Value = {v1, v2}
    None = None
    MaxAsked = 2
    MaxFaults = 1
    c1 = c1
    c2 = c2
    i1 = i1
    v1 = v1
    v2 = v2
SYMMETRY Symmetry
INVARIANTS
    DirtyIsListed
    NothingForgotten
CHECK_DEADLOCK FALSE
