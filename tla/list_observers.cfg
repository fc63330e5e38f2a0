SPECIFICATION Spec
CONSTANTS
    RegId = {r1, r2, r3}
    MaxOthers = 1
    MaxCommands = 3
    MaxMessages = 2
    r1 = r1
    r2 = r2
    r3 = r3
SYMMETRY Symmetry
INVARIANTS
    CountsEveryone
    WantedIsSubscribed
    CalledOnce
PROPERTIES
    OnlyAttachedAreCalled
CHECK_DEADLOCK FALSE
