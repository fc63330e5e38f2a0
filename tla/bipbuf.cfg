SPECIFICATION Spec
CONSTANTS
    Byte = {1, 2}
    Junk = 0
    InitCapacity = 2
    MaxCapacity = 4
INVARIANTS RegionsInBuffer MoveIsDisjoint
PROPERTIES IsByteQueue
