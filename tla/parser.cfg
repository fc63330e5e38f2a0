SPECIFICATION Spec
CONSTANTS
    Byte <- MCByte
    Scripts <- MCScripts
    ReadSize = 4
    InitCapacity = 8
    MaxBreaks = 2
INVARIANTS RepliesFaithful NothingHeldBack OnlyGenuineErrors BufferStaysSmall
PROPERTIES ParserReturns
CHECK_DEADLOCK FALSE
