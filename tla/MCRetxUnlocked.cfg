SPECIFICATION Spec
CONSTANTS
    WINDOW_TX = 2
    U16 = 5
    MAXSEND = 4
INVARIANT
    CopyUnderLock
CHECK_DEADLOCK FALSE
