SPECIFICATION Spec
CONSTANTS
    WINDOW_TX = 2
    U16 = 5
    MAXSEND = 6
INVARIANTS
    TypeOK
    
    NothingLeftBehind
    CopyIntact
CHECK_DEADLOCK FALSE
