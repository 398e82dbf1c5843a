SPECIFICATION Spec
CONSTANTS
    MAXDACK = 2
INVARIANT
    SuppressedWhenHeard
CHECK_DEADLOCK FALSE
