SPECIFICATION Spec
CONSTANTS
    WINDOW = 6
    BURST = 3
    HOLES_MAX = 2
    MAXROUND = 4
    MAXDELAY = 10
    SHORTDELAY = 2
    U8 = 4
    Alphas <- MCAlphas
INVARIANT
    LeftEdgeLost
CHECK_DEADLOCK FALSE
