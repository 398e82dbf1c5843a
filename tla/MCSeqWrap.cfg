SPECIFICATION Spec
CONSTANTS
    c1 = c1
    Consumers = {c1}
    WINDOW = 4
    BURST = 2
    HOLES_MAX = 2
    WINDOW_TX = 3
    PACE = 1
    MAXRETX = 2
    PTR_BYTES = 2
    U8 = 3
    U16 = 6
    LAG = 1
    MAXSEND = 8
    CHANMAX = 1
    StaleWindows <- MCStaleWindows
INVARIANT
    NoFreshDrop
