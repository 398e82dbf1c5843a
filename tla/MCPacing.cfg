SPECIFICATION PacedSpec
CONSTANTS
    c1 = c1
    Consumers = {c1}
    WINDOW = 5
    BURST = 1
    HOLES_MAX = 2
    WINDOW_TX = 4
    PACE = 2
    MAXRETX = 1
    PTR_BYTES = 2
    U8 = 2
    U16 = 16
    LAG = 1
    MAXSEND = 6
    CHANMAX = 1
    StaleWindows <- OneStaleWindow
INVARIANT
    RetxPaced
