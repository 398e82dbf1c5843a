SPECIFICATION Spec
CONSTANTS
    c1 = c1
    Consumers = {c1}
    WINDOW = 5
    BURST = 2
    HOLES_MAX = 2
    WINDOW_TX = 4
    PACE = 1
    MAXRETX = 2
    PTR_BYTES = 2
    U8 = 3
    U16 = 16
    LAG = 1
    MAXSEND = 7
    CHANMAX = 1
    StaleWindows <- MCStaleWindows
INVARIANTS
    TypeOK
    NoDuplicateDelivery
    NoFreshDrop
    DackEveryBurst
    AlphaDivisorNonzero
    RetxSlotFilled
PROPERTIES
    DackAsksForMissing
    ServiceSpec
