SPECIFICATION Spec
CONSTANTS
    t1 = t1
    t2 = t2
    f1 = f1
    b1 = b1
    b2 = b2
    Threads = {t1, t2}
    Frames = {f1}
    Bufs = {b1, b2}
    TRIES = 2
    MAXSEND = 4
INVARIANTS
    TypeOK
    InOnePlace
    NoDanglingSctx
    WaiterLearnsFate
    AttribIsOwn
PROPERTY
    PoolsRefill
CHECK_DEADLOCK FALSE
