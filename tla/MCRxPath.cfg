SPECIFICATION Spec
CONSTANTS
    Skbs = {s1, s2, s3}
    Prealloc = {s1, s2}
    NR_RECVBUFF = 2
    MAXRX = 3
    MAXSTART = 2
INVARIANTS
    TypeOK
    SkbInOnePlace
    TaskletWillRun
    ReceivedInOrder
    RecvBufHasOneUser
    NeverDeaf
PROPERTIES
    AllHandled
CHECK_DEADLOCK FALSE
