SPECIFICATION Spec
CONSTANTS
    encA = encA
    encB = encB
    encC = encC
    t1 = t1
    t2 = t2
    Encodings = {encA, encB, encC}
    Buckets = {1, 2}
    BucketOf <- MCBucketOf
    Apps = {t1, t2}
    MAXALLOC = 3
    MAXINTEREST = 3
    MAXDATA = 2
INVARIANTS
    TypeOK
    OneEntryPerEncoding
    CleanupFreesOwn
    RearmedEntryLasts
PROPERTY
    EntriesExpire
CHECK_DEADLOCK FALSE
