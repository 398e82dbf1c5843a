SPECIFICATION Spec
CONSTANTS
    MAXDACK = 4
INVARIANTS
    TypeOK
    DackNeverStranded
    SkbConserved
PROPERTIES
    SentInOrder
    PendingDackLeaves
CHECK_DEADLOCK FALSE
