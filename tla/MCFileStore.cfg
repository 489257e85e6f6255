SPECIFICATION StoreSpec
CONSTANTS
    Paths = {p1}
    Texts = {t1, t2}
    Partial = Partial
    Absent = Absent
    NoIdentity = NoIdentity
    MaxVersion = 4
INVARIANTS
    WholeFiles
    DurableSurvives
    NoTempLeft
    IdentityIsHonest
PROPERTIES
    OnlyExpectedReplaced
    ImplementsAtomicStore
CHECK_DEADLOCK FALSE
