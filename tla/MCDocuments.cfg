SPECIFICATION MCSpec
CONSTANTS
    empty = empty
    words = words
    notes = notes
    plain = plain
    Paths = {notes, plain}
    Texts = {empty, words}
    EmptyText = empty
    Partial = Partial
    Absent = Absent
    NoIdentity = NoIdentity
    Untitled = Untitled
    Kind <- MCKind
    Weight <- MCWeight
    Budget = 4
    MaxVersion = 2
    MaxRevision = 2
    MaxDocument = 3
INVARIANTS
    TypeOK
    KeptWithItsDocument
    SaveWritesItsDocument
PROPERTIES
    NoSilentLoss
    OverwriteConfirmed
    TokenNamesOneSource
CHECK_DEADLOCK FALSE
