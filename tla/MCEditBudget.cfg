SPECIFICATION EditSpec
CONSTANTS
    empty = empty
    short = short
    long = long
    file1 = file1
    Paths = {file1}
    Texts = {empty, short, long}
    EmptyText = empty
    Partial = Partial
    Absent = Absent
    NoIdentity = NoIdentity
    Untitled = Untitled
    Kind <- MCKind
    Weight <- MCWeight
    Budget = 4
    MaxRevision = 5
    MaxDocument = 2
PROPERTIES
    DropsOnlyOverBudget
CHECK_DEADLOCK FALSE
