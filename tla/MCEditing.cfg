SPECIFICATION Spec
CONSTANTS
    empty = empty
    short = short
    long = long
    file1 = file1
    Paths = {file1}
    Texts = {empty, short, long}
    EmptyText = empty
    Partial = Partial
    Absent = Absent
    NoIdentity = NoIdentity
    Untitled = Untitled
    Kind <- MCKind
    Weight <- MCWeight
    Budget = 4
    MaxRevision = 7
    MaxDocument = 2
    Sources = {s1, s2, bad}
    Faulty = {bad}
    None = None
    MaxTicket = 4
INVARIANTS
    HistoryChains
    HistoryWithinBudget
    OnePlace
    ErrorsAreTheSources
PROPERTIES
    ImplementsLatestWins
    LatestIsAnswered
    StopTerminates
CHECK_DEADLOCK FALSE
