SPECIFICATION Spec
CONSTANTS
    good = good
    broken = broken
    notes = notes
    chart = chart
    wrap = wrap
    a4 = a4
    narrow = narrow
    Paths = {notes, chart}
    Texts = {good, broken}
    EmptyText = good
    Partial = Partial
    Absent = Absent
    NoIdentity = NoIdentity
    Untitled = Untitled
    Kind <- MCKind
    Sources <- MCSources
    Faulty <- MCFaulty
    None = None
    Profiles = {a4, narrow}
    Paged = {a4, narrow}
    Renders <- MCTall
    Widths = {1}
    Eager = FALSE
    MaxTicket = 1
    MaxRevision = 2
    MaxDocument = 2
    MaxGeneration = 3
PROPERTIES
    ProfileChangeRequestsLayout
CHECK_DEADLOCK FALSE
