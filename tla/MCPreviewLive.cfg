SPECIFICATION Spec
CONSTANTS
    good = good
    broken = broken
    notes = notes
    chart = chart
    wrap = wrap
    a4 = a4
    narrow = narrow
    Paths = {notes, chart}
    Texts = {good, broken}
    EmptyText = good
    Partial = Partial
    Absent = Absent
    NoIdentity = NoIdentity
    Untitled = Untitled
    Kind <- MCKind
    Sources <- MCSources
    Faulty <- MCFaulty
    None = None
    Profiles = {wrap, a4}
    Paged = {a4}
    Renders <- MCRenders
    Widths = {1, 2}
    Eager = TRUE
    MaxTicket = 2
    MaxRevision = 2
    MaxDocument = 2
    MaxGeneration = 2
PROPERTIES
    EventuallyShown
CHECK_DEADLOCK FALSE
