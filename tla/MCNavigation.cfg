SPECIFICATION Spec
CONSTANTS
    Paths = {p, q}
    Untitled = u
    Sizes = {2}
    Layouts <- MCLayouts
    Heights = {1}
    TopAt <- MCTopAt
    LastHeight <- MCLastHeight
    MaxVisits = 2
    MaxDocument = 4
    MaxRevision = 1
    Clients = {w, c}
    Window = w
    MaxKeys = 2
    MaxReleases = 1
    MaxSequence = 2
    MaxDocuments = 3
    Projects = {a, b}
    MaxVersion = 1
    Absent = {}
    MaxRequest = 2
    MaxFailures = 1
    Sources = {"a", "b"}
    Main = "a"
    SduiEntries = {"x"}
    MaxWrites = 1
    MaxChildren = 1
SYMMETRY Symmetry
INVARIANTS
    TypeOK
    VisitIsShown
    AnchorsStayHome
    LeasesAccounted
    DeliveredInOrder
PROPERTIES
    ViewsAgree
    ToolsAnswerWhereAsked
CHECK_DEADLOCK FALSE
