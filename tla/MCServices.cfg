SPECIFICATION Spec
CONSTANTS
    MaxChanges = 3
    MaxRevision = 1
    Files = {"a", "b"}
    MaxQueue = 1
    MaxGeneration = 3
    Parent <- MCParent
    Directories = {"r", "d"}
    Matching = {"f"}
    Roots = {"r", "d"}
    MaxPending = 1
    MaxBatch = 1
    MaxStarts = 2
    Colors = {c1, c2}
    Others = {o1, bad}
    Valid = {o1}
    Profiles = {p1, p2}
    Entries <- MCEntries
    Folders = {"d"}
    Home = "d"
    MaxFavorites = 1
    MaxRecent = 2
    Patterns = {"", "x"}
    Widths = {100, 240}
    Height = 300
    Paper <- MCPaper
    Percents = {150}
    Steps <- MCSteps
    Bars = {"v", "h"}
    Limits = {2, 5}
    Turns <- MCTurns
    Duration = 2
    Tokens <- MCTokens
    Layouts = {"a", "b"}
    Length = 1
    Links <- MCLinks
    Source = "S"
    SourceNode = "s"
    Owned = {"a", "b"}
    Tab = "t"
    DepthLimit = 5
    Replies <- MCReplies
    Models <- MCModels
    CharWidth <- MCWidth
    DrawnDocuments <- MCDocuments
    LayoutRequests <- MCRequests
    Scales = {50, 133}
    Viewports = {100, 400}
INVARIANTS
    TypeOK
    PublishedAsReported
    LoadingIsAnswered
    SearchIsComplete
    KeptIsShown
    AlgorithmsAgree
PROPERTIES
    InputIsFollowed
    StopsReturn
CHECK_DEADLOCK FALSE
