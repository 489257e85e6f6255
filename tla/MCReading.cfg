SPECIFICATION Spec
CONSTANTS
    CharWidth <- MCWidth
    DrawnDocuments <- MCHeadings
    LayoutRequests <- MCRequests
    Scales = {133}
    Viewports = {400}
INVARIANTS
    HeadingsStay
CHECK_DEADLOCK FALSE
