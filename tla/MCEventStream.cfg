CONSTANTS
    Fds = {f}
    Cells = {a, b}
    QueueDepth = 2
    PendingDepth = 2
    MaxSeq = 2
    PersistedMap = TRUE
    None = None
SPECIFICATION Spec
CHECK_DEADLOCK FALSE
INVARIANTS
    LinesWholeInOrder
    BrowserShowsLevel1
PROPERTIES
    EventuallyPublished
