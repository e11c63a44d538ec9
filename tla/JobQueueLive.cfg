\* Liveness of one process: due rows are taken.
\* CHECK_DEADLOCK FALSE: the last start, the last fault and the end of the clock are bounds; past them the instance stops.
SPECIFICATION FairSpec
CONSTANTS
    Kinds = {"crosspost", "retired"}
    NoKind = NoKind
    MaxRows = 2
    MaxAttempts = 2
    Procs = {p1}
    SingletonKinds = {}
    TxKinds = {"crosspost"}
    ArticleKinds = {}
    PageKinds = {}
    UnknownKinds = {"retired"}
    Delays = {0}
    Backoff <- MCBackoff
    BackoffLen = 2
    StaleAfter = 1
    Retention = 1
    MayOverlap = FALSE
    MaxTime = 2
    MaxFaults = 1
    MaxStarts = 2
PROPERTIES
    DueRowIsTaken
    DrainLeavesNothingDue
CHECK_DEADLOCK FALSE
