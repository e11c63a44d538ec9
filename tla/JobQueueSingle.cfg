\* One process; crashes, shutdowns, restarts and a failing statement.
\* CHECK_DEADLOCK FALSE: the last start, the last fault and the end of the clock are bounds; past them the instance stops.
SPECIFICATION Spec
CONSTANTS
    Kinds = {"publish_article", "publish_page", "twitter_sync"}
    NoKind = NoKind
    MaxRows = 2
    MaxAttempts = 2
    Procs = {p1}
    SingletonKinds = {"twitter_sync"}
    TxKinds = {}
    ArticleKinds = {"publish_article"}
    PageKinds = {"publish_page"}
    UnknownKinds = {}
    Delays = {1}
    Backoff <- MCBackoff
    BackoffLen = 2
    StaleAfter = 1
    Retention = 1
    MayOverlap = FALSE
    MaxTime = 3
    MaxFaults = 1
    MaxStarts = 2
INVARIANTS
    TypeOK
    HeldRowsAreExclusive
    AttemptBudget
    SingletonIsSingle
PROPERTIES
    FollowsLifecycle
CHECK_DEADLOCK FALSE
