\* Requests one at a time and never while a publication is due; a crash and a failing statement.
\* CHECK_DEADLOCK FALSE: the last save and the end of the clock are bounds; past them the instance stops.
SPECIFICATION FairSpec
CONSTANTS
    Kinds = {"publish_article"}
    NoKind = NoKind
    MaxRows = 3
    MaxAttempts = 4
    Publish = "publish_article"
    RetryDelay = 0
    StaleAfter = 0
    MaxTime = 3
    MaxFaults = 1
    MaxCrashes = 2
    Admins = {a1}
    Effects = {"newsletter"}
    Targets = {"publish", "draft", "trash"}
    Races = FALSE
    MaxSaves = 2
INVARIANTS
    ScheduledArticleHasJob
PROPERTIES
    ScheduledArticleIsPublished
CHECK_DEADLOCK FALSE
