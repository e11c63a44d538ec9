\* One admin against the worker; a failing statement and a crash at any point.
\* CHECK_DEADLOCK FALSE: the last save and the end of the clock are bounds; past them the instance stops.
SPECIFICATION PageFairSpec
CONSTANTS
    Kinds = {"publish_page"}
    NoKind = NoKind
    MaxRows = 3
    MaxAttempts = 3
    Publish = "publish_page"
    RetryDelay = 0
    StaleAfter = 0
    MaxTime = 3
    MaxFaults = 1
    MaxCrashes = 1
    Admins = {a1}
    MaxSaves = 2
INVARIANTS
    ScheduledPageHasJob
PROPERTIES
    HandlerRespectsAdmins
    ScheduledPageIsPublished
CHECK_DEADLOCK FALSE
