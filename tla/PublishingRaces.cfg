\* Everything interleaves, but nobody presses Publish on a scheduled article.
\* CHECK_DEADLOCK FALSE: the last save and the end of the clock are bounds; past them the instance stops.
SPECIFICATION Spec
CONSTANTS
    Kinds = {"publish_article"}
    NoKind = NoKind
    MaxRows = 2
    MaxAttempts = 2
    Publish = "publish_article"
    RetryDelay = 1
    StaleAfter = 0
    MaxTime = 2
    MaxFaults = 1
    MaxCrashes = 1
    Admins = {a1, a2}
    Effects = {"newsletter"}
    Targets = {"draft", "trash"}
    Races = TRUE
    MaxSaves = 2
SYMMETRY AdminSymmetry
INVARIANTS
    SnapshotConsumedOnce
CHECK_DEADLOCK FALSE
