\* Saves, the scheduled publication and deliberate requests; lost answers, failing calls, a crash.
\* CHECK_DEADLOCK FALSE: the rows, the clock and the faults are bounded; past them the instance stops.
SPECIFICATION CrosspostSpec
CONSTANTS
    Kinds = {"crosspost"}
    NoKind = NoKind
    MaxRows = 2
    MaxAttempts = 2
    Kind = "crosspost"
    RetryDelay = 0
    StaleAfter = 0
    MaxTime = 2
    MaxFaults = 1
    MaxCrashes = 1
    Platforms = {"mastodon", "bluesky"}
    Sources = {"save", "batch", "schedule"}
    StaleForms = FALSE
CONSTRAINT Mishaps
INVARIANTS
    RetriesRepeatOnlyUnrecorded
    SavingNeverDuplicates
CHECK_DEADLOCK FALSE
