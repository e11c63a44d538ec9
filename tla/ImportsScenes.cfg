\* Two interleaved requests; the scenes bound the rest.
\* CHECK_DEADLOCK FALSE: requests, rows and faults are bounded; past them the instance stops.
SPECIFICATION Spec
CONSTANTS
    Kinds <- JobKinds
    NoKind = NoKind
    MaxRows = 3
    MaxAttempts = 2
    RetryDelay = 0
    StaleAfter = 0
    MaxTime = 3
    MaxFaults = 2
    MaxCrashes = 2
    Requests = {r1, r2}
    Bases <- Names
    Content <- Samples
    Feed <- Blog
    MaxItems = 2
    MaxExtract = 8
    Word = 16
    Budgets <- Scenes
CONSTRAINT Mishaps
SYMMETRY Interchangeable
INVARIANTS
    ActiveImportOwnsSource
    HalfImportKeepsSource
    ImportedOnce
    OnlyChosenEntries
    ExtractIsBounded
CHECK_DEADLOCK FALSE
