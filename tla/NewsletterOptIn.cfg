\* Two addresses, two interleaved requests, one fault, one crash or shutdown.
\* CHECK_DEADLOCK FALSE: requests, rows and faults are bounded; past them the instance stops.
SPECIFICATION Spec
CONSTANTS
    Kinds <- JobKinds
    NoKind = NoKind
    MaxRows = 2
    MaxAttempts = 2
    RetryDelay = 0
    StaleAfter = 0
    MaxTime = 2
    MaxFaults = 1
    MaxCrashes = 1
    Emails = {ann, bob}
    Tags = {"go"}
    Requests = {r1, r2}
    MaxSubs = 2
    MaxTokens = 3
    Budgets <- OptInOrIssue
    DestroyRaces = FALSE
CONSTRAINT Mishaps
SYMMETRY Interchangeable
INVARIANTS
    PendingCanConfirm
    ActiveMeansConsent
    IssueRepeatsOnlyAfterInterruption
    DoneIssueVisitedEveryone
CHECK_DEADLOCK FALSE
