\* Threads of two on each platform, two interleaved requests; the scenes bound the rest.
\* CHECK_DEADLOCK FALSE: requests, rows and faults are bounded; past them the instance stops.
SPECIFICATION Spec
CONSTANTS
    Kinds <- JobKinds
    NoKind = NoKind
    MaxRows = 3
    MaxAttempts = 2
    RetryDelay = 0
    StaleAfter = 0
    MaxTime = 3
    MaxFaults = 1
    MaxCrashes = 1
    Articles = {1, 2, 3, 4}
    Addresses = {"ann", "bob"}
    Externals <- Platform
    Thread <- Threads
    Requests = {r1, r2}
    MaxComments = 3
    Budgets <- Scenes
    DestroyRaces = FALSE
    CronPlatforms = {"mastodon"}
    Period = 0
CONSTRAINT Mishaps
SYMMETRY Interchangeable
INVARIANTS
    BatchIsThreaded
    DecisionsOutliveFetches
    ApprovedReplyAnnounced
    ReplyMailRepeatsOnlyAfterCut
    StampFollowsEnqueue
    TreeShowsEachOnce
CHECK_DEADLOCK FALSE
