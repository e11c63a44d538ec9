\* One settings request at a time against the run, two accounts.
\* CHECK_DEADLOCK FALSE: with the bounds used up and the sync disabled nothing is left to do.
SPECIFICATION FairSpec
CONSTANTS
    Accounts = {u1, u2}
    NoAccount = NoAccount
    Admins = {a1}
    StartDates = {0, 2}
    Filtered = {2}
    PageSize = 1
    MaxPages = 2
    FirstRunLimit = 1
    MaxTweets = 3
    MaxArticles = 6
    MaxEdits = 2
    MaxFaults = 1
INVARIANTS
    UserIdMatchesUsername
    OneArticlePerTweet
    StoredMediaIsAttached
    CursorSkipsNothing
PROPERTIES
    CursorCatchesUp
CHECK_DEADLOCK FALSE
