\* Two interleaved requests, one static file, four rows; the scenes bound the rest.
\* CHECK_DEADLOCK FALSE: what may be asked is bounded; past it the instance stops.
SPECIFICATION Spec
CONSTANTS
    Requests = {r1, r2}
    Articles = {1}
    Names = {1}
    MaxFiles = 4
    MaxKeys = 5
    Budgets <- Scenes
SYMMETRY Interchangeable
INVARIANTS
    RowHasBlob
    EmbeddedIsServed
    NothingForgotten
    BundleHoldsItsBlobs
CHECK_DEADLOCK FALSE
