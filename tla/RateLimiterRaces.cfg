\* Two requests of two clients, each in progress for up to a unit of time.
\* CHECK_DEADLOCK FALSE: the clock is bounded; past it the instance stops.
SPECIFICATION Spec
CONSTANTS
    Threads = {t1, t2}
    Keys = {a, b}
    Burst = 1
    Cost = 2
    MaxIdle = 4
    SweepEvery = 1
    Visitors = {v1, v2, v3, v4}
    None = None
    MaxStall = 1
    MaxTime = 7
SYMMETRY Interchangeable
INVARIANTS
    DecidesLikeOneBucket
CHECK_DEADLOCK FALSE
