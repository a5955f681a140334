SPECIFICATION FairSpec
CONSTANTS
    k1 = k1
    k2 = k2
    w1 = w1
    w2 = w2
    Keys = {k1, k2}
    Etags = {1}
    Pages = 2
    Page <- MCPage
    Watchers = {w1}
    MaxLaunches = 0
    MaxClock = 2
    MaxFaults = 1
INVARIANTS
    OncePerBatchUnlessFault
PROPERTY EveryObjectIsCovered
CHECK_DEADLOCK TRUE
