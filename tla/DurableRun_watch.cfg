SPECIFICATION FairSpec
CONSTANTS
    s1 = s1
    s2 = s2
    Stages = {s1, s2}
    Waits <- MCWaits
    MaxSubmits = 1
    MaxFaults = 2
INVARIANTS
    SuccessIsEarned
    FailureIsEarned
    StatusIsSettled
    JobIdCanBeFound
PROPERTIES
    WatchReturns
CHECK_DEADLOCK FALSE
