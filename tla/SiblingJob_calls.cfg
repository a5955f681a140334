SPECIFICATION FairSpec
CONSTANTS
    c1 = c1
    c2 = c2
    c3 = c3
    RunUri = RunUri
    Nobody = Nobody
    Calls = {c1, c2, c3}
    Stages <- MCStages
    Shards <- MCShards
    FixedUri = {c2}
    IndexedCalls = {c3}
    MaxTries = 2
    MaxFaults = 1
INVARIANTS
    OwnResult
    CompleteIsCounted
    NoFalseFailure
    JobIsCleanedUp
PROPERTIES
    DeletesNoLiveWork
    EveryCallEnds
    GpusAreReleased
CHECK_DEADLOCK FALSE
