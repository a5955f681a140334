SPECIFICATION Spec
CONSTANTS
    c1 = c1
    c2 = c2
    c3 = c3
    RunUri = RunUri
    Nobody = Nobody
    Calls = {c3}
    Stages <- MCStages
    Shards <- MCShards
    FixedUri = {}
    IndexedCalls = {c3}
    MaxTries = 1
    MaxFaults = 0
INVARIANT NoFalseSuccess
CHECK_DEADLOCK FALSE
