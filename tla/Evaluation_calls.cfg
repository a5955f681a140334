SPECIFICATION FairEvaluationSpec
CONSTANTS
    reason = reason
    Components = {reason}
    RolloutCount = 2
    MaxGpus = 1
    RunUri = RunUri
    Nobody = Nobody
    Calls <- MCCalls
    Stages <- MCStages
    Shards <- MCShards
    FixedUri = {}
    IndexedCalls = {}
    MaxTries = 1
    MaxFaults = 1
INVARIANTS
    EndsClean
    JobsWithinCap
    JudgmentsAreOwn
PROPERTIES
    PoolEnds
    CallsAreSiblingJobs
CHECK_DEADLOCK FALSE
