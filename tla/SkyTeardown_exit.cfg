SPECIFICATION FairSpec
CONSTANTS
    c1 = c1
    c2 = c2
    c3 = c3
    Clusters = {c1, c2, c3}
    Patterns <- MCPatterns
    MaxSignals = 2
    MaxPolls = 2
INVARIANTS
    ZeroExitLeavesNothing
    NoSubmissionIsAbandoned
    CleanCleanupStopsTheJob
PROPERTIES
    ScriptEnds
CHECK_DEADLOCK FALSE
