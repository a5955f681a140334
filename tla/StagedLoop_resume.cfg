SPECIFICATION FairSpec
CONSTANTS
    OuterIterations = 3
    Commands = {"run", "full-loop"}
    TornWrites = TRUE
    MaxProcesses = 3
    MaxCrashes = 2
INVARIANTS
    IInv
    QualityIsChained
    ReportIsCurrent
PROPERTIES
    RecordIsKept
    RunCompletes
CHECK_DEADLOCK FALSE
