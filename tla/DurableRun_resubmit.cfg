SPECIFICATION Spec
CONSTANTS
    s1 = s1
    s2 = s2
    Stages = {s1, s2}
    Waits <- MCWaits
    MaxSubmits = 2
    MaxFaults = 0
PROPERTY WatchWaitsForTheRun
CHECK_DEADLOCK FALSE
