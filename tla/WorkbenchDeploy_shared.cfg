SPECIFICATION Spec
CONSTANTS
    p1 = p1
    p2 = p2
    a1 = a1
    Procs = {p1, p2}
    Aliases = {a1}
    Commands <- MCCommands
    MaxCommands = 2
    MaxKills = 1
INVARIANTS
    RecordedIsThere
    HealthyIsEarned
PROPERTIES
    ReplacedOnPurpose
CHECK_DEADLOCK FALSE
SYMMETRY Symmetry
