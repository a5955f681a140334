SPECIFICATION Spec
CONSTANTS
    t1 = t1
    t2 = t2
    Terminals = {t1, t2}
    Retries = 2
    MaxCommands = 3
    MaxIds = 3
    MaxKills = 1
INVARIANTS
    NoClusterIsForgotten
    
    KubeconfigIsOfRecord
PROPERTIES
    DeployedIsKept
CHECK_DEADLOCK FALSE
SYMMETRY Symmetry
VIEW View
