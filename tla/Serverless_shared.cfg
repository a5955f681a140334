SPECIFICATION Spec
CONSTANTS
    t1 = t1
    t2 = t2
    Terminals = {t1, t2}
    Commands <- MCCommands
    MaxCommands = 3
    MaxInterrupts = 1
INVARIANTS
    AnswersAreFinal
    InterruptStopsTheJob
    NothingIsForgotten
CHECK_DEADLOCK FALSE
SYMMETRY Symmetry
VIEW View
