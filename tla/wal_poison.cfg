SPECIFICATION Spec
CONSTANTS
    Keys = {k1, k2}
    PanicAborts = FALSE
    DirSyncWorks = TRUE
    FreshLog = FALSE
    CorruptTails = FALSE
    MaxPuts = 3
    MaxFiles = 2
SYMMETRY Symmetry
INVARIANT AckedRecoverable
