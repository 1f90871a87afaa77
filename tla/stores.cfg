SPECIFICATION StoresSpec
CONSTANTS
    Keys = {k1, k2}
    PanicAborts = TRUE
    DirSyncWorks = TRUE
    FreshLog = FALSE
    CorruptTails = FALSE
    MaxPuts = 3
    MaxFiles = 3
    Nodes = {n1, n2, n3}
    ReplKeys = {e1, e2}
    MaxReplPuts = 3
SYMMETRY Symmetry
INVARIANTS
    TypeOK
    AckedRecoverable
    NeverRefused
    LogVerifies
    ReplTypeOK
    AckedOnEveryNode
PROPERTY ImplementsRecordLog
