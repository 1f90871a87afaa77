SPECIFICATION MCSpec
CONSTANTS
    Keys = {k1, k2}
    Fingerprints = {f1, f2}
    Outcomes = {o1, o2, o3}
    CallerOutcomes = {o1}
    NoOutcome = NoOutcome
    LeaseMs = 1
    TtlMs = 2
    U64Max = 2
    MaxAttempts = 3
    SyncEach = TRUE
    WorkersOutliveCrash = FALSE
SYMMETRY Symmetry
INVARIANTS
    TypeOK
    NeverPanics
PROPERTIES
    StaleNeverCommits
    ImplementsExactlyOnce
