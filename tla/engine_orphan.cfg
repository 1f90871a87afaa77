SPECIFICATION MCSpec
CONSTANTS
    Keys = {k1}
    Fingerprints = {f1}
    Outcomes = {o1}
    CallerOutcomes = {o1}
    NoOutcome = NoOutcome
    LeaseMs = 1
    TtlMs = 2
    U64Max = 2
    MaxAttempts = 3
    SyncEach = FALSE
    WorkersOutliveCrash = TRUE
SYMMETRY Symmetry
PROPERTY StaleNeverCommits
