SPECIFICATION MCSpec
CONSTANTS
    Keys = {k1, k2}
    Fingerprints = {f1}
    Outcomes = {o1, o2, o3}
    CallerOutcomes = {o1, o2}
    NoOutcome = NoOutcome
    LeaseMs = 1
    TtlMs = 2
    U64Max = 2
    MaxAttempts = 3
    SyncEach = FALSE
    WorkersOutliveCrash = TRUE
SYMMETRY Symmetry
INVARIANTS
    IndexIsLogReplay
    AckedOutcomeHonoured
    InProgressFencesDistinct
    EngineInv
    NeverPanics
    SimulationTracksEngine
