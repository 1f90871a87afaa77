SPECIFICATION MCSpec
CONSTANTS
    Requests = {r1, r2, r3}
    Outcomes = {r1, r2, r3}
    Keys = {k1}
    Fingerprints = {f1, f2}
    NoKey = NoKey
    ShardCounts = {1, 2}
    Hashes = {1}
    Restarts = {"same"}
    MaxClock = 2
    LeaseMs = 2
    TtlMs = 1
    U64Max = 5
SYMMETRY Symmetry
INVARIANTS
    TypeOK
    ReplayFaithful
    CountersBalance
    ScrapeBracketed
    AnswersAgree
    SingleEffect
