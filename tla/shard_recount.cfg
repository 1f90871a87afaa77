SPECIFICATION Spec
CONSTANTS
    Requests = {r1, r2}
    Outcomes = {r1, r2}
    Keys = {k1}
    Fingerprints = {f1}
    NoKey = NoKey
    ShardCounts = {1, 2}
    Hashes = {1}
    Restarts = {"recount"}
    MaxClock = 2
    LeaseMs = 2
    TtlMs = 2
    U64Max = 4
SYMMETRY Symmetry
INVARIANT AnswersAgree
