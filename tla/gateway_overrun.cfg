SPECIFICATION Spec
CONSTANTS
    Requests = {r1, r2}
    Outcomes = {r1, r2}
    Keys = {k1}
    Fingerprints = {f1}
    NoKey = NoKey
    ShardCounts = {1}
    Hashes = {0}
    Restarts = {"same"}
    MaxClock = 2
    LeaseMs = 1
    TtlMs = 2
    U64Max = 3
SYMMETRY Symmetry
PROPERTY ServedIsCommitted
