SPECIFICATION LiveSpec
CONSTANTS
    Requests = {r1, r2}
    Outcomes = {r1, r2}
    Keys = {k1}
    Fingerprints = {f1}
    NoKey = NoKey
    ShardCounts = {1, 2}
    Hashes = {1}
    Restarts = {"same", "memory"}
    MaxClock = 2
    LeaseMs = 1
    TtlMs = 1
    U64Max = 3
PROPERTIES
    BeginNeverAwaitsForward
    EveryRequestAnswered
    KeyNotWedged
