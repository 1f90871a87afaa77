SPECIFICATION EdgeSpec
CONSTANTS
    Identities = {i1, i2}
    Rules <- TwoRules
    MaxKeys = 1
    MaxNow = 5
    MaxHits = 5
    Actors = {i1, i2}
    Targets = {t1, t2, t3}
    MaxRank = 2
    Estimated <- SomeEstimated
    Registers = {g1, g2, g3}
    WindowMs = 2
    MaxDistinct = 2
    MaxActors = 1
    MaxReading = 2
    MaxTouches = 4
    Items = {x1, x2, x3}
    Rows = {w1, w2}
    Columns = {c1, c2}
    CountMax = 3
    MaxTotal = 2
    ClientIds <- TwoIds
    RequestHashes <- TwoHashes
    Nonces = {1}
    Digests <- TwoDigests
    Base = 250
    Overages = {8, 12}
    PowWindowMs = 2
    MaxPowNow = 4
    MaxDrawn = 3
    root = root
    dots = dots
    k = k
    c = c
    d = d
    Text <- SomeText
    NameOrder <- SomeNames
    Cut = Cut
    Missing = Missing
    Opaque = Opaque
    Close = Close
    Created = Created
    Replayed = Replayed
    RequestsSent <- SomeRequests
    Replies <- SomeReplies
    MaxBody = 2
    MaxRequest = 6
    Normalized <- SomeNormalized
    FromReqwest = FromReqwest
    Transports = {"uring"}
CHECK_DEADLOCK FALSE
INVARIANT UringDispatchesFull
