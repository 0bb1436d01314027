SPECIFICATION WSpec
CONSTANTS
    Packet = {p1}
    WorkerId = {w1, w2}
    NoLease = NoLease
    NoClaim = NoClaim
    MaxAttempts = 2
    Parallel = FALSE
    TTL = 1
    ParallelTTL = 1
    Grace = 0
    MaxClaims = 2
INVARIANTS
    StaleResultNotMerged
