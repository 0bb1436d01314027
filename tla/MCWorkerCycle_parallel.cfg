SPECIFICATION WSpec
CONSTANTS
    Packet = {p1}
    WorkerId = {w1, w2}
    NoLease = NoLease
    NoClaim = NoClaim
    MaxAttempts = 2
    Parallel = TRUE
    TTL = 2
    ParallelTTL = 2
    Grace = 0
    MaxClaims = 2
SYMMETRY Symmetry
INVARIANTS
    WTypeOK
    ReleasedMeansRecorded
    MergedByAcceptedAttempt
