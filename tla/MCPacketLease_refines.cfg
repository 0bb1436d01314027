SPECIFICATION Spec
CONSTANTS
    Packet = {p1}
    WorkerId = {w1, w2}
    NoLease = NoLease
    MaxAttempts = 2
    Parallel = FALSE
    TTL = 2
    ParallelTTL = 2
    Grace = 1
    MaxClaims = 3
PROPERTIES
    ResultsAreCurrent
    GraceRespected
    ImplementsExclusiveAttempts
    LapsedLeaseReclaimed
