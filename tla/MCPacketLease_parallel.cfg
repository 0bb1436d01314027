SPECIFICATION Spec
CONSTANTS
    Packet = {p1, p2}
    WorkerId = {w1, w2}
    NoLease = NoLease
    MaxAttempts = 1
    Parallel = TRUE
    TTL = 1
    ParallelTTL = 2
    Grace = 0
    MaxClaims = 2
SYMMETRY Symmetry
INVARIANTS
    LeaseInv
    ReservationCovers
    OneResultPerAttempt
PROPERTIES
    AllowedMoves
