CONSTANTS
    MaxAttempt = 3
    Budget = 2
    Fast = FALSE
    KeepFailed = TRUE
    Recovery = TRUE
    CoderAttempts = 2
SPECIFICATION ASpec
INVARIANTS
    AttemptInv
    AcceptedOnGates
    LatestRowIsAccepted
    RerunLeavesCoder
PROPERTIES
    AttemptEnds
CHECK_DEADLOCK FALSE
