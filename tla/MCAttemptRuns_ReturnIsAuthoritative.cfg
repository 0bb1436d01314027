CONSTANTS
    MaxAttempt = 3
    Budget = 2
    Fast = FALSE
    KeepFailed = TRUE
    Recovery = TRUE
    CoderAttempts = 2
SPECIFICATION ASpec
PROPERTIES
    ReturnIsAuthoritative
CHECK_DEADLOCK FALSE
