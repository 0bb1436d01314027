SPECIFICATION FLiveSpec
CONSTANTS
    Plan <- Queue
    LastWave <- TwoFeatures
    MaxConcurrency = 2
    MaxAttempts = 2
    Outcomes = {"accepted", "rejected", "failed"}
    Executions <- FirstTwice
    MaxPackets = 4
CHECK_DEADLOCK FALSE
INVARIANTS
    OneActiveFeature
PROPERTIES
    QueueMoves
