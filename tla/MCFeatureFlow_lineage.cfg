SPECIFICATION FSpec
CONSTANTS
    Plan <- Lineages
    LastWave <- TwoWaves
    MaxConcurrency = 2
    MaxAttempts = 2
    Outcomes = {"accepted", "rejected", "blocked_recoverable"}
    Executions <- FirstTwice
    MaxPackets = 5
CHECK_DEADLOCK FALSE
INVARIANTS
    FTypeOK
    NoOverlap
    AncestorsRetired
    LeftoversAreStale
PROPERTIES
    DependenciesServed
    WavesInOrder
