SPECIFICATION MSpec
CONSTANTS
    Packet = {1, 2}
    Api = {a1, a2}
    NoLease = NoLease
    MergeTTL = 1
    CleanupAge = 1
    MaxAttempts <- Executions
CHECK_DEADLOCK FALSE
INVARIANTS
    MTypeOK
    MergedIsPushed
    VerifiedWhereMerged
PROPERTIES
    LiveLeaseKept
    FirstIsServed
    ImplementsVerifiedMerges
