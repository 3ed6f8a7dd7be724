SPECIFICATION Spec
CONSTANTS
    e1 = e1
    e2 = e2
    s1 = s1
    s2 = s2
    NoOwner = NoOwner
    Owners = {e1, e2}
    Repairs = {e2}
    Shards = {s1, s2}
    AcquireLease = 3
    ShardRenewLease = 3
    ReducerRenewLease = 3
    MaxAttempts = 1
    MaxConcurrency = 2
    LambdaLimit = 1
    RetryWait = 0
    MaxClock = 7
    LastStart = 4
    MaxFaults = 2
SYMMETRY ShardSymmetry
INVARIANTS
    TypeOK
    LeaseOutlivesRun
    CompleteMeansCollected
    RankingsCoverRun
PROPERTIES
    ImplementsClaim
CHECK_DEADLOCK FALSE
