SPECIFICATION FairSpec
CONSTANTS
    e1 = e1
    e2 = e2
    s1 = s1
    s2 = s2
    NoOwner = NoOwner
    Owners = {e1, e2}
    Repairs = {e2}
    Shards = {s1, s2}
    AcquireLease = 4
    ShardRenewLease = 4
    ReducerRenewLease = 3
    MaxAttempts = 2
    MaxConcurrency = 1
    LambdaLimit = 1
    RetryWait = 0
    MaxClock = 10
    LastStart = 1
    MaxFaults = 1
PROPERTIES
    CompleteIsFrozen
    ExecutionEnds
    LockIsFreed
CHECK_DEADLOCK FALSE
