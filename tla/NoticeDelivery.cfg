SPECIFICATION Spec
CONSTANTS
    s1 = s1
    s2 = s2
    s3 = s3
    k1 = k1
    k2 = k2
    Clients = {1, 2}
    Containers = {k1, k2}
    Streams <- TheStreams
    Start = 4
    ChunkSize = 1
    Lease = 1
    MaxAttempts = 2
    RetryDelay <- Delays
    DeferMin = 1
    MaxWork = 1
    LambdaLimit = 1
    Margin = 1
    ClaimExpiry = 2
    FirstConfig <- StoredAtFirst
    Edits <- StoredLater
    MaxClock = 3
    MaxPasses = 3
    MaxFaults = 1
SYMMETRY ContainerSymmetry
INVARIANTS
    OneNoticePerOutcome
    AttemptsBounded
    SettledMeansServed
PROPERTIES
    SettledIsFinal
CHECK_DEADLOCK FALSE
