SPECIFICATION MCSpec
CONSTANTS
    s1 = s1
    a = a
    b = b
    Streams = {s1}
    Scheduled <- StartsEarly
    MinInterval = 1
    MaxPending = 2
    PendingMaxAge = 3
    LookupAttempts = 2
    LookupWindow = 2
    LookupMaxAge = 2
    Retention = 4
    MaxClock = 5
    MaxFaults = 1
    Answerable = {a, b}
    DisplayFresh = 2
    ContentRefresh = 4
    RateLimitCooldown = 1
    CooldownAfter = 2
    CooldownBase = 1
    CooldownCap = 2
    SnapshotFaults = 2
    Videos = {1}
    FirstStart = {3, 5}
    Lookahead = 2
    Buffer = 3
    EndedCache = 1
    Expose = 3
    AnswerTtl = 2
    FailureTtl = 1
    MaxNow = 4
    MaxAge = 3
INVARIANTS
    FollowedToTheEnd
    ServedListIsSound
PROPERTY SettledStands
CHECK_DEADLOCK FALSE
