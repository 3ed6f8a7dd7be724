SPECIFICATION Spec
CONSTANTS
    c1 = c1
    k1 = k1
    k2 = k2
    Clients = {c1}
    Containers = {k1, k2}
    Starts = {5}
    Advance = 4
    Window = 1
    Jitter = 0
    Tolerance = 0
    Lookback = 2
    StartGrace = 1
    MinRemaining = 1
    MaxPrior = 1
    CatchUpSwitch = TRUE
    LambdaLimit = 1
    ClaimExpiry = 2
    MaxClock = 6
    MaxRuns = 2
    MaxEdits = 1
    MaxFaults = 2
SYMMETRY ContainerSymmetry
INVARIANTS
    OnePushPerOutcome
    SenderOwnsClaim
    RecoveredWasWanted
PROPERTIES
    DeliveredIsFinal
    MarkerPassesServed
CHECK_DEADLOCK FALSE
