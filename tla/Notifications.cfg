SPECIFICATION MCSpec
CONSTANTS
    announcement = announcement
    archive = archive
    c1 = c1
    k1 = k1
    k2 = k2
    d1 = d1
    d2 = d2
    v1 = v1
    v2 = v2
    none = none
    Clients = {c1}
    Ids <- MCIds
    Announcement = announcement
    Archive = archive
    Containers = {k1, k2}
    ClaimExpiry = 1
    SlotLength = 2
    SlotsPerDay = 2
    SlotChoices = {{0}, {1}}
    EventLookback = 3
    MaxLag = 1
    MaxClock = 5
    MaxPuts = 2
    MaxFaults = 1
    Starts = {1, 2}
    AdvanceOffset = 1
    StartGrace = 2
    MinRemaining = 1
    CarryForward = 3
    Lookback = 2
    LambdaLimit = 1
    ReminderExpiry = 4
    MaxReminderClock = 3
    MaxReminderEdits = 1
    MaxReminderFaults = 1
    Devices = {d1, d2}
    Streams = {v1, v2}
    Topic <- MCTopic
    NoTopic = none
    Start <- MCStart
    Offsets = {1}
    Settings <- MCSettings
    MaxSettingEdits = 3
    MaxSettingFaults = 1
SYMMETRY Symmetry
INVARIANTS
    OnePushPerConfirmation
    NoBacklog
    NoVideoIsLost
    RemindersAreSound
PROPERTY MarkerPassesPremieres
CHECK_DEADLOCK FALSE
