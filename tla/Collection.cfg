SPECIFICATION MCSpec
CONSTANTS
    CycleVideos = {1, 2}
    Hash <- MCHash
    PublishedOn <- MCPublishedOn
    RecentMaxAge = 1
    CycleDays <- MCCycleDays
    MinSnapshots = 3
    QuietHot = 2
    QuietWarm = 3
    LastDay = 16
    DayRuns = {1, 2}
    DayVideos = {1, 2}
    Creators <- MCCreators
    Uploads <- MCUploads
    Enabled = {1, 2}
    Backlog = {1}
    KnownAtFirst = {2}
    DayRetries = 2
    DayBatch = 1
    LegacyDate = TRUE
    DayFaults = 1
    FillRuns = {1}
    ShortsRuns = {1}
    FillVideos = {1, 2, 3}
    Kind <- MCKind
    MasterAtFirst <- MCMasterAtFirst
    ManifestAtFirst <- MCManifestAtFirst
    FillRetries = 2
    FillBatch = 2
    MaxObserved = 1
    FillFaults = 1
    BoardCreators = {1, 2, 3}
    Org <- MCOrg
    Rosters = {{1, 2, 3}, {1, 2}}
    Counts = {0, 1}
    Hidden = Hidden
    Dates = {1, 2}
    Anchors = {1}
    BoardBatch = 2
    BoardRetries = 1
    Lookback = 2
    MaxRuns = 2
    BoardFaults = 1
INVARIANT CollectionIsSound
PROPERTY CompleteDayIsFinal
CHECK_DEADLOCK FALSE
