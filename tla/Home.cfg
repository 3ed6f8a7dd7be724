SPECIFICATION HomeSpec
CONSTANTS
    HomeVideos = {1}
    RankedVideos = {1, 2}
    HomeKinds <- MCHomeKinds
    ViewCounts = {0, 1, 2}
    Periods = {1, 2}
    PerDay = 4
    ReportLookback = 3
    HomeEventDates = 3
    EndedRetention = 6
    HomeMaxNow = 11
    HomeFaults = 1
    Discoveries = {1, 2}
    FoundVideos = {1, 2}
    FoundKind <- MCFoundKind
    FirstTimes = {2}
    WindowsPerDay = 2
    MaxAttempts = 2
    MaxEntries = 1
    FoundEventDates = 2
    FoundMaxNow = 3
    FoundFaults = 1
    TopicRuns = {1, 2}
    TopicVideos = {1, 2}
    Topics = {"mv", "game"}
    Title <- MCTitle
    Shards = {0, 1}
    ShardOf <- MCShardOf
    FirstMaster <- MCFirstMaster
    FirstEntry <- MCFirstEntry
    Modes <- MCModes
    MaxErrors = 2
    TopicFaults = 1
INVARIANT HomeIsSound
PROPERTY ShownStands
CHECK_DEADLOCK FALSE
