SPECIFICATION FairSpec
CONSTANTS
    Videos = {1, 2}
    Shards = {0, 1}
    ShardOf <- HashOf
    Backlog = {}
    Dates = {d1}
    Workers = {w1}
    Discoveries = {r1}
    PatchAttempts = 2
    MaxObserved = 0
    MaxFaults = 1
CHECK_DEADLOCK FALSE
PROPERTY EveryVideoTracked
