SPECIFICATION FairSpec
CONSTANTS
    Videos = {1, 2}
    Shards = {0}
    ShardOf <- HashOf
    Backlog = {1}
    Dates = {d1, d2}
    Workers = {w1, w2}
    Discoveries = {r1}
    PatchAttempts = 2
    MaxObserved = 2
    MaxFaults = 2
CHECK_DEADLOCK FALSE
INVARIANTS TypeOK ObservedOnce EventsFirst
PROPERTIES TrackedStays EveryVideoTracked
