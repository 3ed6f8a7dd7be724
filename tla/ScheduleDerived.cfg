CONSTANTS
    a = a
    b = b
    c = c
    Streams = {a, b, c}
    Listings <- MCListings
    Containers = {k1, k2}
    MaxRefreshes = 3
    MaxFaults = 1
SPECIFICATION FairSpec
INVARIANTS NeverClaimsNewer NoticeNotForgotten
PROPERTIES NeverGoesBack CatchesUp
