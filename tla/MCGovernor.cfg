SPECIFICATION FairSpec
CONSTANTS
    Ops = {o1, o2}
    Waiters = {scan}
    ChunkSizes = {1, 4}
    ForegroundQuietPeriod = 2
    MinPollInterval = 1
    TierBoundary <- MCTierBoundary
    Rate <- MCRate
    MaxAge = 6
INVARIANTS TypeOK OpsCounted
PROPERTIES GrantOnlyAfterQuiet WaitersServed
