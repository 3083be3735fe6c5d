CONSTANTS
    Videos = {v1, v2}
    Listings = {base}
    Seeds = {base}
    BaseUrl = base
    Workers = {w1, w2}
    NoJob = NoJob
    LeaseTimeout = 3
    MaxStrikes = 2
    RateLimitBackoff <- MCRateLimitBackoff
    StrikeBackoff <- MCStrikeBackoff
    ListingBaseTTL = 2
    SeedTTL = 2
    ListingMaxTTL = 2
    QuarantineListing = 1
    SchedulerBatchLimit = 1
    PromoteBatchLimit = 1
    ReapBatchLimit = 1
    SweepBatchLimit = 1
    PendingScore = 99
    BloomCapacity = 3
    MaxLag = 0
    MaxTime = 2
    MaxSeq = 20
    Links <- MCLinks
    MaxFaults = 0
    TestUrl = v1
    MaxTestVideos = 2
SPECIFICATION FairSpecTest
PROPERTIES
    StopsOnIdleFrontier
CHECK_DEADLOCK FALSE
