CONSTANTS
    Videos = {v1}
    Listings = {base}
    Seeds = {base}
    BaseUrl = base
    Workers = {w1, w2}
    NoJob = NoJob
    LeaseTimeout = 1
    MaxStrikes = 2
    RateLimitBackoff <- MCRateLimitBackoff
    StrikeBackoff <- MCStrikeBackoff
    ListingBaseTTL = 1
    SeedTTL = 2
    ListingMaxTTL = 2
    QuarantineListing = 1
    SchedulerBatchLimit = 1
    PromoteBatchLimit = 1
    ReapBatchLimit = 1
    SweepBatchLimit = 1
    PendingScore = 99
    BloomCapacity = 2
    MaxLag = 0
    MaxTime = 2
    MaxSeq = 20
    Links <- MCLinks
    MaxFaults = 2
SPECIFICATION FairSpec
PROPERTIES
    AllHarvested
