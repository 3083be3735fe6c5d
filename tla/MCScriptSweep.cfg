CONSTANTS
    Videos = {v1}
    Listings = {base}
    Seeds = {base}
    BaseUrl = base
    Workers = {w1}
    NoJob = NoJob
    LeaseTimeout = 1
    MaxStrikes = 1
    RateLimitBackoff <- MCRateLimitBackoff
    StrikeBackoff <- MCStrikeBackoff
    ListingBaseTTL = 3
    SeedTTL = 3
    ListingMaxTTL = 3
    QuarantineListing = 3
    SchedulerBatchLimit = 1
    PromoteBatchLimit = 1
    ReapBatchLimit = 1
    SweepBatchLimit = 1
    PendingScore = 99
    BloomCapacity = 2
    MaxLag = 0
    MaxTime = 3
    MaxSeq = 1
    MaxAborts = 1
SPECIFICATION FairSpec
PROPERTIES
    OrphanSwept
