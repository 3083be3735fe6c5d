CONSTANTS
    Videos = {v1, v2}
    Listings = {base}
    Seeds = {base}
    BaseUrl = base
    Workers = {w1}
    NoJob = NoJob
    LeaseTimeout = 1
    MaxStrikes = 2
    RateLimitBackoff <- MCRateLimitBackoff
    StrikeBackoff <- MCStrikeBackoff
    ListingBaseTTL = 1
    SeedTTL = 1
    ListingMaxTTL = 1
    QuarantineListing = 1
    SchedulerBatchLimit = 1
    PromoteBatchLimit = 1
    ReapBatchLimit = 1
    SweepBatchLimit = 1
    PendingScore = 99
    BloomCapacity = 2
    MaxLag = 0
    MaxTime = 2
    MaxSeq = 20
    Links <- MCChain
    MaxFaults = 0
    MaxSnapshots = 1
    MaxOutages = 1
SPECIFICATION FairSpecRecovery
PROPERTIES
    AllRecovered
CHECK_DEADLOCK FALSE
