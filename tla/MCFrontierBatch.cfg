CONSTANTS
    Videos = {}
    Listings = {base, l1}
    Seeds = {base}
    BaseUrl = base
    Workers = {w1}
    NoJob = NoJob
    LeaseTimeout = 2
    MaxStrikes = 2
    RateLimitBackoff <- MCRateLimitBackoff
    StrikeBackoff <- MCStrikeBackoff
    ListingBaseTTL = 2
    SeedTTL = 2
    ListingMaxTTL = 3
    QuarantineListing = 2
    SchedulerBatchLimit = 1
    PromoteBatchLimit = 2
    ReapBatchLimit = 2
    SweepBatchLimit = 2
    PendingScore = 99
    BloomCapacity = 1
    MaxLag = 1
    MaxTime = 3
    MaxSeq = 3
SPECIFICATION FairSpec
INVARIANTS
    OneJobPerUrl
PROPERTIES
    NeverEarly
    AbandonedReturns
    DelayedReturns
    DueListingReturns
