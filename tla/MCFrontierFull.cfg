CONSTANTS
    Videos = {v1, v2}
    Listings = {base}
    Seeds = {base}
    BaseUrl = base
    Workers = {w1, w2}
    NoJob = NoJob
    LeaseTimeout = 2
    MaxStrikes = 2
    RateLimitBackoff <- MCRateLimitBackoff
    StrikeBackoff <- MCStrikeBackoff
    ListingBaseTTL = 2
    SeedTTL = 2
    ListingMaxTTL = 3
    QuarantineListing = 2
    SchedulerBatchLimit = 2
    PromoteBatchLimit = 2
    ReapBatchLimit = 2
    SweepBatchLimit = 2
    PendingScore = 99
    BloomCapacity = 1
    MaxLag = 0
    MaxTime = 3
    MaxSeq = 3
SPECIFICATION Spec
SYMMETRY MCVideoSymmetry
INVARIANTS
    AdmissionIdempotent
