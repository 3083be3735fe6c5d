CONSTANTS
    Videos = {v1}
    Listings = {base}
    Seeds = {base}
    BaseUrl = base
    Workers = {w1, w2}
    NoJob = NoJob
    LeaseTimeout = 2
    MaxStrikes = 2
    RateLimitBackoff <- MCRateLimitBackoff
    StrikeBackoff <- MCStrikeBackoff
    ListingBaseTTL = 2
    SeedTTL = 2
    ListingMaxTTL = 3
    QuarantineListing = 2
    SchedulerBatchLimit = 1
    PromoteBatchLimit = 1
    ReapBatchLimit = 1
    SweepBatchLimit = 1
    PendingScore = 99
    BloomCapacity = 2
    MaxLag = 0
    MaxTime = 5
    MaxSeq = 5
SPECIFICATION Spec
SYMMETRY MCWorkerSymmetry
INVARIANTS
    TypeOK
    LeaseAtMostOnce
    OneJobPerUrl
    PendingIffLive
    ProcessingLeased
    ClaimAccounted
    QuarantineScheduled
    FailureAccounting
PROPERTIES
    ImplementsLifecycle
    NeverEarly
    LeaseEndsByOwner
