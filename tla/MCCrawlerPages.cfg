CONSTANTS
    Videos <- MCVideos
    Listings <- MCListings
    Seeds <- MCListings
    BaseUrl <- MCHome
    Workers = {w1, w2}
    NoJob = NoJob
    LeaseTimeout = 2
    MaxStrikes = 2
    RateLimitBackoff <- MCRateLimitBackoff
    StrikeBackoff <- MCStrikeBackoff
    ListingBaseTTL = 2
    SeedTTL = 2
    ListingMaxTTL = 3
    QuarantineListing = 2
    SchedulerBatchLimit = 1
    PromoteBatchLimit = 1
    ReapBatchLimit = 1
    SweepBatchLimit = 1
    PendingScore = 99
    BloomCapacity = 1
    MaxLag = 0
    MaxTime = 3
    MaxSeq = 5
    Links <- MCLinks
    Found <- MCFound
    MaxFaults = 1
    Names = {"a", "b"}
SPECIFICATION Spec
SYMMETRY MCWorkerSymmetry
INVARIANTS
    TypeOK
    AckedStored
    ChildContract
    CleanStop
    
    FrontierSound
PROPERTIES
    RestartAddsNothing
CHECK_DEADLOCK FALSE
