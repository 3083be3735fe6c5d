--------------------------- MODULE FrontierConfig ---------------------------
(***************************************************************************)
(* Parameters of the frontier (FrontierConfig, the URL classifier and the  *)
(* batch limits of internal/storage/frontier.go) and the operators that    *)
(* depend on nothing else.                                                 *)
(***************************************************************************)
EXTENDS Integers, Sequences, FiniteSets, Functions

CONSTANTS
    Videos,              \* canonical URLs that contain VideoPattern
    Listings,            \* every other canonical URL
    Seeds,               \* the listings of ClassSeed
    BaseUrl,             \* the listing SeedListing schedules at startup
    Workers,             \* crawler goroutines
    NoJob,               \* the nil *Job
    LeaseTimeout, MaxStrikes, RateLimitBackoff, StrikeBackoff,
    ListingBaseTTL, SeedTTL, ListingMaxTTL, QuarantineListing,
    SchedulerBatchLimit, PromoteBatchLimit, ReapBatchLimit, SweepBatchLimit,
    PendingScore,        \* later than any time the clock can show
    BloomCapacity,       \* a NONSCALING filter refuses an item beyond it
    MaxLag,              \* bound on the age of a client's clock reading
    MaxTime,             \* bound on the clock (model checking only)
    MaxSeq               \* bound on ids minted by AdmitVideo and Nack (same)

URL == Videos \cup Listings
Job == [id : Nat, url : URL]

ASSUME UrlAssumption ==
    /\ Videos \cap Listings = {}
    /\ BaseUrl \in Seeds
    /\ Seeds \subseteq Listings
    /\ NoJob \notin Job

ASSUME TimeAssumption ==
    /\ {LeaseTimeout, ListingBaseTTL, SeedTTL, ListingMaxTTL,
        QuarantineListing, MaxLag, MaxTime, MaxSeq} \subseteq Nat
    /\ RateLimitBackoff \in Seq(Nat) /\ RateLimitBackoff # << >>
    /\ StrikeBackoff \in Seq(Nat) /\ StrikeBackoff # << >>
    /\ MaxTime >= 1
    /\ PendingScore \in Nat
    /\ PendingScore > MaxTime + ListingMaxTTL
    /\ PendingScore > MaxTime + QuarantineListing

ASSUME LimitAssumption ==
    {MaxStrikes, SchedulerBatchLimit, PromoteBatchLimit, ReapBatchLimit,
     SweepBatchLimit, BloomCapacity} \subseteq Nat \ {0}

-----------------------------------------------------------------------------
(* Redis sorted sets and hashes: functions from members to scores.         *)

ZAdd(z, e, score) == [x \in DOMAIN z \cup {e} |-> IF x = e THEN score ELSE z[x]]
ZRem(z, S) == Restrict(z, DOMAIN z \ S)

Due(z, t) == {e \in DOMAIN z : z[e] <= t}

\* The pages of n entries ZRANGEBYSCORE z -inf t LIMIT 0 limit can return:
\* lowest scores first.  Ties are broken by member bytes, here by choice.
Page(z, t, limit, n) ==
    {b \in [1..n -> Due(z, t)] :
        /\ \A i, j \in 1..n : i < j => b[i] # b[j] /\ z[b[i]] <= z[b[j]]
        /\ \A e \in Due(z, t) \ Range(b) :
              n = limit /\ \A i \in 1..n : z[b[i]] <= z[e]}

-----------------------------------------------------------------------------
(* Timeouts and backoff.                                                   *)

QuarantineUntil(u, t) == IF u \in Videos THEN 0 ELSE t + QuarantineListing

FailClass == {"RateLimited", "Strikeable"}
Ladder(class) == IF class = "Strikeable" THEN StrikeBackoff ELSE RateLimitBackoff
Backoff(class, n) ==
    LET ladder == Ladder(class)
    IN  ladder[IF n > Len(ladder) THEN Len(ladder) ELSE n]

BaseTTL(u) == IF u \in Seeds THEN SeedTTL ELSE ListingBaseTTL

\* The doubled TTL after n barren visits, capped; stated by range so that it
\* is a natural number whatever is known of 2^n.
RevisitTTL(u, n) ==
    LET ttl == BaseTTL(u) * 2^n
    IN  IF ttl \in 0..ListingMaxTTL THEN ttl ELSE ListingMaxTTL
=============================================================================
