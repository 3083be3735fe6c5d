--------------------------- MODULE FrontierProofs ---------------------------
(***************************************************************************)
(* Theorems about Frontier, for every value of its constants.              *)
(***************************************************************************)
EXTENDS Frontier, FiniteSetTheorems, TLAPS

-----------------------------------------------------------------------------
(* What the helpers of Frontier return.                                    *)

\* The numeric constants one by one.
LEMMA ConstantsType ==
    /\ LeaseTimeout \in Nat /\ QuarantineListing \in Nat /\ ListingMaxTTL \in Nat
    /\ MaxTime \in Nat /\ MaxTime >= 1 /\ MaxLag \in Nat /\ MaxSeq \in Nat
    /\ PendingScore \in Nat
    /\ 1..ReapBatchLimit \subseteq Nat \ {0} /\ 1..PromoteBatchLimit \subseteq Nat \ {0}
    /\ 0..SweepBatchLimit \subseteq Nat /\ 1..SchedulerBatchLimit \subseteq Nat \ {0}
<1>1. /\ LeaseTimeout \in Nat /\ QuarantineListing \in Nat /\ ListingMaxTTL \in Nat
      /\ MaxTime \in Nat /\ MaxTime >= 1 /\ MaxLag \in Nat /\ MaxSeq \in Nat
      /\ PendingScore \in Nat
  BY TimeAssumption
<1>2. /\ ReapBatchLimit \in Nat /\ PromoteBatchLimit \in Nat
      /\ SweepBatchLimit \in Nat /\ SchedulerBatchLimit \in Nat
  BY LimitAssumption
<1>3. QED
  BY <1>1, <1>2

\* The score PENDING lies beyond every time a script computes.
LEMMA PendingIsLater ==
    /\ PendingScore > MaxTime + ListingMaxTTL
    /\ PendingScore > MaxTime + QuarantineListing
BY TimeAssumption

\* The score PENDING lies beyond the clock.
LEMMA PendingAfterClock == PendingScore > MaxTime
BY ConstantsType, PendingIsLater

\* ZADD keeps a ZSET a ZSET and changes the score of one member.
LEMMA ZAddType ==
    ASSUME NEW S, NEW z, ZSet(z, S), NEW e \in S, NEW score \in Nat
    PROVE  ZSet(ZAdd(z, e, score), S)
BY DEF ZAdd, ZSet

\* ZADD changes the score of one member and no other.
LEMMA ZAddScores ==
    ASSUME NEW z, NEW e, NEW score
    PROVE  /\ DOMAIN ZAdd(z, e, score) = DOMAIN z \cup {e}
           /\ ZAdd(z, e, score)[e] = score
           /\ \A x \in DOMAIN z \ {e} : ZAdd(z, e, score)[x] = z[x]
BY DEF ZAdd

\* ZREM keeps a ZSET a ZSET and the scores of the members it leaves.
LEMMA ZRemType ==
    ASSUME NEW S, NEW z, ZSet(z, S), NEW R
    PROVE  ZSet(ZRem(z, R), S)
BY DEF ZRem, Restrict, ZSet

\* ZREM leaves the scores of the members it does not remove.
LEMMA ZRemScores ==
    ASSUME NEW z, NEW R
    PROVE  /\ DOMAIN ZRem(z, R) = DOMAIN z \ R
           /\ \A x \in DOMAIN z \ R : ZRem(z, R)[x] = z[x]
BY DEF ZRem, Restrict

\* A page holds members of its ZSET that are due, each once.
LEMMA PageMembers ==
    ASSUME NEW z, NEW t, NEW limit, NEW n \in Nat, NEW b \in Page(z, t, limit, n)
    PROVE  /\ b \in [1..n -> DOMAIN z]
           /\ \A i \in 1..n : z[b[i]] <= t
           /\ \A i, j \in 1..n : i < j => b[i] # b[j]
           /\ Range(b) = {b[i] : i \in 1..n}
BY DEF Page, Due, Range

\* INCR and a URL make a Job.
LEMMA MintType ==
    ASSUME seq \in Nat, NEW u \in URL
    PROVE  Mint(u) \in Job
BY DEF Mint, Job

\* A batch of INCRs makes Jobs.
LEMMA MintedType ==
    ASSUME seq \in Nat, NEW n \in Nat, NEW urls \in [1..n -> URL]
    PROVE  Minted(urls, n) \subseteq Job
BY DEF Minted, Job

\* The ladder lookup of luaFail stays inside the ladder.
LEMMA BackoffType ==
    ASSUME NEW class, NEW n \in Nat \ {0}
    PROVE  Backoff(class, n) \in Nat
<1>1. Ladder(class) \in Seq(Nat) /\ Ladder(class) # << >>
  BY TimeAssumption DEF Ladder
<1>2. Len(Ladder(class)) \in Nat \ {0}
  BY <1>1
<1>3. QED
  BY <1>1, <1>2 DEF Backoff

\* The barren backoff yields a time between 0 and the cap.
LEMMA RevisitTTLType ==
    ASSUME NEW u, NEW n
    PROVE  RevisitTTL(u, n) \in 0..ListingMaxTTL
BY TimeAssumption DEF RevisitTTL

\* The end of a quarantine is a time, forever being 0.
LEMMA QuarantineUntilType ==
    ASSUME NEW u \in URL, NEW t \in Nat
    PROVE  QuarantineUntil(u, t) \in Nat
<1>1. t + QuarantineListing \in Nat
  BY ConstantsType
<1>2. QED
  BY <1>1 DEF QuarantineUntil

\* The clock reading of a call is a time of the past or now.
LEMMA ReadingType ==
    ASSUME now \in 1..MaxTime, NEW t \in Reading
    PROVE  t \in Nat /\ t >= 1 /\ t <= now /\ t <= MaxTime
<1>1. now \in Nat /\ now <= MaxTime
  BY ConstantsType
<1>2. t \in 1..now
  BY DEF Reading
<1>3. QED
  BY <1>1, <1>2, ConstantsType

-----------------------------------------------------------------------------
(* Type correctness, one lemma per group of actions.                       *)

\* A resolved lease leaves the rest of the lease set and the hands typed.
LEMMA ReleaseType ==
    ASSUME TypeOK, NEW w \in Workers, Owns(w), Release(w)
    PROVE  /\ holds[w] \in Job /\ holds[w].url \in URL
           /\ ZSet(lease', Job)
           /\ processing' \subseteq Job
           /\ holds' \in [Workers -> Job \cup {NoJob}]
<1>1. holds[w] \in Job /\ holds[w].url \in URL
  BY DEF TypeOK, Owns, ZSet, Job
<1>2. ZSet(lease', Job)
  BY ZRemType DEF TypeOK, Release
<1>3. QED
  BY <1>1, <1>2 DEF TypeOK, Release

\* The admission scripts and SeedListing keep the types.
LEMMA AdmitType ==
    ASSUME TypeOK, Admit
    PROVE  TypeOK'
<1>1. ASSUME NEW u \in Videos, NEW t \in Reading, AdmitVideo(u, t)
      PROVE  TypeOK'
  <2>1. Mint(u) \in Job
    BY MintType DEF TypeOK, URL
  <2>2. ZSet(dead', URL)
    BY <1>1, ZRemType DEF TypeOK, AdmitVideo
  <2>3. ready' \subseteq Job /\ bloom' \subseteq Videos
    BY <1>1, <2>1 DEF TypeOK, AdmitVideo, VideoSuppressed, VideoNew, VideoUnclaimed
  <2>4. QED
    BY <1>1, <2>2, <2>3 DEF TypeOK, AdmitVideo, counters
<1>2. ASSUME NEW u \in Listings, NEW t \in Reading, AdmitListing(u, t)
      PROVE  TypeOK'
  <2>1. Mint(u) \in Job
    BY MintType DEF TypeOK, URL
  <2>2. ZSet(dead', URL)
    BY <1>2, ZRemType DEF TypeOK, AdmitListing
  <2>3. ZSet(listingNext', Listings)
    <3>1. ZSet(ZAdd(listingNext, u, PendingScore), Listings)
      BY ZAddType, ConstantsType DEF TypeOK
    <3>2. ZSet(listingNext, Listings)
      BY DEF TypeOK
    <3>3. listingNext' \in {ZAdd(listingNext, u, PendingScore), listingNext}
      BY <1>2 DEF AdmitListing
    <3>4. QED
      BY <3>1, <3>2, <3>3
  <2>4. QED
    BY <1>2, <2>1, <2>2, <2>3 DEF TypeOK, AdmitListing, counters
<1>3. CASE SeedListing
  <2>1. ZSet(listingNext', Listings)
    BY <1>3, ZAddType, UrlAssumption DEF TypeOK, SeedListing
  <2>2. QED
    BY <1>3, <2>1 DEF TypeOK, SeedListing, counters
<1>4. QED
  BY <1>1, <1>2, <1>3 DEF Admit

\* Lease keeps the types.
LEMMA LeaseType ==
    ASSUME TypeOK, NEW w \in Workers, NEW t \in Reading, Lease(w, t)
    PROVE  TypeOK'
<1>1. PICK j \in ready :
        /\ ready' = ready \ {j}
        /\ processing' = processing \cup {j}
        /\ lease' = ZAdd(lease, j, t + LeaseTimeout)
        /\ holds' = [holds EXCEPT ![w] = j]
  BY DEF Lease
<1>2. j \in Job /\ t + LeaseTimeout \in Nat
  <2>1. j \in Job
    BY DEF TypeOK
  <2>2. now \in 1..MaxTime
    BY DEF TypeOK
  <2>3. t \in Nat
    BY <2>2, ReadingType
  <2>4. QED
    BY <2>1, <2>3, ConstantsType
<1>3. ZSet(lease', Job)
  BY <1>1, <1>2, ZAddType DEF TypeOK
<1>4. QED
  BY <1>1, <1>2, <1>3 DEF TypeOK, Lease, counters

\* The writes Fail and Terminal share keep the types.
LEMMA BuryType ==
    ASSUME TypeOK, NEW u \in URL, NEW t \in Reading, Bury(u, QuarantineUntil(u, t))
    PROVE  /\ ZSet(dead', URL)
           /\ ZSet(listingNext', Listings)
           /\ attempts' \in [URL -> Nat]
           /\ strikes' \in [URL -> Nat]
<1> DEFINE until == QuarantineUntil(u, t)
<1>1. until \in Nat
  BY ReadingType, QuarantineUntilType DEF TypeOK
<1>2. ZSet(dead', URL)
  BY <1>1, ZAddType DEF TypeOK, Bury
<1>3. ZSet(listingNext', Listings)
  <2>1. CASE u \in Videos
    BY <2>1 DEF TypeOK, Bury, QuarantineUntil
  <2>2. CASE u \in Listings
    BY <1>1, <2>2, ZAddType DEF TypeOK, Bury
  <2>3. QED
    BY <2>1, <2>2 DEF URL
<1>4. QED
  BY <1>2, <1>3 DEF TypeOK, Bury, ClearFailures

\* Fail keeps the types on both of its branches.
LEMMA FailType ==
    ASSUME TypeOK, NEW w \in Workers, NEW t \in Reading, NEW class \in FailClass,
           Fail(w, class, t)
    PROVE  TypeOK'
<1> DEFINE u == holds[w].url
<1>1. /\ u \in URL
      /\ ZSet(lease', Job)
      /\ processing' \subseteq Job
      /\ holds' \in [Workers -> Job \cup {NoJob}]
  BY ReleaseType DEF Fail
<1>2. CASE FailDead(w, class, t)
  <2>1. Bury(u, QuarantineUntil(u, t)) /\ UNCHANGED <<seq, delayed>>
    BY <1>2 DEF FailDead
  <2>2. /\ ZSet(dead', URL)
        /\ ZSet(listingNext', Listings)
        /\ attempts' \in [URL -> Nat]
        /\ strikes' \in [URL -> Nat]
    BY <1>1, <2>1, BuryType
  <2>3. QED
    BY <1>1, <2>1, <2>2 DEF TypeOK, Fail
<1>3. CASE FailDelayed(w, class, t)
  <2>1. attempts[u] + 1 \in Nat \ {0} /\ StrikesAfter(u, class) \in Nat
    BY <1>1 DEF TypeOK, StrikesAfter
  <2>2. t + Backoff(class, attempts[u] + 1) \in Nat
    BY <2>1, BackoffType, ReadingType DEF TypeOK
  <2>3. Mint(u) \in Job
    BY <1>1, MintType DEF TypeOK
  <2>4. ZSet(delayed', Job)
    BY <1>3, <2>2, <2>3, ZAddType DEF TypeOK, FailDelayed
  <2>5. attempts' \in [URL -> Nat] /\ strikes' \in [URL -> Nat]
    BY <1>3, <2>1 DEF TypeOK, FailDelayed
  <2>6. QED
    BY <1>1, <1>3, <2>4, <2>5 DEF TypeOK, Fail, FailDelayed
<1>4. QED
  BY <1>2, <1>3 DEF Fail

\* CompleteListing keeps the types.
LEMMA CompleteListingType ==
    ASSUME TypeOK, NEW w \in Workers, NEW t \in Reading, NEW fresh \in BOOLEAN,
           CompleteListing(w, fresh, t)
    PROVE  TypeOK'
<1> DEFINE u == holds[w].url
           n == IF fresh THEN 0 ELSE barren[u] + 1
<1>1. /\ u \in URL /\ u \in Listings
      /\ ZSet(lease', Job)
      /\ processing' \subseteq Job
      /\ holds' \in [Workers -> Job \cup {NoJob}]
  BY ReleaseType DEF CompleteListing
<1>2. n \in Nat /\ barren' \in [URL -> Nat]
  BY <1>1 DEF TypeOK, CompleteListing
<1>3. t + RevisitTTL(u, n) \in Nat
  BY RevisitTTLType, ReadingType, ConstantsType DEF TypeOK
<1>4. ZSet(listingNext', Listings)
  BY <1>1, <1>3, ZAddType DEF TypeOK, CompleteListing
<1>5. ZSet(dead', URL)
  BY ZRemType DEF TypeOK, CompleteListing
<1>6. attempts' \in [URL -> Nat] /\ strikes' \in [URL -> Nat]
  BY <1>1 DEF TypeOK, CompleteListing, ClearFailures
<1>7. QED
  BY <1>1, <1>2, <1>4, <1>5, <1>6 DEF TypeOK, CompleteListing

\* Every call of a worker keeps the types.
LEMMA WorkType ==
    ASSUME TypeOK, Work
    PROVE  TypeOK'
<1> PICK w \in Workers :
      \/ LeaseNothing(w) \/ Ack(w) \/ Nack(w) \/ Drop(w)
      \/ \E t \in Reading :
            \/ Lease(w, t) \/ Terminal(w, t)
            \/ \E class \in FailClass : Fail(w, class, t)
            \/ \E fresh \in BOOLEAN : CompleteListing(w, fresh, t)
  BY DEF Work
<1>1. CASE LeaseNothing(w)
  BY <1>1 DEF TypeOK, LeaseNothing, vars
<1>2. CASE Ack(w)
  <2>1. ZSet(lease', Job) /\ processing' \subseteq Job /\ holds[w].url \in URL
        /\ holds' \in [Workers -> Job \cup {NoJob}]
    BY <1>2, ReleaseType DEF Ack
  <2>2. attempts' \in [URL -> Nat] /\ strikes' \in [URL -> Nat] /\ acked' \subseteq Videos
    BY <1>2, <2>1 DEF TypeOK, Ack, ClearFailures
  <2>3. QED
    BY <1>2, <2>1, <2>2 DEF TypeOK, Ack
<1>3. CASE Nack(w)
  <2>1. ZSet(lease', Job) /\ processing' \subseteq Job /\ holds[w].url \in URL
        /\ holds' \in [Workers -> Job \cup {NoJob}]
    BY <1>3, ReleaseType DEF Nack
  <2>2. Mint(holds[w].url) \in Job
    BY <2>1, MintType DEF TypeOK
  <2>3. QED
    BY <1>3, <2>1, <2>2 DEF TypeOK, Nack, counters
<1>4. CASE Drop(w)
  BY <1>4 DEF TypeOK, Drop, counters
<1>5. ASSUME NEW t \in Reading, Terminal(w, t)
      PROVE  TypeOK'
  <2>1. ZSet(lease', Job) /\ processing' \subseteq Job /\ holds[w].url \in URL
        /\ holds' \in [Workers -> Job \cup {NoJob}]
    BY <1>5, ReleaseType DEF Terminal
  <2>2. /\ ZSet(dead', URL)
        /\ ZSet(listingNext', Listings)
        /\ attempts' \in [URL -> Nat]
        /\ strikes' \in [URL -> Nat]
    BY <1>5, <2>1, BuryType DEF Terminal
  <2>3. QED
    BY <1>5, <2>1, <2>2 DEF TypeOK, Terminal
<1>6. QED
  BY <1>1, <1>2, <1>3, <1>4, <1>5, LeaseType, FailType, CompleteListingType

\* The jobs a batch of n members of Job gives new ids to.
LEMMA BatchType ==
    ASSUME TypeOK, NEW n \in Nat, NEW S, S \subseteq Job, NEW b \in [1..n -> S]
    PROVE  Minted([i \in 1..n |-> b[i].url], n) \subseteq Job
<1>1. [i \in 1..n |-> b[i].url] \in [1..n -> URL]
  BY DEF Job
<1>2. QED
  BY <1>1, MintedType DEF TypeOK

\* Every tick of a reconciler keeps the types.
LEMMA ReconcileType ==
    ASSUME TypeOK, Reconcile
    PROVE  TypeOK'
<1>1. ASSUME NEW t \in Reading, NEW n \in 1..ReapBatchLimit,
             NEW b \in Page(lease, t, ReapBatchLimit, n), ReapPage(n, b)
      PROVE  TypeOK'
  <2> n \in Nat
    BY ConstantsType
  <2>1. Minted([i \in 1..n |-> b[i].url], n) \subseteq Job
    <3>1. b \in [1..n -> DOMAIN lease] /\ DOMAIN lease \subseteq Job
      BY PageMembers DEF TypeOK, ZSet
    <3>2. QED
      BY <3>1, BatchType
  <2>2. ZSet(lease', Job)
    BY <1>1, ZRemType DEF TypeOK, ReapPage
  <2>3. QED
    BY <1>1, <2>1, <2>2 DEF TypeOK, ReapPage, counters
<1>2. ASSUME NEW t \in Reading, NEW n \in 1..PromoteBatchLimit,
             NEW b \in Page(delayed, t, PromoteBatchLimit, n), PromotePage(n, b)
      PROVE  TypeOK'
  <2> n \in Nat
    BY ConstantsType
  <2>1. Minted([i \in 1..n |-> b[i].url], n) \subseteq Job
    <3>1. b \in [1..n -> DOMAIN delayed] /\ DOMAIN delayed \subseteq Job
      BY PageMembers DEF TypeOK, ZSet
    <3>2. QED
      BY <3>1, BatchType
  <2>2. ZSet(delayed', Job)
    BY <1>2, ZRemType DEF TypeOK, PromotePage
  <2>3. QED
    BY <1>2, <2>1, <2>2 DEF TypeOK, PromotePage, counters
<1>3. ASSUME NEW n \in 0..SweepBatchLimit, NEW b \in [1..n -> Orphans], SweepPage(n, b)
      PROVE  TypeOK'
  <2>1. Minted([i \in 1..n |-> b[i].url], n) \subseteq Job
    <3>1. n \in Nat /\ Orphans \subseteq Job
      BY ConstantsType DEF TypeOK, Orphans, SweepWindow
    <3>2. QED
      BY <3>1, BatchType
  <2>2. QED
    BY <1>3, <2>1 DEF TypeOK, SweepPage, counters
<1>4. ASSUME NEW t \in Reading, NEW n \in 1..SchedulerBatchLimit,
             NEW b \in Page(listingNext, t, SchedulerBatchLimit, n),
             SchedulePage(t, n, b)
      PROVE  TypeOK'
  <2> DEFINE blocked == {u \in Range(b) : Blocked(u, t)}
             forever == {u \in blocked : dead[u] = 0}
             admitted == {i \in 1..n : b[i] \notin blocked}
             Rank(i) == Cardinality({k \in admitted : k <= i})
  <2>1. Cardinality(admitted) \in Nat /\ \A i \in admitted : Rank(i) \in Nat
    <3>1. n \in Nat /\ IsFiniteSet(1..n)
      BY ConstantsType, FS_Interval
    <3>2. IsFiniteSet(admitted) /\ \A i \in admitted : IsFiniteSet({k \in admitted : k <= i})
      BY <3>1, FS_Subset
    <3>3. QED
      BY <3>2, FS_CardinalityType
  <2>2. /\ ready' = ready \cup {[id |-> seq + Rank(i), url |-> b[i]] : i \in admitted}
        /\ seq' = seq + Cardinality(admitted)
        /\ listingNext' = [u \in DOMAIN listingNext \ forever |->
                             IF u \in blocked THEN dead[u]
                             ELSE IF u \in Range(b) THEN PendingScore
                             ELSE listingNext[u]]
        /\ dead' = ZRem(dead, Range(b) \ blocked)
        /\ UNCHANGED <<now, processing, lease, delayed, counters, bloom, holds,
                       acked>>
    BY <1>4 DEF SchedulePage
  <2>3. b \in [1..n -> Listings]
    BY PageMembers DEF TypeOK, ZSet
  <2>4. \A i \in admitted : [id |-> seq + Rank(i), url |-> b[i]] \in Job
    <3>1. \A i \in admitted : b[i] \in URL
      BY <2>3 DEF URL
    <3> HIDE DEF admitted, Rank
    <3>2. QED
      BY <2>1, <3>1 DEF TypeOK, Job
  <2>5. ZSet(dead', URL)
    BY <2>2, ZRemType DEF TypeOK
  <2>6. ZSet(listingNext', Listings)
    BY <2>2, TimeAssumption DEF TypeOK, ZSet, Blocked
  <2>7. ready' \subseteq Job /\ seq' \in Nat
    <3> HIDE DEF admitted, Rank
    <3>1. QED
      BY <2>1, <2>2, <2>4 DEF TypeOK
  <2>8. QED
    BY <2>2, <2>5, <2>6, <2>7 DEF TypeOK, counters
<1>5. QED
  BY <1>1, <1>2, <1>3, <1>4 DEF Reconcile, Reap, Promote, Sweep, RunListingScheduler

\* Every step keeps the types.
LEMMA TypeStep ==
    ASSUME TypeOK, [Next]_vars
    PROVE  TypeOK'
<1>1. CASE Tick
  BY <1>1, ConstantsType DEF TypeOK, Tick, counters
<1>2. CASE UNCHANGED vars
  BY <1>2 DEF TypeOK, vars
<1>3. QED
  BY <1>1, <1>2, AdmitType, WorkType, ReconcileType DEF Next

\* The empty keyspace has the types.
LEMMA TypeInit == Init => TypeOK
BY UrlAssumption, ConstantsType DEF Init, TypeOK, ZSet

\* The types of all variables hold in every reachable state, for any sets of
\* URLs and workers, any timeouts, ladders and batch limits.
THEOREM TypeCorrect == Spec => []TypeOK
BY TypeInit, TypeStep, PTL DEF Spec
=============================================================================
