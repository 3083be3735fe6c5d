------------------------------ MODULE Frontier ------------------------------
(***************************************************************************)
(* The Redis frontier of the crawler: every Lua script of                  *)
(* internal/storage/frontier.go is one atomic action, as Redis runs it.    *)
(*                                                                         *)
(* Abstractions, all exact for the properties below unless said otherwise: *)
(*  - "<jobID>|<url>" members are records [id, url].                       *)
(*  - The lists crawler:ready and crawler:processing are sets.  Every LPUSH*)
(*    carries an id INCRed in the same script, so the tail of a list is its*)
(*    member with the smallest id.                                         *)
(*  - ZSETs and the dead HASH are functions from members to scores; the    *)
(*    counter HASHes are total, an absent field being 0.                   *)
(*  - The Bloom filter is the set of URLs whose BF.ADD returned 1.  A false*)
(*    positive answers "already there" for a URL outside the set.          *)
(*  - Clients read the clock before the script runs: each call uses a      *)
(*    reading at most MaxLag old (clock skew between clients included).    *)
(***************************************************************************)
EXTENDS FrontierConfig

VARIABLES
    now,          \* wall clock, Unix seconds
    seq,          \* crawler:job:seq
    ready,        \* crawler:ready
    processing,   \* crawler:processing
    lease,        \* crawler:lease, member -> expiry
    delayed,      \* crawler:delayed, member -> next attempt
    dead,         \* crawler:dead, url -> until, 0 being forever
    attempts,     \* crawler:attempts
    strikes,      \* crawler:strikes
    listingNext,  \* crawler:listing:next, url -> due time or PendingScore
    barren,       \* crawler:listing:barren
    bloom,        \* crawler:bloom
    holds,        \* the *Job each worker has leased and not yet resolved
    acked         \* history: the URLs whose job was Acked

counters == <<attempts, strikes, barren>>
vars == <<now, seq, ready, processing, lease, delayed, dead, attempts, strikes,
          listingNext, barren, bloom, holds, acked>>

-----------------------------------------------------------------------------
(* Helpers.                                                                *)

\* Mutant of Reading: clients whose clocks run ahead of Redis's.
ReadingAhead == {t \in 1..now + 1 : now - t <= MaxLag}

\* The clock readings a call executed now may carry.
Reading == {t \in 1..now : now - t <= MaxLag}

\* The jobs n consecutive INCR/LPUSH pairs create for urls[1], ..., urls[n].
Minted(urls, n) == {[id |-> seq + i, url |-> urls[i]] : i \in 1..n}
Mint(u) == [id |-> seq + 1, url |-> u]

\* Mutant of Blocked: a video's 0 taken for a time that has passed.
BlockedByTime(u, t) == u \in DOMAIN dead /\ dead[u] > t

\* A url on the dead hash that is out for good, or quarantined beyond t.
Blocked(u, t) == u \in DOMAIN dead /\ (dead[u] = 0 \/ dead[u] > t)

BloomFull == Cardinality(bloom) >= BloomCapacity

Live == ready \cup processing \cup DOMAIN delayed
HasJob(u) == \E j \in Live : j.url = u
Pending(u) == u \in DOMAIN listingNext /\ listingNext[u] = PendingScore

-----------------------------------------------------------------------------
Init ==
    /\ now = 1 /\ seq = 0
    /\ ready = {} /\ processing = {}
    /\ lease = << >> /\ delayed = << >> /\ dead = << >> /\ listingNext = << >>
    /\ attempts = [u \in URL |-> 0]
    /\ strikes = [u \in URL |-> 0]
    /\ barren = [u \in URL |-> 0]
    /\ bloom = {}
    /\ holds = [w \in Workers |-> NoJob]
    /\ acked = {}

Tick ==
    /\ now < MaxTime
    /\ now' = now + 1
    /\ UNCHANGED <<seq, ready, processing, lease, delayed, dead, counters,
                   listingNext, bloom, holds, acked>>

-----------------------------------------------------------------------------
(* Admission.  A blocked url is Suppressed and changes nothing.            *)

\* BF.ADD answers 0: a duplicate or a false positive.  Only the id is spent.
VideoSuppressed ==
    /\ bloom # {}
    /\ UNCHANGED <<ready, bloom>>

\* Mutant of VideoNew: the claim is left to the Upsert of the video.
VideoNewUnclaimed(u) ==
    /\ u \notin bloom
    /\ ~BloomFull
    /\ ready' = ready \cup {Mint(u)}
    /\ UNCHANGED bloom

VideoNew(u) ==
    /\ u \notin bloom
    /\ ~BloomFull
    /\ ready' = ready \cup {Mint(u)}
    /\ bloom' = bloom \cup {u}

\* BF.ADD fails on a full filter: the job just pushed stays, unclaimed.
VideoUnclaimed(u) ==
    /\ u \notin bloom
    /\ BloomFull
    /\ ready' = ready \cup {Mint(u)}
    /\ UNCHANGED bloom

AdmitVideo(u, t) ==
    /\ seq < MaxSeq
    /\ ~Blocked(u, t)
    /\ VideoSuppressed \/ VideoNew(u) \/ VideoUnclaimed(u)
    /\ dead' = ZRem(dead, {u})
    /\ seq' = seq + 1
    /\ UNCHANGED <<now, processing, lease, delayed, counters, listingNext,
                   holds, acked>>

\* Mutant of ListingDue: only PENDING keeps a listing out.
ListingNotPending(u, t) == ~Pending(u)

\* Never seen, or seen and due: PendingScore is never due.
ListingDue(u, t) == u \in DOMAIN listingNext => listingNext[u] <= t

AdmitListing(u, t) ==
    /\ ~Blocked(u, t)
    /\ dead' = ZRem(dead, {u})
    /\ IF ListingDue(u, t)
       THEN /\ ready' = ready \cup {Mint(u)}
            /\ seq' = seq + 1
            /\ listingNext' = ZAdd(listingNext, u, PendingScore)
       ELSE UNCHANGED <<ready, seq, listingNext>>
    /\ UNCHANGED <<now, processing, lease, delayed, counters, bloom, holds,
                   acked>>

SeedListing ==
    /\ BaseUrl \notin DOMAIN listingNext
    /\ listingNext' = ZAdd(listingNext, BaseUrl, 0)
    /\ UNCHANGED <<now, seq, ready, processing, lease, delayed, dead, counters,
                   bloom, holds, acked>>

-----------------------------------------------------------------------------
(* Leases and their resolution.                                            *)

Lease(w, t) ==
    /\ holds[w] = NoJob
    /\ \E j \in ready :
          /\ \A k \in ready : j.id <= k.id
          /\ ready' = ready \ {j}
          /\ processing' = processing \cup {j}
          /\ lease' = ZAdd(lease, j, t + LeaseTimeout)
          /\ holds' = [holds EXCEPT ![w] = j]
    /\ UNCHANGED <<now, seq, delayed, dead, counters, listingNext, bloom, acked>>

\* Lease answers nil and the worker sleeps.
LeaseNothing(w) ==
    /\ holds[w] = NoJob
    /\ ready = {}
    /\ UNCHANGED vars

\* Mutant of Owns: resolutions are not fenced.
OwnsUnfenced(w) == holds[w] # NoJob

\* The fencing test every resolution starts with: ZREM lease member = 1.
Owns(w) == holds[w] \in DOMAIN lease

\* Mutant of Release: no LREM from processing.
ReleaseLeaseOnly(w) ==
    /\ lease' = ZRem(lease, {holds[w]})
    /\ holds' = [holds EXCEPT ![w] = NoJob]
    /\ UNCHANGED processing

Release(w) ==
    /\ lease' = ZRem(lease, {holds[w]})
    /\ processing' = processing \ {holds[w]}
    /\ holds' = [holds EXCEPT ![w] = NoJob]

ClearFailures(u) ==
    /\ attempts' = [attempts EXCEPT ![u] = 0]
    /\ strikes' = [strikes EXCEPT ![u] = 0]

\* Workers Ack video pages only.
Ack(w) ==
    /\ Owns(w)
    /\ holds[w].url \in Videos
    /\ Release(w)
    /\ ClearFailures(holds[w].url)
    /\ acked' = acked \cup {holds[w].url}
    /\ UNCHANGED <<now, seq, ready, delayed, dead, listingNext, barren, bloom>>

Nack(w) ==
    /\ seq < MaxSeq
    /\ Owns(w)
    /\ Release(w)
    /\ ready' = ready \cup {Mint(holds[w].url)}
    /\ seq' = seq + 1
    /\ UNCHANGED <<now, delayed, dead, counters, listingNext, bloom, acked>>

\* Mutants of Bury: without the until > 0 test; without the schedule.
BuryScheduleAll(u, until) ==
    /\ listingNext' = ZAdd(listingNext, u, until)
    /\ dead' = ZAdd(dead, u, until)
    /\ ClearFailures(u)
BuryUnscheduled(u, until) ==
    /\ dead' = ZAdd(dead, u, until)
    /\ ClearFailures(u)
    /\ UNCHANGED listingNext

\* until > 0 reschedules a listing, 0 leaves a video with no way back.
Bury(u, until) ==
    /\ listingNext' = IF until > 0 THEN ZAdd(listingNext, u, until)
                      ELSE listingNext
    /\ dead' = ZAdd(dead, u, until)
    /\ ClearFailures(u)

Terminal(w, t) ==
    /\ Owns(w)
    /\ Release(w)
    /\ Bury(holds[w].url, QuarantineUntil(holds[w].url, t))
    /\ UNCHANGED <<now, seq, ready, delayed, barren, bloom, acked>>

StrikesAfter(u, class) == strikes[u] + (IF class = "Strikeable" THEN 1 ELSE 0)
\* Mutant of Exhausted: one strike too many.
ExhaustedLate(u, class) ==
    class = "Strikeable" /\ StrikesAfter(u, class) > MaxStrikes
Exhausted(u, class) ==
    class = "Strikeable" /\ StrikesAfter(u, class) >= MaxStrikes

FailDead(w, class, t) ==
    LET u == holds[w].url
    IN  /\ Exhausted(u, class)
        /\ Bury(u, QuarantineUntil(u, t))
        /\ UNCHANGED <<seq, delayed>>

FailDelayed(w, class, t) ==
    LET u == holds[w].url
        n == attempts[u] + 1
    IN  /\ ~Exhausted(u, class)
        /\ attempts' = [attempts EXCEPT ![u] = n]
        /\ strikes' = [strikes EXCEPT ![u] = StrikesAfter(u, class)]
        /\ delayed' = ZAdd(delayed, Mint(u), t + Backoff(class, n))
        /\ seq' = seq + 1
        /\ UNCHANGED <<listingNext, dead>>

Fail(w, class, t) ==
    /\ Owns(w)
    /\ Release(w)
    /\ FailDead(w, class, t) \/ FailDelayed(w, class, t)
    /\ UNCHANGED <<now, ready, barren, bloom, acked>>

\* fresh: the page led to at least one New admission.
CompleteListing(w, fresh, t) ==
    LET u == holds[w].url
        n == IF fresh THEN 0 ELSE barren[u] + 1
    IN  /\ Owns(w)
        /\ u \in Listings
        /\ Release(w)
        /\ barren' = [barren EXCEPT ![u] = n]
        /\ listingNext' = ZAdd(listingNext, u, t + RevisitTTL(u, n))
        /\ dead' = ZRem(dead, {u})
        /\ ClearFailures(u)
        /\ UNCHANGED <<now, seq, ready, delayed, bloom, acked>>

\* The worker is done with a job without resolving it: its call answered
\* STALE or never arrived, or its process died.
Drop(w) ==
    /\ holds[w] # NoJob
    /\ holds' = [holds EXCEPT ![w] = NoJob]
    /\ UNCHANGED <<now, seq, ready, processing, lease, delayed, dead, counters,
                   listingNext, bloom, acked>>

-----------------------------------------------------------------------------
(* Reconcilers.  A tick that finds nothing to do changes nothing; only that*)
(* of the sweeper, which has nothing to do while scripts run to their end, *)
(* is a step of its own.                                                   *)

\* Mutant of ReapPage: requeues the members themselves, minting no ids.
ReapPageSameIds(n, b) ==
    /\ lease' = ZRem(lease, Range(b))
    /\ ready' = ready \cup Range(b)
    /\ processing' = processing \ Range(b)
    /\ UNCHANGED <<now, seq, delayed, dead, counters, listingNext, bloom,
                   holds, acked>>

ReapPage(n, b) ==
    /\ lease' = ZRem(lease, Range(b))
    /\ ready' = ready \cup Minted([i \in 1..n |-> b[i].url], n)
    /\ processing' = processing \ Range(b)
    /\ seq' = seq + n
    /\ UNCHANGED <<now, delayed, dead, counters, listingNext, bloom, holds,
                   acked>>

\* Mutants of Reap: a score one second ahead counts as expired; the timeout
\* is subtracted from scores that are expiries already.
ReapEarly(t) ==
    \E n \in 1..ReapBatchLimit :
    \E b \in Page(lease, t + 1, ReapBatchLimit, n) : ReapPage(n, b)
ReapSubtracting(t) ==
    \E n \in 1..ReapBatchLimit :
    \E b \in Page(lease, t - LeaseTimeout, ReapBatchLimit, n) : ReapPage(n, b)

Reap(t) ==
    \E n \in 1..ReapBatchLimit :
    \E b \in Page(lease, t, ReapBatchLimit, n) : ReapPage(n, b)

\* Mutants of PromotePage: only the first item is taken off delayed; the items
\* are taken off it and not pushed.
PromotePageFirstOnly(n, b) ==
    /\ ready' = ready \cup Minted([i \in 1..n |-> b[i].url], n)
    /\ delayed' = ZRem(delayed, {b[1]})
    /\ seq' = seq + n
    /\ UNCHANGED <<now, processing, lease, dead, counters, listingNext, bloom,
                   holds, acked>>
PromotePageUnpushed(n, b) ==
    /\ delayed' = ZRem(delayed, Range(b))
    /\ seq' = seq + n
    /\ UNCHANGED <<now, ready, processing, lease, dead, counters, listingNext,
                   bloom, holds, acked>>

PromotePage(n, b) ==
    /\ ready' = ready \cup Minted([i \in 1..n |-> b[i].url], n)
    /\ delayed' = ZRem(delayed, Range(b))
    /\ seq' = seq + n
    /\ UNCHANGED <<now, processing, lease, dead, counters, listingNext, bloom,
                   holds, acked>>

Promote(t) ==
    \E n \in 1..PromoteBatchLimit :
    \E b \in Page(delayed, t, PromoteBatchLimit, n) : PromotePage(n, b)

\* LRANGE processing -limit -1: the oldest leased members.
SweepWindow ==
    {j \in processing :
        Cardinality({k \in processing : k.id < j.id}) < SweepBatchLimit}

Orphans == SweepWindow \ DOMAIN lease

\* The orphans in the window, newest first.
SweepPage(n, b) ==
    /\ Range(b) = Orphans
    /\ \A i, j \in 1..n : i < j => b[i].id > b[j].id
    /\ ready' = ready \cup Minted([i \in 1..n |-> b[i].url], n)
    /\ processing' = processing \ Range(b)
    /\ seq' = seq + n
    /\ UNCHANGED <<now, lease, delayed, dead, counters, listingNext, bloom,
                   holds, acked>>

\* The page is empty when the window holds no orphan.
Sweep ==
    \E n \in 0..SweepBatchLimit : \E b \in [1..n -> Orphans] : SweepPage(n, b)

\* Mutants of SchedulePage: the entry of an ended quarantine stays on dead; all that
\* is due is marked PENDING, the page only is queued.
SchedulePageKeepsDead(t, n, b) ==
    /\ ready' = ready \cup Minted(b, n)
    /\ seq' = seq + n
    /\ listingNext' = [u \in DOMAIN listingNext |->
                         IF u \in Range(b) THEN PendingScore ELSE listingNext[u]]
    /\ UNCHANGED <<now, processing, lease, delayed, dead, counters, bloom, holds,
                   acked>>
SchedulePageMarksDue(t, n, b) ==
    /\ ready' = ready \cup Minted(b, n)
    /\ seq' = seq + n
    /\ listingNext' = [u \in DOMAIN listingNext |->
                         IF u \in Due(listingNext, t) THEN PendingScore ELSE listingNext[u]]
    /\ dead' = ZRem(dead, Range(b))
    /\ UNCHANGED <<now, processing, lease, delayed, counters, bloom, holds,
                   acked>>

\* A due listing that is out for good leaves the schedule, one still in
\* quarantine moves to the end of it, any other gets a job.
SchedulePage(t, n, b) ==
    LET blocked == {u \in Range(b) : Blocked(u, t)}
        forever == {u \in blocked : dead[u] = 0}
        admitted == {i \in 1..n : b[i] \notin blocked}
        Rank(i) == Cardinality({k \in admitted : k <= i})
    IN  /\ ready' = ready \cup {[id |-> seq + Rank(i), url |-> b[i]] : i \in admitted}
        /\ seq' = seq + Cardinality(admitted)
        /\ listingNext' = [u \in DOMAIN listingNext \ forever |->
                             IF u \in blocked THEN dead[u]
                             ELSE IF u \in Range(b) THEN PendingScore
                             ELSE listingNext[u]]
        /\ dead' = ZRem(dead, Range(b) \ blocked)
        /\ UNCHANGED <<now, processing, lease, delayed, counters, bloom, holds,
                       acked>>

RunListingScheduler(t) ==
    \E n \in 1..SchedulerBatchLimit :
    \E b \in Page(listingNext, t, SchedulerBatchLimit, n) : SchedulePage(t, n, b)

-----------------------------------------------------------------------------
Admit ==
    \/ \E u \in Videos, t \in Reading : AdmitVideo(u, t)
    \/ \E u \in Listings, t \in Reading : AdmitListing(u, t)
    \/ SeedListing

Work ==
    \E w \in Workers :
        \/ LeaseNothing(w) \/ Ack(w) \/ Nack(w) \/ Drop(w)
        \/ \E t \in Reading :
              \/ Lease(w, t) \/ Terminal(w, t)
              \/ \E class \in FailClass : Fail(w, class, t)
              \/ \E fresh \in BOOLEAN : CompleteListing(w, fresh, t)

Reconcile ==
    \/ Sweep
    \/ \E t \in Reading : Reap(t) \/ Promote(t) \/ RunListingScheduler(t)

Next == Tick \/ Admit \/ Work \/ Reconcile

Spec == Init /\ [][Next]_vars

\* The clock advances and the reconcilers tick for as long as the crawler
\* runs.  Nothing is assumed of the workers.
Fairness ==
    /\ WF_vars(Tick)
    /\ WF_vars(\E t \in Reading : Reap(t))
    /\ WF_vars(\E t \in Reading : Promote(t))
    /\ WF_vars(\E t \in Reading : RunListingScheduler(t))

FairSpec == Spec /\ Fairness

-----------------------------------------------------------------------------
(* Properties.                                                             *)

\* Types of the fourteen variables.
ZSet(z, S) == DOMAIN z \subseteq S /\ z \in [DOMAIN z -> Nat]

TypeOK ==
    /\ now \in 1..MaxTime
    /\ seq \in Nat
    /\ ready \subseteq Job
    /\ processing \subseteq Job
    /\ ZSet(lease, Job)
    /\ ZSet(delayed, Job)
    /\ ZSet(dead, URL)
    /\ ZSet(listingNext, Listings)
    /\ attempts \in [URL -> Nat]
    /\ strikes \in [URL -> Nat]
    /\ barren \in [URL -> Nat]
    /\ bloom \subseteq Videos
    /\ holds \in [Workers -> Job \cup {NoJob}]
    /\ acked \subseteq Videos

\* frontier.go:30 claims a job id is minted fresh on every requeue and leased
\* at most once, so that ZREM on the lease set can be the fencing token.  A
\* member in a worker's hands is therefore never leasable again, and two
\* workers never hold the same one, whoever was reaped, nacked or dropped.
LeaseAtMostOnce ==
    /\ \A w \in Workers : holds[w] \notin ready \cup DOMAIN delayed
    /\ \A v, w \in Workers : holds[v] = holds[w] /\ holds[v] # NoJob => v = w

\* A URL that is scheduled as a listing, or claimed in the Bloom filter, has
\* one job at most over all three queues: the retries, the reaper, the
\* promoter, the scheduler and new admissions never duplicate work.
OneJobPerUrl ==
    \A j, k \in Live : j.url = k.url /\ j.url \in Listings \cup bloom => j = k

\* worker.go:124 claims that retrying a parent may re-admit its whole set of
\* links because admission is idempotent for urls admitted before.  It is not
\* once the Bloom filter is full: BF.ADD comes after the LPUSH it should guard.
AdmissionIdempotent == \A j, k \in Live : j.url = k.url => j = k

\* A listing is marked PENDING exactly while it has a job (frontier.go:47):
\* PENDING without a job would be a listing that is never visited again.
PendingIffLive == \A u \in Listings : Pending(u) <=> HasJob(u)

\* A member is in processing exactly while it has a lease: while every script
\* runs to its end the sweeper has nothing to do.
ProcessingLeased == processing = DOMAIN lease

\* A video claimed in the Bloom filter can never be admitted again, so it has
\* a job, or was Acked, or is on the dead hash, and only one of these.
ClaimAccounted ==
    \A v \in bloom :
        /\ HasJob(v) \/ v \in acked \/ v \in DOMAIN dead
        /\ ~(HasJob(v) /\ v \in acked)
        /\ ~(HasJob(v) /\ v \in DOMAIN dead)
        /\ ~(v \in acked /\ v \in DOMAIN dead)

\* A quarantined listing is on the schedule for the very end of its quarantine
\* (the "listing:next BEFORE dead" writes), never lost and never out for good.
QuarantineScheduled ==
    \A u \in Listings \cap DOMAIN dead :
        dead[u] > 0 /\ u \in DOMAIN listingNext /\ listingNext[u] = dead[u]

\* The failure counters outlive the jobs they count, keyed by url: they are
\* cleared with the last job, and a url one strike too many is dead.
FailureAccounting ==
    \A u \in URL :
        /\ strikes[u] <= attempts[u]
        /\ strikes[u] < MaxStrikes
        /\ attempts[u] > 0 => HasJob(u)

\* Work never starts early: a job comes back from delayed, and a listing that
\* has none gets one, only when its time has come.
NeverEarly ==
    [][ /\ \A j \in DOMAIN delayed \ DOMAIN delayed' : delayed[j] <= now
        /\ \A u \in Listings \cap DOMAIN listingNext :
              ~HasJob(u) /\ HasJob(u)' => listingNext[u] <= now ]_vars

\* A lease ends only by expiry or by the worker that holds its member: a late
\* resolution never releases the job of the worker that took over the url.
LeaseEndsByOwner ==
    [][ \A j \in DOMAIN lease \ DOMAIN lease' :
          \/ lease[j] <= now
          \/ \E w \in Workers : holds[w] = j /\ holds'[w] = NoJob ]_vars

\* The job of a worker that died or lost its resolution returns to ready.
AbandonedReturns ==
    \A u \in URL :
        (\E j \in DOMAIN lease :
            /\ j.url = u /\ lease[j] <= MaxTime
            /\ \A w \in Workers : holds[w] # j)
        ~> (\E k \in ready : k.url = u)

\* A backed-off job returns to ready when its delay is over.
DelayedReturns ==
    \A u \in URL :
        (\E j \in DOMAIN delayed : j.url = u /\ delayed[j] <= MaxTime)
        ~> (\E k \in ready : k.url = u)

\* A scheduled listing, quarantined ones included, gets its job when due.
DueListingReturns ==
    \A u \in Listings :
        (u \in DOMAIN listingNext /\ listingNext[u] <= MaxTime) ~> HasJob(u)

-----------------------------------------------------------------------------
(* What the invariants above rest on; together they are inductive.         *)

\* No live or held member carries an id that is yet to be minted.
IdsMinted ==
    /\ \A j \in Live : j.id <= seq
    /\ \A w \in Workers : holds[w] # NoJob => holds[w].id <= seq

QueuesDisjoint ==
    /\ ready \cap processing = {}
    /\ ready \cap DOMAIN delayed = {}
    /\ processing \cap DOMAIN delayed = {}

\* Facts about members, whatever their urls.
MemberInv == IdsMinted /\ QueuesDisjoint /\ LeaseAtMostOnce /\ ProcessingLeased

\* Only on a full filter does a video have a job or a past without a claim.
UnclaimedWhenFull ==
    \A v \in Videos \ bloom :
        HasJob(v) \/ v \in acked \/ v \in DOMAIN dead => BloomFull

VideosDieForever == \A v \in Videos \cap DOMAIN dead : dead[v] = 0

\* Facts about urls.
UrlInv ==
    /\ OneJobPerUrl
    /\ PendingIffLive
    /\ UnclaimedWhenFull
    /\ VideosDieForever
    /\ ClaimAccounted
    /\ QuarantineScheduled
    /\ FailureAccounting

IInv == TypeOK /\ MemberInv /\ UrlInv
=============================================================================
