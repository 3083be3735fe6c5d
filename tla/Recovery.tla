------------------------------ MODULE Recovery -------------------------------
(***************************************************************************)
(* Redis loses its memory under the crawler.  docker-compose.yml runs Redis *)
(* with no append-only file and no save points: the keyspace outlives a    *)
(* crash of Redis only in the last dump, which runSnapshotter asks for     *)
(* every six hours and the operator with make snapshot.  The crawler, if   *)
(* it runs, keeps running; its client reconnects.  What the program has    *)
(* against this is the startup (BloomInit, BloomVerify, the reconciliation *)
(* with MongoDB, SeedListing), the bloom monitor, and make reset-bloom.    *)
(*                                                                         *)
(* The process is started again as in Crawler.  Only the Deployment does    *)
(* that by itself, and its Redis keeps an append-only file; beside the     *)
(* Redis of docker-compose.yml it takes the operator's make resume.        *)
(*                                                                         *)
(* The variables of Crawler are joined by the shape of the filter and the  *)
(* dump.  A dump is the keyspace at one instant, as BGSAVE's fork takes it.*)
(***************************************************************************)
EXTENDS Crawler

CONSTANTS MaxSnapshots, MaxOutages    \* bounds

ASSUME OutageAssumption ==
    /\ {MaxSnapshots, MaxOutages} \subseteq Nat
    /\ IsFiniteSet(Videos) /\ Cardinality(Videos) <= BloomCapacity

VARIABLES
    filter,     \* the key crawler:bloom: what created it, if it exists
    dump,       \* dump.rdb
    snapshots,  \* so far
    outages,    \* so far
    claims,     \* history: what became of the claims of stored videos
    fetched     \* history: pages fetched since the last outage

redis == <<filter, dump, snapshots, outages, claims, fetched>>
allVars == <<vars, redis>>

Shapes == {"missing", "reserved", "default"}

Keyspace ==
    [seq |-> seq, ready |-> ready, processing |-> processing, lease |-> lease,
     delayed |-> delayed, dead |-> dead, attempts |-> attempts,
     strikes |-> strikes, listingNext |-> listingNext, barren |-> barren,
     bloom |-> bloom, filter |-> filter]

\* What Redis starts with when there is no dump.rdb.
NoKeys ==
    LET zero == [u \in URL |-> 0]
    IN  [seq |-> 0, ready |-> {}, processing |-> {}, lease |-> << >>,
         delayed |-> << >>, dead |-> << >>, attempts |-> zero, strikes |-> zero,
         listingNext |-> << >>, barren |-> zero, bloom |-> {},
         filter |-> "missing"]

-----------------------------------------------------------------------------
InitRecovery ==
    /\ Init
    /\ filter = "missing" /\ dump = NoKeys
    /\ snapshots = 0 /\ outages = 0
    /\ claims = "kept" /\ fetched = {}

\* BGSAVE.  A dump no outage is left to read is not taken (bound).
Snapshot ==
    /\ snapshots < MaxSnapshots /\ outages < MaxOutages
    /\ snapshots' = snapshots + 1
    /\ dump' = Keyspace
    /\ UNCHANGED <<vars, filter, outages, claims, fetched>>

\* Redis dies and is back with its last dump; MongoDB, the clock and the
\* crawler go on.  The dump is forgotten with the last outage (bound).
Outage ==
    /\ outages < MaxOutages
    /\ outages' = outages + 1
    /\ seq' = dump.seq /\ ready' = dump.ready
    /\ processing' = dump.processing /\ lease' = dump.lease
    /\ delayed' = dump.delayed /\ dead' = dump.dead
    /\ attempts' = dump.attempts /\ strikes' = dump.strikes
    /\ listingNext' = dump.listingNext /\ barren' = dump.barren
    /\ bloom' = dump.bloom /\ filter' = dump.filter
    /\ dump' = IF outages' = MaxOutages THEN NoKeys ELSE dump
    /\ claims' = IF claims = "kept" THEN "rolledBack" ELSE claims
    /\ fetched' = {}
    /\ UNCHANGED <<now, holds, acked, work, outside, history, snapshots>>

\* Mutants of Start: without BloomInit the reconciliation creates the filter;
\* only a filter that was missing is reconciled, as redis.go:130 asks.
StartUnreserved ==
    /\ filter # "default"
    /\ Boot
    /\ UNCHANGED filter
    /\ claims' = IF claims = "rolledBack" THEN "kept" ELSE claims
    /\ UNCHANGED <<dump, snapshots, outages, fetched>>

StartMissingOnly ==
    /\ filter # "default"
    /\ Launch(IF filter = "missing" THEN stored ELSE {})
    /\ filter' = "reserved"
    /\ claims' = IF claims = "rolledBack" THEN "kept" ELSE claims
    /\ UNCHANGED <<dump, snapshots, outages, fetched>>

\* BloomInit reserves a missing filter, BloomVerify accepts a reserved one and
\* the rest is Boot.  A default filter is log.Fatal: the process stays down.
Start ==
    /\ filter # "default"
    /\ Boot
    /\ filter' = "reserved"
    /\ claims' = IF claims = "rolledBack" THEN "kept" ELSE claims
    /\ UNCHANGED <<dump, snapshots, outages, fetched>>

\* make reset-bloom: as the message of BloomVerify asks, or untimely.
BloomReset ==
    /\ filter # "missing"
    /\ \/ filter = "default" /\ ~Running /\ UNCHANGED faults
       \/ Fault
    /\ bloom' = {} /\ filter' = "missing" /\ claims' = "reset"
    /\ UNCHANGED <<now, seq, ready, processing, lease, delayed, dead, attempts,
                   strikes, listingNext, barren, holds, acked, work, stored,
                   cancelled, leaked, history, dump, snapshots, outages,
                   fetched>>

\* Mutants of BloomMonitor: only a filter that is gone is noticed; only one of
\* the wrong shape.
BloomMonitorMissingOnly ==
    /\ Running
    /\ filter = "missing"
    /\ cancelled' = TRUE
    /\ UNCHANGED <<frontier, work, stored, faults, leaked, history, redis>>
BloomMonitorShapeOnly ==
    /\ Running
    /\ filter = "default"
    /\ cancelled' = TRUE
    /\ UNCHANGED <<frontier, work, stored, faults, leaked, history, redis>>

\* runBloomMonitor: BloomVerify fails, stopFn.  (A transient error of BF.INFO
\* does the same; it is among the faults of Shutdown.)
BloomMonitor ==
    /\ Running
    /\ filter # "reserved"
    /\ cancelled' = TRUE
    /\ UNCHANGED <<frontier, work, stored, faults, leaked, history, redis>>

\* A step of the crawler.  BF.ADD on a missing filter creates a default one.
Step(A) ==
    /\ A
    /\ filter' = IF filter = "missing" /\ bloom' # {} THEN "default" ELSE filter
    /\ fetched' = fetched \cup
          {holds[w].url : w \in {v \in Workers : pc[v] = "fetch" /\ pc'[v] \in {"store", "admit"}}}
    /\ UNCHANGED <<dump, snapshots, outages, claims>>

NextRecovery ==
    \/ Start \/ Snapshot \/ Outage \/ BloomReset \/ BloomMonitor
    \/ Step(Shutdown) \/ Step(Crash) \/ Step(Tick)
    \/ Step(Reap) \/ Step(Promote) \/ Step(RunListingScheduler) \/ Step(Sweep)
    \/ \E w \in Workers : Step(Work(w))

SpecRecovery == InitRecovery /\ [][NextRecovery]_allVars

\* As in Crawler, and the bloom monitor ticks.  No operator is assumed.
FairnessRecovery ==
    /\ WF_allVars(Start) /\ WF_allVars(Step(Tick)) /\ WF_allVars(BloomMonitor)
    /\ WF_allVars(Step(Running /\ Reap))
    /\ WF_allVars(Step(Running /\ Promote))
    /\ WF_allVars(Step(Running /\ RunListingScheduler))
    /\ \A w \in Workers : WF_allVars(Step(Work(w)))

FairSpecRecovery == SpecRecovery /\ FairnessRecovery

-----------------------------------------------------------------------------
(* Properties.                                                             *)

\* Types of the variables of this module; a missing filter holds nothing.
TypeOKRecovery ==
    /\ TypeOK
    /\ filter \in Shapes
    /\ filter = "missing" => bloom = {}
    /\ DOMAIN dump = DOMAIN NoKeys /\ dump.filter \in Shapes
    /\ snapshots \in 0..MaxSnapshots /\ outages \in 0..MaxOutages
    /\ claims \in {"kept", "rolledBack", "reset"} /\ fetched \subseteq URL

\* main.go, reconcileBloomFromMongo: a restored filter is stale, and the gap is
\* closed at startup.  From a startup to the next outage every stored video is
\* claimed, so none is fetched again, whatever dump the frontier came from and
\* whatever job of the past is still in a worker's hands.  Once the filter was
\* reset it says nothing more.
StoredClaimed == Up /\ claims = "kept" => stored \subseteq bloom

\* scheduler.Run: a broken filter halts the crawl instead of degrading the
\* deduplication of admissions silently.
BrokenFilterHalts ==
    (Up /\ filter # "reserved") ~> (~Up \/ filter = "reserved")

\* The startup refuses the filter until the operator deletes it.
RefusedForGood == <>[](~Up /\ filter = "default")

\* The revisit of a listing not fetched since the outage is out of time.
RevisitOutOfTime ==
    \E u \in DOMAIN listingNext \ fetched : listingNext[u] \in MaxTime + 1 .. PendingScore - 1

Harvested(S) ==
    <>[](\/ OutOfTime \/ RevisitOutOfTime
         \/ S \cap Videos \subseteq stored \cup DOMAIN dead \cup misjudged)

\* What the schedule leads back to whatever Redis forgot: the links of
\* listings that listings alone lead to.
Listed[n \in Nat] ==
    IF n = 0 THEN {BaseUrl}
    ELSE Listed[n - 1] \cup UNION {Range(Links[u]) : u \in Listed[n - 1] \cap Listings}

\* scheduler.go:50, after an outage the frontier re-derives itself by crawling:
\* a video some listing links to is stored or dead in the end, unless the
\* filter was recreated in the wrong shape and nobody deletes it.
ListedRecovered == RefusedForGood \/ Harvested(Listed[Cardinality(URL)])

\* The same of every video the web leads to: "duplicate work, not lost data".
AllRecovered == RefusedForGood \/ Harvested(Reachable)
=============================================================================
