--------------------------- MODULE RecoveryProofs ---------------------------
(***************************************************************************)
(* Safety of the crawler over a Redis that loses its memory, for every web,*)
(* every dump and every value of the constants.  After an outage the       *)
(* frontier and the hands of the workers are of different times, so nothing*)
(* proved of members in CrawlerProofs is left; the types are, and so is    *)
(* what the queues say about the filter that is restored with them.        *)
(***************************************************************************)
EXTENDS Recovery, CrawlerProofs, FiniteSetTheorems

-----------------------------------------------------------------------------
(* The steps of the crawler within those of Recovery.                      *)

\* The steps of the crawler, each with what it does to the filter.
CrawlerStep ==
    \/ Step(Shutdown) \/ Step(Crash) \/ Step(Tick)
    \/ Step(Reap) \/ Step(Promote) \/ Step(RunListingScheduler) \/ Step(Sweep)
    \/ \E w \in Workers : Step(Work(w))

\* What all of them have in common.
LEMMA CrawlerStepIs ==
    ASSUME CrawlerStep
    PROVE  /\ Aside \/ Crash \/ Ticks \/ \E w \in Workers : Work(w)
           /\ filter' = IF filter = "missing" /\ bloom' # {} THEN "default" ELSE filter
           /\ fetched' \subseteq fetched \cup
                {holds[w].url : w \in {v \in Workers : pc[v] = "fetch"}}
           /\ UNCHANGED <<dump, snapshots, outages, claims>>
BY CrawlerTicks, CrawlerAside DEF CrawlerStep, Step

-----------------------------------------------------------------------------
(* Types.                                                                  *)

\* A keyspace of the right types, as one instant of Redis has it.
KeyspaceOK(d) ==
    /\ DOMAIN d = DOMAIN NoKeys
    /\ d.seq \in Nat
    /\ d.ready \subseteq Job /\ d.processing \subseteq Job
    /\ Q!ZSet(d.lease, Job) /\ Q!ZSet(d.delayed, Job)
    /\ Q!ZSet(d.dead, URL) /\ Q!ZSet(d.listingNext, Listings)
    /\ d.attempts \in [URL -> Nat] /\ d.strikes \in [URL -> Nat]
    /\ d.barren \in [URL -> Nat]
    /\ d.bloom \subseteq Videos
    /\ d.filter \in Shapes
    /\ d.filter = "missing" => d.bloom = {}

RecoveryTypeInv == TypeOKRecovery /\ StoresVideos /\ KeyspaceOK(dump)

\* An empty Redis is well typed.
LEMMA NoKeysOK == KeyspaceOK(NoKeys)
BY DEF KeyspaceOK, NoKeys, Q!ZSet, Shapes

\* So is the running one.
LEMMA KeyspaceTyped == TypeOKRecovery => KeyspaceOK(Keyspace)
<1> SUFFICES ASSUME TypeOKRecovery PROVE KeyspaceOK(Keyspace)
  OBVIOUS
<1>1. DOMAIN Keyspace = DOMAIN NoKeys
  BY DEF Keyspace, NoKeys
<1>2. QED
  BY <1>1 DEF KeyspaceOK, Keyspace, TypeOKRecovery, TypeOK, Q!TypeOK, Q!Job, Q!URL, Job, URL

\* What an outage restores is well typed if the dump was.
LEMMA OutageType ==
    ASSUME RecoveryTypeInv, Outage
    PROVE  RecoveryTypeInv'
<1>1. /\ seq' = dump.seq /\ ready' = dump.ready
      /\ processing' = dump.processing /\ lease' = dump.lease
      /\ delayed' = dump.delayed /\ dead' = dump.dead
      /\ attempts' = dump.attempts /\ strikes' = dump.strikes
      /\ listingNext' = dump.listingNext /\ barren' = dump.barren
      /\ bloom' = dump.bloom /\ filter' = dump.filter
      /\ dump' \in {NoKeys, dump}
      /\ fetched' = {}
      /\ UNCHANGED <<now, holds, acked, work, outside, history, snapshots>>
  BY DEF Outage
<1>2. KeyspaceOK(dump)
  BY DEF RecoveryTypeInv
<1>3. Q!TypeOK'
  BY <1>1, <1>2 DEF KeyspaceOK, Q!TypeOK, RecoveryTypeInv, TypeOKRecovery, TypeOK,
     Q!Job, Q!URL, Job, URL
<1>4. TypeOK'
  BY <1>1, <1>3 DEF RecoveryTypeInv, TypeOKRecovery, TypeOK, work, outside, history
<1>5. filter' \in Shapes /\ (filter' = "missing" => bloom' = {})
  BY <1>1, <1>2 DEF KeyspaceOK
<1>6. KeyspaceOK(dump')
  BY <1>1, <1>2, NoKeysOK
<1>7. claims' \in {"kept", "rolledBack", "reset"} /\ outages' \in 0..MaxOutages
  BY OutageAssumption DEF Outage, RecoveryTypeInv, TypeOKRecovery
<1>8. StoresVideos'
  BY <1>1 DEF RecoveryTypeInv, StoresVideos, work
<1>9. TypeOKRecovery'
  BY <1>1, <1>4, <1>5, <1>6, <1>7 DEF RecoveryTypeInv, TypeOKRecovery, KeyspaceOK
<1>10. QED
  BY <1>6, <1>8, <1>9 DEF RecoveryTypeInv, KeyspaceOK

\* Every step keeps the types.
LEMMA RecoveryTypeNext ==
    ASSUME RecoveryTypeInv, [NextRecovery]_allVars
    PROVE  RecoveryTypeInv'
<1> USE DEF RecoveryTypeInv, TypeOKRecovery
<1>1. CASE Start
  <2>1. /\ Launch(stored) /\ filter' = "reserved"
        /\ claims' \in {claims, "kept"}
        /\ UNCHANGED <<dump, snapshots, outages, fetched>>
    BY <1>1 DEF Start, Boot
  <2>2. TypeOK' /\ StoresVideos'
    BY <2>1, LaunchType DEF TypeOK
  <2>3. KeyspaceOK(dump)'
    BY <2>1 DEF KeyspaceOK
  <2>4. QED
    BY <2>1, <2>2, <2>3 DEF Shapes
<1>2. CASE Snapshot
  <2>1. /\ dump' = Keyspace /\ UNCHANGED <<vars, filter, outages, claims, fetched>>
        /\ snapshots' \in 0..MaxSnapshots
    BY <1>2, OutageAssumption DEF Snapshot
  <2>2. TypeOK' /\ StoresVideos'
    BY <2>1, AsideType, CrawlerAside
  <2>3. KeyspaceOK(dump')
    BY <2>1, KeyspaceTyped
  <2>4. QED
    BY <2>1, <2>2, <2>3 DEF KeyspaceOK, vars, frontier
<1>3. CASE Outage
  BY <1>3, OutageType
<1>4. CASE BloomReset
  <2>1. /\ bloom' = {} /\ filter' = "missing" /\ claims' = "reset"
        /\ UNCHANGED <<now, seq, ready, processing, lease, delayed, dead, attempts,
                       strikes, listingNext, barren, holds, acked, work, stored,
                       cancelled, leaked, history, dump, snapshots, outages,
                       fetched>>
        /\ Fault \/ UNCHANGED faults
    BY <1>4 DEF BloomReset
  <2>2. Q!TypeOK'
    BY <2>1 DEF TypeOK, Q!TypeOK
  <2>3. TypeOK'
    BY <2>1, <2>2, RestType DEF TypeOK, Idle, work, history
  <2>4. QED
    BY <2>1, <2>3 DEF Shapes, StoresVideos, work, KeyspaceOK
<1>5. CASE BloomMonitor
  <2>1. Aside /\ UNCHANGED <<bloom, redis>>
    BY <1>5 DEF BloomMonitor, Aside, frontier
  <2>2. TypeOK' /\ StoresVideos'
    BY <2>1, AsideType
  <2>3. QED
    BY <2>1, <2>2 DEF redis, KeyspaceOK
<1>6. CASE CrawlerStep
  <2>1. /\ Aside \/ Crash \/ Ticks \/ \E w \in Workers : Work(w)
        /\ filter' = IF filter = "missing" /\ bloom' # {} THEN "default" ELSE filter
        /\ fetched' \subseteq fetched \cup
             {holds[w].url : w \in {v \in Workers : pc[v] = "fetch"}}
        /\ UNCHANGED <<dump, snapshots, outages, claims>>
    BY <1>6, CrawlerStepIs
  <2>2. TypeOK' /\ StoresVideos'
    BY <2>1, AsideType, CrashType, TickType, WorkType, WorkStores
  <2>3. \A w \in Workers : pc[w] = "fetch" => holds[w].url \in URL
    BY DEF TypeOK, Q!TypeOK, Q!Job, Q!URL, Job, URL
  <2>4. QED
    BY <2>1, <2>2, <2>3 DEF Shapes, KeyspaceOK
<1>7. CASE UNCHANGED allVars
  <2>1. TypeOK' /\ StoresVideos' /\ UNCHANGED <<bloom, redis>>
    BY <1>7, AsideType, CrawlerAside DEF allVars, vars, frontier
  <2>2. QED
    BY <2>1 DEF redis, KeyspaceOK
<1>8. QED
  BY <1>1, <1>2, <1>3, <1>4, <1>5, <1>6, <1>7 DEF NextRecovery, CrawlerStep

\* Redis starts empty.
LEMMA RecoveryTypeInit == InitRecovery => RecoveryTypeInv
<1> SUFFICES ASSUME InitRecovery PROVE RecoveryTypeInv
  OBVIOUS
<1>1. /\ Init /\ filter = "missing" /\ dump = NoKeys /\ snapshots = 0 /\ outages = 0
      /\ claims = "kept" /\ fetched = {}
  BY DEF InitRecovery
<1>2. TypeInv /\ bloom = {}
  BY <1>1, TypeInit DEF Init, Q!Init
<1>3. KeyspaceOK(dump)
  BY <1>1, NoKeysOK
<1>4. 0 \in 0..MaxSnapshots /\ 0 \in 0..MaxOutages
  BY OutageAssumption
<1>5. QED
  BY <1>1, <1>2, <1>3, <1>4 DEF RecoveryTypeInv, TypeOKRecovery, TypeInv, Shapes, KeyspaceOK

\* The state keeps its types, whatever dumps Redis comes back with.
THEOREM RecoveryTypeCorrect == SpecRecovery => []TypeOKRecovery
<1>1. RecoveryTypeInv => TypeOKRecovery
  BY DEF RecoveryTypeInv
<1>2. QED
  BY <1>1, RecoveryTypeInit, RecoveryTypeNext, PTL DEF SpecRecovery

-----------------------------------------------------------------------------
(* The claims of stored videos.                                            *)

\* The jobs a keyspace knows, in its queues or leased.
JobsIn(d) == d.ready \cup d.processing \cup DOMAIN d.lease \cup DOMAIN d.delayed

\* A keyspace that has a job for no video its filter does not claim.
ClaimsItsJobs(d) == \A j \in JobsIn(d) : j.url \in Videos => j.url \in d.bloom

\* A filter with room for all videos refuses none.
LEMMA FilterHasRoom ==
    ASSUME Q!TypeOK, NEW u \in Videos, u \notin bloom
    PROVE  ~Q!BloomFull
<1>1. /\ bloom \cup {u} \subseteq Videos /\ IsFiniteSet(bloom)
  BY OutageAssumption, FS_Subset DEF Q!TypeOK
<1>2. Cardinality(bloom \cup {u}) = Cardinality(bloom) + 1 /\ Cardinality(bloom) \in Nat
  BY <1>1, FS_AddElement, FS_CardinalityType
<1>3. Cardinality(bloom \cup {u}) <= Cardinality(Videos) /\ Cardinality(Videos) \in Nat
  BY <1>1, OutageAssumption, FS_Subset, FS_CardinalityType
<1>4. QED
  BY <1>2, <1>3, OutageAssumption, LimitAssumption DEF Q!BloomFull, Q!Cardinality, Cardinality

\* Every job a call creates is for the url of another, of a listing, or of a
\* video claimed by the same call; and what a worker leases was ready.
LEMMA JobsStep ==
    ASSUME Q!TypeOK, Q!Next \/ UNCHANGED frontier
    PROVE  /\ \A k \in JobsIn(Keyspace)' :
                 \/ \E j \in JobsIn(Keyspace) : j.url = k.url
                 \/ k.url \in Listings \cup bloom'
           /\ bloom \subseteq bloom'
           /\ \A w \in Workers : holds'[w] \in {holds[w], NoJob} \cup ready
<1> DEFINE jobs == ready \cup processing \cup DOMAIN lease \cup DOMAIN delayed
<1>1. JobsIn(Keyspace) = jobs /\ JobsIn(Keyspace)' = jobs'
  BY DEF JobsIn, Keyspace
<1>2. SUFFICES /\ \A k \in jobs' :
                 \/ \E j \in jobs : j.url = k.url
                 \/ k.url \in Listings \cup bloom'
               /\ bloom \subseteq bloom'
               /\ \A w \in Workers : holds'[w] \in {holds[w], NoJob} \cup ready
  BY <1>1
<1> USE DEF Q!ZAdd, Q!ZRem, Q!Restrict, Restrict, Q!Mint, Q!Minted
<1>3. CASE Q!Tick \/ UNCHANGED frontier
  BY <1>3 DEF Q!Tick, frontier
<1>4. CASE Q!Admit
  <2>1. CASE Q!SeedListing
    BY <2>1 DEF Q!SeedListing
  <2>2. ASSUME NEW u \in Videos, NEW t \in Q!Reading, Q!AdmitVideo(u, t)
        PROVE  /\ UNCHANGED <<processing, lease, delayed, holds>>
               /\ bloom \subseteq bloom'
               /\ ready' = ready \/ (ready' = ready \cup {Q!Mint(u)} /\ u \in bloom')
    <3>1. u \in bloom \/ ~Q!BloomFull
      BY FilterHasRoom
    <3>2. QED
      BY <2>2, <3>1 DEF Q!AdmitVideo, Q!VideoSuppressed, Q!VideoNew, Q!VideoUnclaimed
  <2>3. ASSUME NEW u \in Listings, NEW t \in Q!Reading, Q!AdmitListing(u, t)
        PROVE  /\ UNCHANGED <<processing, lease, delayed, holds, bloom>>
               /\ ready' \subseteq ready \cup {Q!Mint(u)}
    BY <2>3 DEF Q!AdmitListing
  <2>4. QED
    BY <1>4, <2>1, <2>2, <2>3 DEF Q!Admit
<1>5. CASE Q!Work
  <2>1. ASSUME NEW w \in Workers,
               \/ Q!LeaseNothing(w) \/ Q!Ack(w) \/ Q!Nack(w) \/ Q!Drop(w)
        PROVE  /\ bloom' = bloom
               /\ \A k \in jobs' : \E j \in jobs : j.url = k.url
               /\ \A v \in Workers : holds'[v] \in {holds[v], NoJob}
    BY <2>1 DEF Q!LeaseNothing, Q!Ack, Q!Nack, Q!Drop, Q!Release, Q!Owns, Q!vars, Q!TypeOK
  <2>2. ASSUME NEW w \in Workers, NEW t \in Q!Reading, Q!Lease(w, t)
        PROVE  /\ bloom' = bloom
               /\ \A k \in jobs' : \E j \in jobs : j.url = k.url
               /\ \A v \in Workers : holds'[v] \in {holds[v]} \cup ready
    BY <2>2 DEF Q!Lease, Q!TypeOK
  <2>3. ASSUME NEW w \in Workers, NEW t \in Q!Reading,
               \/ Q!Terminal(w, t)
               \/ \E class \in Q!FailClass : Q!Fail(w, class, t)
               \/ \E new \in BOOLEAN : Q!CompleteListing(w, new, t)
        PROVE  /\ bloom' = bloom
               /\ \A k \in jobs' : \E j \in jobs : j.url = k.url
               /\ \A v \in Workers : holds'[v] \in {holds[v], NoJob}
    BY <2>3 DEF Q!Terminal, Q!Fail, Q!FailDead, Q!FailDelayed, Q!CompleteListing,
       Q!Release, Q!Owns, Q!Bury, Q!TypeOK
  <2>4. QED
    BY <1>5, <2>1, <2>2, <2>3 DEF Q!Work
<1>6. CASE Q!Sweep \/ \E t \in Q!Reading : Q!Reap(t) \/ Q!Promote(t)
  <2>1. ASSUME NEW n, NEW b, Q!ReapPage(n, b), b \in [1..n -> DOMAIN lease]
        PROVE  /\ UNCHANGED <<bloom, holds>>
               /\ \A k \in jobs' : \E j \in jobs : j.url = k.url
    BY <2>1 DEF Q!ReapPage
  <2>2. ASSUME NEW n, NEW b, Q!PromotePage(n, b), b \in [1..n -> DOMAIN delayed]
        PROVE  /\ UNCHANGED <<bloom, holds>>
               /\ \A k \in jobs' : \E j \in jobs : j.url = k.url
    BY <2>2 DEF Q!PromotePage
  <2>3. ASSUME NEW n, NEW b, Q!SweepPage(n, b), b \in [1..n -> processing]
        PROVE  /\ UNCHANGED <<bloom, holds>>
               /\ \A k \in jobs' : \E j \in jobs : j.url = k.url
    BY <2>3 DEF Q!SweepPage
  <2>4. QED
    BY <1>6, <2>1, <2>2, <2>3 DEF Q!Reap, Q!Promote, Q!Sweep, Q!Page, Q!Due, Q!Orphans,
       Q!SweepWindow
<1>7. CASE \E t \in Q!Reading : Q!RunListingScheduler(t)
  <2>1. PICK t \in Q!Reading, n \in 1..SchedulerBatchLimit :
           \E b \in Q!Page(listingNext, t, SchedulerBatchLimit, n) : Q!SchedulePage(t, n, b)
    BY <1>7 DEF Q!RunListingScheduler
  <2>2. PICK b \in Q!Page(listingNext, t, SchedulerBatchLimit, n) : Q!SchedulePage(t, n, b)
    BY <2>1
  <2>3. \A i \in 1..n : b[i] \in Listings
    BY <2>2 DEF Q!Page, Q!Due, Q!TypeOK, Q!ZSet
  <2>4. /\ UNCHANGED <<processing, lease, delayed, bloom, holds>>
        /\ \A k \in ready' : k \in ready \/ \E i \in 1..n : k.url = b[i]
    <3> DEFINE admitted == {i \in 1..n : b[i] \notin {u \in Q!Range(b) : Q!Blocked(u, t)}}
               Rank(i) == Q!Cardinality({k \in admitted : k <= i})
    <3>1. /\ UNCHANGED <<processing, lease, delayed, bloom, holds>>
          /\ ready' = ready \cup {[id |-> seq + Rank(i), url |-> b[i]] : i \in admitted}
      BY <2>2 DEF Q!SchedulePage
    <3> HIDE DEF Rank
    <3>2. QED
      BY <3>1
  <2>5. QED
    BY <2>3, <2>4
<1>8. QED
  BY <1>3, <1>4, <1>5, <1>6, <1>7 DEF Q!Next, Q!Reconcile

\* Unless the operator deleted the filter, the queues and the dump claim their
\* videos; from a startup to the next outage the hands and MongoDB do as well.
ClaimsInv ==
    /\ claims # "reset" => ClaimsItsJobs(Keyspace) /\ ClaimsItsJobs(dump)
    /\ claims = "kept" =>
          /\ stored \subseteq bloom
          /\ \A w \in Workers :
                holds[w] # NoJob /\ holds[w].url \in Videos => holds[w].url \in bloom

\* More claims for the same jobs.
LEMMA ClaimsGrow ==
    ASSUME UNCHANGED <<ready, processing, lease, delayed>>, bloom \subseteq bloom'
    PROVE  ClaimsItsJobs(Keyspace) => ClaimsItsJobs(Keyspace)'
BY DEF ClaimsItsJobs, JobsIn, Keyspace

\* A call to the frontier claims what it queues.
LEMMA ClaimsCall ==
    ASSUME Q!TypeOK, Q!Next \/ UNCHANGED frontier
    PROVE  ClaimsItsJobs(Keyspace) => ClaimsItsJobs(Keyspace)'
<1>1. /\ Keyspace.bloom = bloom /\ Keyspace'.bloom = bloom'
  BY DEF Keyspace
<1>2. QED
  BY <1>1, JobsStep, UrlAssumption DEF ClaimsItsJobs

\* MongoDB gets no document but of the video in a worker's hands.
LEMMA WorkStored ==
    ASSUME TypeOK, StoresVideos, NEW w \in Workers, Work(w)
    PROVE  \/ stored' = stored
           \/ /\ stored' \subseteq stored \cup {holds[w].url}
              /\ holds[w] # NoJob /\ holds[w].url \in Videos
<1>1. CASE Store(w) \/ StoreFails(w)
  BY <1>1 DEF Store, StoreFails, StoresVideos, TypeOK
<1>2. CASE ~(Store(w) \/ StoreFails(w))
  BY <1>2 DEF Work, Exit, Lease, LeaseUnanswered, Pace, Served, Refused, Interrupted,
     AdmitChild, AdmitFails, AdmitRepeated, AdmitDone, Finish, Nack, NackStop, NackFatal,
     Terminal, Fail, Resolve, outside
<1>3. QED
  BY <1>1, <1>2

\* The steps of the crawler keep the claims.
LEMMA ClaimsCrawler ==
    ASSUME TypeOK, StoresVideos, ClaimsInv, CrawlerStep
    PROVE  ClaimsInv'
<1>1. /\ Aside \/ Crash \/ Ticks \/ \E w \in Workers : Work(w)
      /\ UNCHANGED <<dump, claims>>
  BY CrawlerStepIs
<1>2. ClaimsItsJobs(dump)' <=> ClaimsItsJobs(dump)
  BY <1>1
<1>3. CASE Aside
  BY <1>1, <1>2, <1>3, ClaimsGrow DEF Aside, ClaimsInv
<1>4. CASE Crash
  <2>1. /\ UNCHANGED <<ready, processing, lease, delayed, bloom, stored>>
        /\ \A w \in Workers : holds'[w] = NoJob
    BY <1>4 DEF Crash
  <2>2. QED
    BY <1>1, <1>2, <2>1, ClaimsGrow DEF ClaimsInv
<1>5. CASE Ticks
  <2>1. Q!Next /\ UNCHANGED <<holds, stored>>
    BY <1>5, TickIsCall DEF outside
  <2>2. bloom \subseteq bloom'
    BY <2>1, JobsStep DEF TypeOK
  <2>3. QED
    BY <1>1, <1>2, <2>1, <2>2, ClaimsCall DEF ClaimsInv, TypeOK
<1>6. ASSUME NEW w \in Workers, Work(w)
      PROVE  ClaimsInv'
  <2>1. Q!Next \/ UNCHANGED frontier
    BY <1>6, WorkIsCall DEF TypeOK
  <2>2. /\ bloom \subseteq bloom'
        /\ \A v \in Workers : holds'[v] \in {holds[v], NoJob} \cup ready
    BY <2>1, JobsStep DEF TypeOK
  <2>3. ClaimsItsJobs(Keyspace) => ClaimsItsJobs(Keyspace)'
    BY <2>1, ClaimsCall DEF TypeOK
  <2>4. ASSUME claims = "kept"
        PROVE  /\ stored' \subseteq bloom'
               /\ \A v \in Workers :
                     holds'[v] # NoJob /\ holds'[v].url \in Videos => holds'[v].url \in bloom'
    <3>1. \A j \in ready : j.url \in Videos => j.url \in bloom
      BY <2>4 DEF ClaimsInv, ClaimsItsJobs, JobsIn, Keyspace
    <3>2. stored' \subseteq bloom'
      BY <1>6, <2>2, <2>4, WorkStored DEF ClaimsInv
    <3>3. QED
      BY <2>2, <2>4, <3>1, <3>2 DEF ClaimsInv
  <2>5. QED
    BY <1>1, <1>2, <2>3, <2>4 DEF ClaimsInv
<1>7. QED
  BY <1>1, <1>3, <1>4, <1>5, <1>6

\* So does every other step.
LEMMA ClaimsNext ==
    ASSUME RecoveryTypeInv, ClaimsInv, [NextRecovery]_allVars
    PROVE  ClaimsInv'
<1> USE DEF RecoveryTypeInv, TypeOKRecovery
<1>1. CASE Start
  <2>1. /\ bloom' = bloom \cup stored /\ ~Up /\ dump' = dump
        /\ UNCHANGED <<ready, processing, lease, delayed, holds, stored>>
        /\ claims' # "reset" => claims # "reset"
    BY <1>1 DEF Start, Boot, Launch
  <2>2. \A w \in Workers : holds[w] = NoJob
    BY <2>1 DEF TypeOK, Up
  <2>3. ClaimsItsJobs(dump)' <=> ClaimsItsJobs(dump)
    BY <2>1
  <2>4. QED
    BY <2>1, <2>2, <2>3, ClaimsGrow DEF ClaimsInv
<1>2. CASE Snapshot
  <2>1. dump' = Keyspace /\ UNCHANGED <<frontier, stored, claims>> /\ Keyspace' = Keyspace
    BY <1>2 DEF Snapshot, vars, outside, frontier, Keyspace
  <2>2. /\ ClaimsItsJobs(Keyspace)' <=> ClaimsItsJobs(Keyspace)
        /\ ClaimsItsJobs(dump)' <=> ClaimsItsJobs(Keyspace)
    BY <2>1
  <2>3. QED
    BY <2>1, <2>2 DEF ClaimsInv, frontier
<1>3. CASE Outage
  <2>1. /\ claims' # "kept" /\ (claims' # "reset" => claims # "reset")
        /\ dump' \in {NoKeys, dump}
    BY <1>3 DEF Outage
  <2>2. ClaimsItsJobs(NoKeys)
    BY DEF ClaimsItsJobs, JobsIn, NoKeys
  <2>3. ClaimsItsJobs(dump) => ClaimsItsJobs(dump')
    BY <2>1, <2>2
  <2>4. ClaimsItsJobs(dump) => ClaimsItsJobs(Keyspace)'
    BY <1>3 DEF Outage, ClaimsItsJobs, JobsIn, Keyspace
  <2>5. QED
    BY <2>1, <2>3, <2>4 DEF ClaimsInv, ClaimsItsJobs
<1>4. CASE BloomReset
  BY <1>4 DEF BloomReset, ClaimsInv
<1>5. CASE BloomMonitor \/ UNCHANGED allVars
  <2>1. UNCHANGED <<frontier, stored, claims, dump>>
    BY <1>5 DEF BloomMonitor, allVars, vars, outside, redis
  <2>2. ClaimsItsJobs(dump)' <=> ClaimsItsJobs(dump)
    BY <2>1
  <2>3. QED
    BY <2>1, <2>2, ClaimsGrow DEF ClaimsInv, frontier
<1>6. CASE CrawlerStep
  BY <1>6, ClaimsCrawler
<1>7. QED
  BY <1>1, <1>2, <1>3, <1>4, <1>5, <1>6 DEF NextRecovery, CrawlerStep

\* After any outage and a startup, every stored video is claimed again.
THEOREM StoredClaimedCorrect == SpecRecovery => []StoredClaimed
<1>1. InitRecovery => RecoveryTypeInv /\ ClaimsInv
  <2> SUFFICES ASSUME InitRecovery PROVE RecoveryTypeInv /\ ClaimsInv
    OBVIOUS
  <2>1. Init /\ dump = NoKeys
    BY DEF InitRecovery
  <2>2. ClaimsItsJobs(dump)
    BY <2>1 DEF ClaimsItsJobs, JobsIn, NoKeys
  <2>3. ClaimsItsJobs(Keyspace)
    BY <2>1 DEF Init, Q!Init, ClaimsItsJobs, JobsIn, Keyspace
  <2>4. stored = {} /\ \A w \in Workers : holds[w] = NoJob
    BY <2>1 DEF Init, Q!Init
  <2>5. QED
    BY <2>2, <2>3, <2>4, RecoveryTypeInit DEF ClaimsInv
<1>2. ClaimsInv => StoredClaimed
  BY DEF ClaimsInv, StoredClaimed
<1>3. QED
  BY <1>1, <1>2, RecoveryTypeNext, ClaimsNext, PTL DEF SpecRecovery
=============================================================================
