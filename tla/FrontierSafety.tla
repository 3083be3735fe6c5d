--------------------------- MODULE FrontierSafety ---------------------------
(***************************************************************************)
(* Safety of Frontier, for every value of its constants: the inductive     *)
(* invariant IInv is proved in two halves, MemberInv about the members of  *)
(* the queues and UrlInv about the urls they stand for.                    *)
(***************************************************************************)
EXTENDS FrontierProofs

\* The members a batch mints carry the next n ids.
LEMMA MintedIds ==
    ASSUME seq \in Nat, NEW n \in Nat, NEW urls
    PROVE  \A j \in Minted(urls, n) : seq < j.id /\ j.id <= seq + n
BY DEF Minted

\* A freshly minted member carries the id the script INCRed.
LEMMA MintId ==
    ASSUME seq \in Nat, NEW u
    PROVE  seq < Mint(u).id /\ Mint(u).id <= seq + 1 /\ Mint(u).url = u
BY DEF Mint

\* Every script but Lease only takes members out of the queues, puts freshly
\* minted ones into ready or into delayed, and empties hands.
NewMembers == (ready' \ ready) \cup (DOMAIN delayed' \ DOMAIN delayed)

\* A step that only removes members, mints new ones into one queue and empties
\* hands preserves the facts about members.
LEMMA MemberStep ==
    ASSUME TypeOK, TypeOK', MemberInv,
           \A j \in NewMembers : seq < j.id /\ j.id <= seq',
           seq <= seq',
           ready' \subseteq ready \/ DOMAIN delayed' \subseteq DOMAIN delayed,
           processing' \subseteq processing,
           processing' = DOMAIN lease',
           \A w \in Workers : holds'[w] = holds[w] \/ holds'[w] = NoJob
    PROVE  MemberInv'
<1>1. IdsMinted'
  <2>1. ASSUME NEW j \in Live'
        PROVE  j.id <= seq'
    <3>1. j \in Job
      BY DEF TypeOK, Live, ZSet
    <3>2. j \in Live \/ j \in NewMembers
      BY DEF Live, NewMembers
    <3>3. j.id \in Nat /\ seq \in Nat /\ seq' \in Nat
      BY <3>1 DEF Job, TypeOK
    <3>4. QED
      BY <3>2, <3>3 DEF MemberInv, IdsMinted
  <2>2. ASSUME NEW w \in Workers, holds'[w] # NoJob
        PROVE  holds'[w].id <= seq'
    <3>1. holds'[w] = holds[w] /\ holds[w] \in Job
      BY <2>2 DEF TypeOK
    <3>2. holds[w].id \in Nat /\ seq \in Nat /\ seq' \in Nat
      BY <3>1 DEF Job, TypeOK
    <3>3. QED
      BY <2>2, <3>1, <3>2 DEF MemberInv, IdsMinted
  <2>3. QED
    BY <2>1, <2>2 DEF IdsMinted
<1>2. \A j \in Live : j \notin NewMembers
  <2>1. \A j \in Live : j.id \in Nat /\ seq \in Nat
    BY DEF Live, TypeOK, ZSet, Job
  <2>2. QED
    BY <2>1 DEF MemberInv, IdsMinted
<1>3. \A w \in Workers : holds[w] # NoJob => holds[w] \notin NewMembers
  <2>1. \A w \in Workers : holds[w] # NoJob => holds[w].id \in Nat /\ seq \in Nat
    BY DEF TypeOK, Job
  <2>2. QED
    BY <2>1 DEF MemberInv, IdsMinted
<1>4. QueuesDisjoint'
  BY <1>2 DEF MemberInv, QueuesDisjoint, Live, NewMembers
<1>5. LeaseAtMostOnce'
  <2>1. ASSUME NEW w \in Workers
        PROVE  holds'[w] \notin ready' \cup DOMAIN delayed'
    <3>1. CASE holds'[w] = NoJob
      BY <3>1, UrlAssumption DEF TypeOK, ZSet
    <3>2. CASE holds'[w] # NoJob
      BY <3>2, <1>3 DEF MemberInv, LeaseAtMostOnce, NewMembers
    <3>3. QED
      BY <3>1, <3>2
  <2>2. QED
    BY <2>1 DEF MemberInv, LeaseAtMostOnce
<1>6. QED
  BY <1>1, <1>4, <1>5 DEF MemberInv, ProcessingLeased

\* Admissions preserve the facts about members.
LEMMA MemberAdmit ==
    ASSUME TypeOK, TypeOK', MemberInv, Admit
    PROVE  MemberInv'
<1> seq \in Nat
  BY DEF TypeOK
<1>1. ASSUME NEW u \in Videos, NEW t \in Reading, AdmitVideo(u, t)
      PROVE  MemberInv'
  <2>1. /\ ready' \subseteq ready \cup {Mint(u)}
        /\ seq' = seq + 1
        /\ UNCHANGED <<processing, lease, delayed, holds>>
    BY <1>1 DEF AdmitVideo, VideoSuppressed, VideoNew, VideoUnclaimed
  <2>2. \A j \in NewMembers : seq < j.id /\ j.id <= seq'
    BY <2>1, MintId DEF NewMembers
  <2>3. QED
    BY <2>1, <2>2, MemberStep DEF MemberInv, ProcessingLeased
<1>2. ASSUME NEW u \in Listings, NEW t \in Reading, AdmitListing(u, t)
      PROVE  MemberInv'
  <2>1. /\ \/ ready' = ready \cup {Mint(u)} /\ seq' = seq + 1
           \/ UNCHANGED <<ready, seq>>
        /\ UNCHANGED <<processing, lease, delayed, holds>>
    BY <1>2 DEF AdmitListing
  <2>2. QED
    <3>1. \A j \in NewMembers : seq < j.id /\ j.id <= seq'
      BY <2>1, MintId DEF NewMembers
    <3>2. QED
      BY <2>1, <3>1, MemberStep DEF MemberInv, ProcessingLeased
<1>3. CASE SeedListing
  <2>1. UNCHANGED <<seq, ready, processing, lease, delayed, holds>>
    BY <1>3 DEF SeedListing
  <2>2. QED
    BY <2>1, MemberStep DEF NewMembers, MemberInv, ProcessingLeased
<1>4. QED
  BY <1>1, <1>2, <1>3 DEF Admit

\* Lease moves the oldest ready member into processing and into one hand.
LEMMA MemberLease ==
    ASSUME TypeOK, TypeOK', MemberInv, NEW w \in Workers, NEW t \in Reading,
           Lease(w, t)
    PROVE  MemberInv'
<1>1. PICK j \in ready :
        /\ ready' = ready \ {j}
        /\ processing' = processing \cup {j}
        /\ lease' = ZAdd(lease, j, t + LeaseTimeout)
        /\ holds' = [holds EXCEPT ![w] = j]
  BY DEF Lease
<1>2. UNCHANGED <<seq, delayed>>
  BY DEF Lease
<1>3. processing' = DOMAIN lease'
  BY <1>1, ZAddScores DEF MemberInv, ProcessingLeased
<1>4. Live' = Live
  BY <1>1, <1>2 DEF Live
<1>5. \A v \in Workers : holds'[v] = IF v = w THEN j ELSE holds[v]
  BY <1>1 DEF TypeOK
<1>6. IdsMinted'
  BY <1>1, <1>2, <1>4, <1>5 DEF MemberInv, IdsMinted, Live
<1>7. QueuesDisjoint'
  BY <1>1, <1>2 DEF MemberInv, QueuesDisjoint
<1>8. LeaseAtMostOnce'
  BY <1>1, <1>2, <1>5 DEF MemberInv, LeaseAtMostOnce, QueuesDisjoint
<1>9. QED
  BY <1>3, <1>6, <1>7, <1>8 DEF MemberInv, ProcessingLeased

\* What Release does to the queues.
LEMMA ReleaseMembers ==
    ASSUME TypeOK, MemberInv, NEW w \in Workers, Owns(w), Release(w)
    PROVE  /\ processing' = processing \ {holds[w]}
           /\ processing' = DOMAIN lease'
           /\ \A v \in Workers : holds'[v] = holds[v] \/ holds'[v] = NoJob
BY ZRemScores DEF Release, MemberInv, ProcessingLeased, TypeOK

\* Calls of a worker preserve the facts about members.
LEMMA MemberWork ==
    ASSUME TypeOK, TypeOK', MemberInv, Work
    PROVE  MemberInv'
<1> seq \in Nat
  BY DEF TypeOK
<1> PICK w \in Workers :
      \/ LeaseNothing(w) \/ Ack(w) \/ Nack(w) \/ Drop(w)
      \/ \E t \in Reading :
            \/ Lease(w, t) \/ Terminal(w, t)
            \/ \E class \in FailClass : Fail(w, class, t)
            \/ \E fresh \in BOOLEAN : CompleteListing(w, fresh, t)
  BY DEF Work
\* The resolutions that create no member.
<1>1. ASSUME Owns(w), Release(w), UNCHANGED <<seq, ready, delayed>>
      PROVE  MemberInv'
  BY <1>1, ReleaseMembers, MemberStep DEF NewMembers
<1>2. CASE Ack(w)
  BY <1>2, <1>1 DEF Ack
<1>3. ASSUME NEW t \in Reading, Terminal(w, t)
      PROVE  MemberInv'
  BY <1>3, <1>1 DEF Terminal
<1>4. ASSUME NEW t \in Reading, NEW fresh \in BOOLEAN, CompleteListing(w, fresh, t)
      PROVE  MemberInv'
  BY <1>4, <1>1 DEF CompleteListing
<1>5. ASSUME NEW t \in Reading, NEW class \in FailClass, Fail(w, class, t)
      PROVE  MemberInv'
  <2>1. CASE FailDead(w, class, t)
    BY <1>5, <2>1, <1>1 DEF Fail, FailDead
  <2>2. CASE FailDelayed(w, class, t)
    <3>1. /\ DOMAIN delayed' = DOMAIN delayed \cup {Mint(holds[w].url)}
          /\ seq' = seq + 1 /\ ready' = ready
      BY <1>5, <2>2, ZAddScores DEF Fail, FailDelayed
    <3>2. \A j \in NewMembers : seq < j.id /\ j.id <= seq'
      BY <3>1, MintId DEF NewMembers
    <3>3. QED
      BY <1>5, <3>1, <3>2, ReleaseMembers, MemberStep DEF Fail
  <2>3. QED
    BY <1>5, <2>1, <2>2 DEF Fail
<1>6. CASE Nack(w)
  <2>1. ready' = ready \cup {Mint(holds[w].url)} /\ seq' = seq + 1 /\ delayed' = delayed
    BY <1>6 DEF Nack
  <2>2. \A j \in NewMembers : seq < j.id /\ j.id <= seq'
    BY <2>1, MintId DEF NewMembers
  <2>3. QED
    BY <1>6, <2>1, <2>2, ReleaseMembers, MemberStep DEF Nack
<1>7. CASE Drop(w)
  <2>1. /\ UNCHANGED <<seq, ready, processing, lease, delayed>>
        /\ \A v \in Workers : holds'[v] = holds[v] \/ holds'[v] = NoJob
    BY <1>7 DEF Drop, TypeOK
  <2>2. QED
    BY <2>1, MemberStep DEF NewMembers, MemberInv, ProcessingLeased
<1>8. CASE LeaseNothing(w)
  <2>1. UNCHANGED <<seq, ready, processing, lease, delayed, holds>>
    BY <1>8 DEF LeaseNothing, vars
  <2>2. QED
    BY <2>1, MemberStep DEF NewMembers, MemberInv, ProcessingLeased
<1>9. QED
  BY <1>2, <1>3, <1>4, <1>5, <1>6, <1>7, <1>8, MemberLease

\* With every processing member leased the sweeper finds no orphan.
LEMMA NothingToSweep ==
    ASSUME TypeOK, ProcessingLeased, Sweep
    PROVE  UNCHANGED vars
<1>1. Orphans = {}
  BY DEF ProcessingLeased, Orphans, SweepWindow
<1>2. PICK n \in 0..SweepBatchLimit : \E b \in [1..n -> Orphans] : SweepPage(n, b)
  BY DEF Sweep
<1>3. PICK b \in [1..n -> Orphans] : SweepPage(n, b)
  BY <1>2
<1>4. n = 0
  <2>1. SUFFICES ASSUME n # 0 PROVE FALSE
    OBVIOUS
  <2>2. n \in Nat /\ 1 \in 1..n
    BY <2>1, ConstantsType
  <2>3. QED
    BY <1>1, <2>2
<1>5. Range(b) = {} /\ 1..n = {}
  BY <1>1, <1>3, <1>4 DEF SweepPage
<1>6. ready' = ready /\ processing' = processing
  BY <1>3, <1>5 DEF SweepPage, Minted
<1>7. seq' = seq
  BY <1>3, <1>4 DEF SweepPage, TypeOK
<1>8. QED
  BY <1>3, <1>6, <1>7 DEF SweepPage, vars, counters

\* A step that leaves members and hands alone preserves the facts about them.
LEMMA MemberSame ==
    ASSUME TypeOK, TypeOK', MemberInv,
           UNCHANGED <<seq, ready, processing, lease, delayed, holds>>
    PROVE  MemberInv'
<1>1. seq \in Nat
  BY DEF TypeOK
<1>2. QED
  BY <1>1, MemberStep DEF NewMembers, MemberInv, ProcessingLeased

\* Ticks of a reconciler preserve the facts about members.
LEMMA MemberReconcile ==
    ASSUME TypeOK, TypeOK', MemberInv, Reconcile
    PROVE  MemberInv'
<1> seq \in Nat
  BY DEF TypeOK
<1>1. ASSUME NEW t \in Reading, NEW n \in 1..ReapBatchLimit,
             NEW b \in Page(lease, t, ReapBatchLimit, n), ReapPage(n, b)
      PROVE  MemberInv'
  <2> DEFINE urls == [i \in 1..n |-> b[i].url]
  <2>1. \A j \in Minted(urls, n) : seq < j.id /\ j.id <= seq + n
    BY ConstantsType, MintedIds
  <2>2. /\ ready' = ready \cup Minted(urls, n)
        /\ processing' = processing \ Range(b)
        /\ lease' = ZRem(lease, Range(b))
        /\ seq' = seq + n
        /\ UNCHANGED <<delayed, holds>>
    BY <1>1 DEF ReapPage
  <2>3. processing' = DOMAIN lease'
    BY <2>2, ZRemScores DEF MemberInv, ProcessingLeased
  <2>4. \A j \in NewMembers : seq < j.id /\ j.id <= seq'
    BY <2>1, <2>2 DEF NewMembers
  <2>5. seq <= seq'
    BY <2>2, ConstantsType
  <2>6. QED
    BY <2>2, <2>3, <2>4, <2>5, MemberStep
<1>2. ASSUME NEW t \in Reading, NEW n \in 1..PromoteBatchLimit,
             NEW b \in Page(delayed, t, PromoteBatchLimit, n), PromotePage(n, b)
      PROVE  MemberInv'
  <2> DEFINE urls == [i \in 1..n |-> b[i].url]
  <2>1. \A j \in Minted(urls, n) : seq < j.id /\ j.id <= seq + n
    BY ConstantsType, MintedIds
  <2>2. /\ ready' = ready \cup Minted(urls, n)
        /\ DOMAIN delayed' \subseteq DOMAIN delayed
        /\ seq' = seq + n
        /\ UNCHANGED <<processing, lease, holds>>
    BY <1>2, ZRemScores DEF PromotePage
  <2>3. \A j \in NewMembers : seq < j.id /\ j.id <= seq'
    BY <2>1, <2>2 DEF NewMembers
  <2>4. seq <= seq'
    BY <2>2, ConstantsType
  <2>5. QED
    BY <2>2, <2>3, <2>4, MemberStep DEF MemberInv, ProcessingLeased
<1>3. ASSUME NEW t \in Reading, NEW n \in 1..SchedulerBatchLimit,
             NEW b \in Page(listingNext, t, SchedulerBatchLimit, n),
             SchedulePage(t, n, b)
      PROVE  MemberInv'
  <2> DEFINE admitted == {i \in 1..n : b[i] \notin {u \in Range(b) : Blocked(u, t)}}
             Rank(i) == Cardinality({k \in admitted : k <= i})
  <2>1. /\ ready' = ready \cup {[id |-> seq + Rank(i), url |-> b[i]] : i \in admitted}
        /\ seq' = seq + Cardinality(admitted)
        /\ UNCHANGED <<processing, lease, delayed, holds>>
    BY <1>3 DEF SchedulePage
  <2>2. /\ Cardinality(admitted) \in Nat
        /\ \A i \in admitted : Rank(i) \in 1..Cardinality(admitted)
    <3>1. IsFiniteSet(1..n)
      BY ConstantsType, FS_Interval
    <3>2. IsFiniteSet(admitted)
      BY <3>1, FS_Subset
    <3>3. ASSUME NEW i \in admitted
          PROVE  Rank(i) \in 1..Cardinality(admitted)
      <4>1. i \in {k \in admitted : k <= i} /\ {k \in admitted : k <= i} \subseteq admitted
        BY ConstantsType
      <4>2. IsFiniteSet({k \in admitted : k <= i}) /\ Rank(i) <= Cardinality(admitted)
        BY <3>2, <4>1, FS_Subset
      <4>3. Rank(i) \in Nat /\ Rank(i) # 0 /\ Cardinality(admitted) \in Nat
        BY <3>2, <4>1, <4>2, FS_CardinalityType, FS_EmptySet
      <4>4. QED
        BY <4>2, <4>3
    <3>4. QED
      BY <3>2, <3>3, FS_CardinalityType
  <2>3. \A j \in NewMembers : seq < j.id /\ j.id <= seq'
    <3> HIDE DEF admitted, Rank
    <3>1. \A i \in admitted : seq < seq + Rank(i) /\ seq + Rank(i) <= seq'
      BY <2>1, <2>2
    <3>2. QED
      BY <2>1, <3>1 DEF NewMembers
  <2>4. seq <= seq'
    BY <2>1, <2>2
  <2>5. QED
    BY <2>1, <2>3, <2>4, MemberStep DEF MemberInv, ProcessingLeased
<1>4. CASE Sweep
  BY <1>4, NothingToSweep, MemberSame DEF MemberInv, vars
<1>5. QED
  BY <1>1, <1>2, <1>3, <1>4 DEF Reconcile, Reap, Promote, RunListingScheduler

\* Every step preserves the facts about members.
LEMMA MemberNext ==
    ASSUME TypeOK, TypeOK', MemberInv, [Next]_vars
    PROVE  MemberInv'
BY MemberSame, MemberAdmit, MemberWork, MemberReconcile DEF Next, Tick, vars

\* The facts about members hold of the empty keyspace.
LEMMA MemberInit == Init => MemberInv
BY UrlAssumption DEF Init, MemberInv, IdsMinted, QueuesDisjoint, LeaseAtMostOnce,
   ProcessingLeased, Live

\* The facts about members hold in every reachable state.
LEMMA MemberCorrect == Spec => [](TypeOK /\ MemberInv)
<1>1. Init => TypeOK /\ MemberInv
  BY TypeInit, MemberInit
<1>2. TypeOK /\ MemberInv /\ [Next]_vars => (TypeOK /\ MemberInv)'
  BY TypeStep, MemberNext
<1>3. QED
  BY <1>1, <1>2, PTL DEF Spec

\* A job id is leased at most once: a member in a worker's hands is never
\* leasable again and is in no other worker's hands, so the ZREM test of every
\* resolution script fences off all owners but the last.
THEOREM FencingCorrect == Spec => []LeaseAtMostOnce
BY MemberCorrect, PTL DEF MemberInv

\* While every script runs to its end, processing and lease list the same
\* members and the sweeper has nothing to recover.
THEOREM ProcessingCorrect == Spec => []ProcessingLeased
BY MemberCorrect, PTL DEF MemberInv

-----------------------------------------------------------------------------
(* The urls behind the members.                                            *)

\* All live members are jobs, none with an id still to be minted.
LEMMA LiveJobs ==
    ASSUME TypeOK, MemberInv
    PROVE  \A j \in Live : j \in Job /\ j.url \in URL /\ j.id \in Nat /\ j.id <= seq
BY DEF TypeOK, MemberInv, IdsMinted, Live, ZSet, Job

\* A batch of n distinct members gets new ids: every url keeps its jobs.
LEMMA RequeueBatch ==
    ASSUME TypeOK, MemberInv, UrlInv, NEW n \in Nat, NEW b \in [1..n -> Live],
           \A i, j \in 1..n : i < j => b[i] # b[j],
           Live' = (Live \ Range(b)) \cup Minted([i \in 1..n |-> b[i].url], n),
           bloom' = bloom
    PROVE  OneJobPerUrl' /\ \A u : HasJob(u)' <=> HasJob(u)
<1> DEFINE M == Minted([i \in 1..n |-> b[i].url], n)
<1>1. \A i \in 1..n : [id |-> seq + i, url |-> b[i].url] \in M
  BY DEF Minted
<1>2. \A j \in M : \E i \in 1..n : j.id = seq + i /\ j.url = b[i].url
                                   /\ j = [id |-> seq + i, url |-> b[i].url]
  BY DEF Minted
<1>3. \A i \in 1..n : b[i] \in Live /\ b[i] \in Range(b)
  BY DEF Range
<1>4. \A j \in Range(b) : \E i \in 1..n : j = b[i]
  BY DEF Range
<1> HIDE DEF M
<1>5. \A u : HasJob(u)' <=> HasJob(u)
  <2>1. ASSUME NEW u, HasJob(u)
        PROVE  HasJob(u)'
    <3>1. PICK j \in Live : j.url = u
      BY <2>1 DEF HasJob
    <3>2. CASE j \in Range(b)
      <4>1. PICK i \in 1..n : j = b[i]
        BY <3>2, <1>4
      <4>2. [id |-> seq + i, url |-> b[i].url] \in Live'
        BY <1>1 DEF M
      <4>3. QED
        BY <3>1, <4>1, <4>2 DEF HasJob
    <3>3. CASE j \notin Range(b)
      BY <3>1, <3>3 DEF HasJob
    <3>4. QED
      BY <3>2, <3>3
  <2>2. ASSUME NEW u, HasJob(u)'
        PROVE  HasJob(u)
    <3>1. PICK j \in Live' : j.url = u
      BY <2>2 DEF HasJob
    <3>2. j \in Live \/ j \in M
      BY <3>1 DEF M
    <3>3. QED
      BY <3>1, <3>2, <1>2, <1>3 DEF HasJob
  <2>3. QED
    BY <2>1, <2>2
<1>6. OneJobPerUrl'
  <2>1. SUFFICES ASSUME NEW j \in Live', NEW k \in Live', j.url = k.url,
                        j.url \in Listings \cup bloom
                 PROVE  j = k
    BY DEF OneJobPerUrl
  <2>2. (j \in Live \ Range(b) \/ j \in M) /\ (k \in Live \ Range(b) \/ k \in M)
    BY DEF M
  <2>3. CASE j \in Live \ Range(b) /\ k \in Live \ Range(b)
    BY <2>1, <2>3 DEF UrlInv, OneJobPerUrl
  <2>4. CASE j \in Live \ Range(b) /\ k \in M
    BY <2>1, <2>4, <1>2, <1>3 DEF UrlInv, OneJobPerUrl
  <2>5. CASE j \in M /\ k \in Live \ Range(b)
    BY <2>1, <2>5, <1>2, <1>3 DEF UrlInv, OneJobPerUrl
  <2>6. CASE j \in M /\ k \in M
    <3>1. PICK i \in 1..n : j.url = b[i].url /\ j = [id |-> seq + i, url |-> b[i].url]
      BY <2>6, <1>2
    <3>2. PICK l \in 1..n : k.url = b[l].url /\ k = [id |-> seq + l, url |-> b[l].url]
      BY <2>6, <1>2
    <3>3. b[i] = b[l]
      BY <2>1, <3>1, <3>2, <1>3 DEF UrlInv, OneJobPerUrl
    <3>4. i = l
      BY <3>3
    <3>5. QED
      BY <3>1, <3>2, <3>4
  <2>7. QED
    BY <2>2, <2>3, <2>4, <2>5, <2>6
<1>7. QED
  BY <1>5, <1>6

\* The same for one member.
LEMMA RequeueOne ==
    ASSUME TypeOK, MemberInv, UrlInv, NEW j \in Live,
           Live' = (Live \ {j}) \cup {Mint(j.url)}, bloom' = bloom
    PROVE  OneJobPerUrl' /\ \A u : HasJob(u)' <=> HasJob(u)
<1>1. Mint(j.url).url = j.url
  BY DEF Mint
<1>2. \A u : HasJob(u)' <=> HasJob(u)
  BY <1>1 DEF HasJob
<1>3. OneJobPerUrl'
  BY <1>1 DEF UrlInv, OneJobPerUrl
<1>4. QED
  BY <1>2, <1>3

\* A resolved job that leaves nothing behind was the only one of its url.
LEMMA RemoveJob ==
    ASSUME UrlInv, NEW j \in Live, Live' = Live \ {j}, bloom' = bloom
    PROVE  /\ OneJobPerUrl'
           /\ \A u : u # j.url => (HasJob(u)' <=> HasJob(u))
           /\ HasJob(j.url)' => HasJob(j.url)
           /\ j.url \in Listings \cup bloom => ~HasJob(j.url)'
BY DEF UrlInv, OneJobPerUrl, HasJob

\* A new job for a url without one, or for a url that nothing claims.
LEMMA AddJob ==
    ASSUME UrlInv, NEW u, Live' = Live \cup {Mint(u)},
           ~HasJob(u) \/ u \notin Listings \cup bloom',
           bloom \subseteq bloom', bloom' \subseteq bloom \cup {u}
    PROVE  /\ OneJobPerUrl'
           /\ \A v : v # u => (HasJob(v)' <=> HasJob(v))
           /\ HasJob(u)'
<1>1. Mint(u).url = u
  BY DEF Mint
<1>2. QED
  BY <1>1 DEF UrlInv, OneJobPerUrl, HasJob

\* Scripts that leave the jobs of every url and the facts about urls alone.
LEMMA UrlSame ==
    ASSUME UrlInv, OneJobPerUrl', \A u : HasJob(u)' <=> HasJob(u),
           UNCHANGED <<dead, attempts, strikes, listingNext, bloom, acked>>
    PROVE  UrlInv'
<1>1. BloomFull' <=> BloomFull
  BY DEF BloomFull
<1>2. PendingIffLive' /\ UnclaimedWhenFull' /\ VideosDieForever'
  BY <1>1 DEF UrlInv, PendingIffLive, Pending, UnclaimedWhenFull, VideosDieForever
<1>3. ClaimAccounted' /\ QuarantineScheduled' /\ FailureAccounting'
  BY DEF UrlInv, ClaimAccounted, QuarantineScheduled, FailureAccounting
<1>4. QED
  BY <1>2, <1>3 DEF UrlInv

\* Admissions preserve the facts about urls.
LEMMA UrlAdmit ==
    ASSUME TypeOK, MemberInv, UrlInv, Admit
    PROVE  UrlInv'
<1>1. ASSUME NEW u \in Videos, NEW t \in Reading, AdmitVideo(u, t)
      PROVE  UrlInv'
  <2>1. /\ ~Blocked(u, t) /\ dead' = ZRem(dead, {u})
        /\ UNCHANGED <<processing, delayed, attempts, strikes, listingNext, acked>>
    BY <1>1 DEF AdmitVideo, counters
  <2>2. u \notin DOMAIN dead
    BY <2>1 DEF Blocked, UrlInv, VideosDieForever
  <2>3. dead' = dead
    BY <2>1, <2>2 DEF ZRem, Restrict, TypeOK, ZSet
  <2>4. u \notin Listings
    BY UrlAssumption
  <2>5. CASE VideoSuppressed
    <3>1. Live' = Live /\ bloom' = bloom
      BY <2>1, <2>5 DEF VideoSuppressed, Live
    <3>2. OneJobPerUrl' /\ \A v : HasJob(v)' <=> HasJob(v)
      BY <3>1 DEF UrlInv, OneJobPerUrl, HasJob
    <3>3. QED
      BY <2>1, <2>3, <3>1, <3>2, UrlSame
  <2>6. CASE VideoNew(u)
    <3>1. Live' = Live \cup {Mint(u)} /\ bloom' = bloom \cup {u} /\ ~BloomFull /\ u \notin bloom
      BY <2>1, <2>6 DEF VideoNew, Live
    <3>2. ~HasJob(u) /\ u \notin acked
      BY <3>1 DEF UrlInv, UnclaimedWhenFull
    <3>3. OneJobPerUrl' /\ HasJob(u)' /\ \A v : v # u => (HasJob(v)' <=> HasJob(v))
      BY <3>1, <3>2, AddJob
    <3>4. PendingIffLive' /\ VideosDieForever' /\ QuarantineScheduled'
      BY <2>1, <2>3, <2>4, <3>3 DEF UrlInv, PendingIffLive, Pending, VideosDieForever,
         QuarantineScheduled
    <3>5. UnclaimedWhenFull'
      BY <2>1, <2>3, <3>1, <3>3 DEF UrlInv, UnclaimedWhenFull
    <3>6. ClaimAccounted'
      BY <2>1, <2>2, <2>3, <3>1, <3>2, <3>3 DEF UrlInv, ClaimAccounted
    <3>7. FailureAccounting'
      BY <2>1, <3>3 DEF UrlInv, FailureAccounting
    <3>8. QED
      BY <3>3, <3>4, <3>5, <3>6, <3>7 DEF UrlInv
  <2>7. CASE VideoUnclaimed(u)
    <3>1. Live' = Live \cup {Mint(u)} /\ bloom' = bloom /\ BloomFull /\ u \notin bloom
      BY <2>1, <2>7 DEF VideoUnclaimed, Live
    <3>2. OneJobPerUrl' /\ HasJob(u)' /\ \A v : v # u => (HasJob(v)' <=> HasJob(v))
      BY <2>4, <3>1, AddJob
    <3>3. PendingIffLive' /\ VideosDieForever' /\ QuarantineScheduled'
      BY <2>1, <2>3, <2>4, <3>2 DEF UrlInv, PendingIffLive, Pending, VideosDieForever,
         QuarantineScheduled
    <3>4. UnclaimedWhenFull'
      BY <3>1 DEF UnclaimedWhenFull, BloomFull
    <3>5. ClaimAccounted'
      BY <2>1, <2>3, <3>1, <3>2 DEF UrlInv, ClaimAccounted
    <3>6. FailureAccounting'
      BY <2>1, <3>2 DEF UrlInv, FailureAccounting
    <3>7. QED
      BY <3>2, <3>3, <3>4, <3>5, <3>6 DEF UrlInv
  <2>8. QED
    BY <1>1, <2>5, <2>6, <2>7 DEF AdmitVideo
<1>2. ASSUME NEW u \in Listings, NEW t \in Reading, AdmitListing(u, t)
      PROVE  UrlInv'
  <2>1. /\ ~Blocked(u, t) /\ dead' = ZRem(dead, {u})
        /\ UNCHANGED <<processing, delayed, attempts, strikes, bloom, acked>>
    BY <1>2 DEF AdmitListing, counters
  <2>2. u \notin Videos /\ t \in Nat /\ t <= MaxTime
    BY UrlAssumption, ReadingType DEF TypeOK
  <2>3. CASE ListingDue(u, t)
    <3>1. Live' = Live \cup {Mint(u)} /\ listingNext' = ZAdd(listingNext, u, PendingScore)
      BY <1>2, <2>1, <2>3 DEF AdmitListing, Live
    <3>2. ~Pending(u)
      BY <2>2, <2>3, ConstantsType, PendingAfterClock DEF ListingDue, Pending
    <3>3. ~HasJob(u)
      BY <3>2 DEF UrlInv, PendingIffLive
    <3>4. OneJobPerUrl' /\ HasJob(u)' /\ \A v : v # u => (HasJob(v)' <=> HasJob(v))
      BY <2>1, <3>1, <3>3, AddJob
    <3>5. /\ Pending(u)'
          /\ \A v : v # u => (Pending(v)' <=> Pending(v))
          /\ \A v \in DOMAIN listingNext \ {u} :
                v \in DOMAIN listingNext' /\ listingNext'[v] = listingNext[v]
      BY <3>1 DEF Pending, ZAdd
    <3>6. /\ DOMAIN dead' = DOMAIN dead \ {u}
          /\ \A v \in DOMAIN dead \ {u} : dead'[v] = dead[v]
      BY <2>1, ZRemScores
    <3>7. PendingIffLive' /\ VideosDieForever'
      BY <3>4, <3>5, <3>6 DEF UrlInv, PendingIffLive, VideosDieForever
    <3>8. QuarantineScheduled'
      BY <3>5, <3>6 DEF UrlInv, QuarantineScheduled
    <3>9. UnclaimedWhenFull' /\ ClaimAccounted'
      BY <2>1, <2>2, <3>4, <3>6 DEF UrlInv, UnclaimedWhenFull, ClaimAccounted, BloomFull, TypeOK
    <3>10. FailureAccounting'
      BY <2>1, <3>4 DEF UrlInv, FailureAccounting
    <3>11. QED
      BY <3>4, <3>7, <3>8, <3>9, <3>10 DEF UrlInv
  <2>4. CASE ~ListingDue(u, t)
    <3>1. UNCHANGED <<ready, listingNext>>
      BY <1>2, <2>4 DEF AdmitListing
    <3>2. u \notin DOMAIN dead
      <4>1. SUFFICES ASSUME u \in DOMAIN dead
                     PROVE  FALSE
        OBVIOUS
      <4>2. listingNext[u] = dead[u] /\ dead[u] \in Nat /\ dead[u] # 0
        BY <4>1 DEF UrlInv, QuarantineScheduled, TypeOK, ZSet
      <4>3. QED
        BY <2>1, <2>2, <2>4, <4>1, <4>2 DEF Blocked, ListingDue
    <3>3. dead' = dead
      BY <2>1, <3>2 DEF ZRem, Restrict, TypeOK, ZSet
    <3>4. OneJobPerUrl' /\ \A v : HasJob(v)' <=> HasJob(v)
      BY <2>1, <3>1 DEF UrlInv, OneJobPerUrl, HasJob, Live
    <3>5. QED
      BY <2>1, <3>1, <3>3, <3>4, UrlSame
  <2>5. QED
    BY <2>3, <2>4
<1>3. CASE SeedListing
  <2>1. /\ BaseUrl \notin DOMAIN listingNext
        /\ listingNext' = ZAdd(listingNext, BaseUrl, 0)
        /\ UNCHANGED <<ready, processing, delayed, dead, attempts, strikes, bloom, acked>>
    BY <1>3 DEF SeedListing, counters
  <2>2. OneJobPerUrl' /\ \A v : HasJob(v)' <=> HasJob(v)
    BY <2>1 DEF UrlInv, OneJobPerUrl, HasJob, Live
  <2>3. /\ DOMAIN listingNext' = DOMAIN listingNext \cup {BaseUrl}
        /\ listingNext'[BaseUrl] = 0
        /\ \A v \in DOMAIN listingNext : listingNext'[v] = listingNext[v]
    BY <2>1 DEF ZAdd
  <2>4. PendingScore # 0
    BY ConstantsType, PendingAfterClock
  <2>5. PendingIffLive' /\ QuarantineScheduled'
    BY <2>1, <2>2, <2>3, <2>4 DEF UrlInv, PendingIffLive, Pending, QuarantineScheduled
  <2>6. UnclaimedWhenFull' /\ VideosDieForever' /\ ClaimAccounted' /\ FailureAccounting'
    BY <2>1, <2>2 DEF UrlInv, UnclaimedWhenFull, VideosDieForever, ClaimAccounted,
       FailureAccounting, BloomFull
  <2>7. QED
    BY <2>2, <2>5, <2>6 DEF UrlInv
<1>4. QED
  BY <1>1, <1>2, <1>3 DEF Admit

\* The worker's job leaves processing and its url has no other, if claimed.
LEMMA ReleaseJob ==
    ASSUME TypeOK, MemberInv, UrlInv, NEW w \in Workers, Owns(w), Release(w),
           UNCHANGED <<ready, delayed, bloom>>, NEW u, u = holds[w].url
    PROVE  /\ u \in URL /\ HasJob(u)
           /\ OneJobPerUrl'
           /\ \A v : v # u => (HasJob(v)' <=> HasJob(v))
           /\ u \in Listings \cup bloom => ~HasJob(u)'
<1>1. PICK j \in processing : j = holds[w]
  BY DEF Owns, MemberInv, ProcessingLeased
<1>2. j \in Live /\ j.url = u /\ u \in URL /\ HasJob(u)
  BY <1>1, LiveJobs DEF Live, HasJob
<1>3. Live' = Live \ {j}
  BY <1>1 DEF Release, Live, MemberInv, QueuesDisjoint
<1>4. /\ OneJobPerUrl'
      /\ \A v : v # j.url => (HasJob(v)' <=> HasJob(v))
      /\ j.url \in Listings \cup bloom => ~HasJob(j.url)'
  BY <1>2, <1>3, RemoveJob
<1>5. QED
  BY <1>2, <1>4

\* Scripts that resolve a job for good.  Its url u ends without counters; it
\* is Acked, buried, or rescheduled, and nothing changes for any other url.
LEMMA UrlResolved ==
    ASSUME TypeOK, MemberInv, UrlInv, NEW w \in Workers, Owns(w), Release(w),
           UNCHANGED <<ready, delayed, bloom>>, NEW u, u = holds[w].url,
           ClearFailures(u),
           \A v \in URL \ {u} :
              /\ v \in DOMAIN dead' <=> v \in DOMAIN dead
              /\ v \in DOMAIN dead => dead'[v] = dead[v]
              /\ v \in DOMAIN listingNext' <=> v \in DOMAIN listingNext
              /\ v \in DOMAIN listingNext => listingNext'[v] = listingNext[v]
              /\ v \in acked' <=> v \in acked,
           u \in Videos =>
              \/ u \in acked' /\ UNCHANGED dead
              \/ u \in DOMAIN dead' /\ dead'[u] = 0 /\ UNCHANGED acked,
           u \in Listings =>
              /\ u \in DOMAIN listingNext'
              /\ listingNext'[u] # PendingScore
              /\ u \in DOMAIN dead' => dead'[u] > 0 /\ dead'[u] = listingNext'[u]
    PROVE  UrlInv'
<1>1. /\ u \in URL /\ HasJob(u) /\ OneJobPerUrl'
      /\ \A v : v # u => (HasJob(v)' <=> HasJob(v))
      /\ u \in Listings \cup bloom => ~HasJob(u)'
  BY ReleaseJob
<1>2. /\ attempts'[u] = 0 /\ strikes'[u] = 0
      /\ \A v \in URL \ {u} : attempts'[v] = attempts[v] /\ strikes'[v] = strikes[v]
  BY <1>1 DEF ClearFailures, TypeOK
<1>3. BloomFull' <=> BloomFull
  BY DEF BloomFull
<1>4. PendingIffLive'
  <2>1. ASSUME NEW v \in Listings
        PROVE  Pending(v)' <=> HasJob(v)'
    <3>1. CASE v = u
      <4>1. ~HasJob(u)'
        BY <3>1, <1>1
      <4>2. ~Pending(u)'
        BY <3>1 DEF Pending
      <4>3. QED
        BY <3>1, <4>1, <4>2
    <3>2. CASE v # u
      BY <3>2, <1>1 DEF Pending, UrlInv, PendingIffLive, URL
    <3>3. QED
      BY <3>1, <3>2
  <2>2. QED
    BY <2>1 DEF PendingIffLive
<1>5. UnclaimedWhenFull'
  <2>1. ASSUME NEW v \in Videos \ bloom,
               HasJob(v)' \/ v \in acked' \/ v \in DOMAIN dead'
        PROVE  BloomFull
    <3>1. CASE v = u
      BY <3>1, <1>1 DEF UrlInv, UnclaimedWhenFull
    <3>2. CASE v # u
      BY <2>1, <3>2, <1>1 DEF UrlInv, UnclaimedWhenFull, URL
    <3>3. QED
      BY <3>1, <3>2
  <2>2. QED
    BY <2>1, <1>3 DEF UnclaimedWhenFull
<1>6. VideosDieForever'
  <2>1. ASSUME NEW v \in Videos \cap DOMAIN dead'
        PROVE  dead'[v] = 0
    <3>1. CASE v = u
      BY <3>1 DEF UrlInv, VideosDieForever
    <3>2. CASE v # u
      BY <3>2 DEF UrlInv, VideosDieForever, URL
    <3>3. QED
      BY <3>1, <3>2
  <2>2. QED
    BY <2>1 DEF VideosDieForever
<1>7. ClaimAccounted'
  <2>1. ASSUME NEW v \in bloom
        PROVE  /\ HasJob(v)' \/ v \in acked' \/ v \in DOMAIN dead'
               /\ ~(HasJob(v)' /\ v \in acked')
               /\ ~(HasJob(v)' /\ v \in DOMAIN dead')
               /\ ~(v \in acked' /\ v \in DOMAIN dead')
    <3>1. v \in Videos /\ v \in URL
      BY DEF TypeOK, URL
    <3>2. CASE v = u
      <4>1. ~HasJob(u)' /\ u \notin acked /\ u \notin DOMAIN dead
        BY <3>2, <1>1 DEF UrlInv, ClaimAccounted
      <4>2. QED
        <5>1. u \in Videos
          BY <3>1, <3>2
        <5>2. \/ u \in acked' /\ dead' = dead
              \/ u \in DOMAIN dead' /\ acked' = acked
          BY <5>1
        <5>3. QED
          BY <3>2, <4>1, <5>2
    <3>3. CASE v # u
      BY <3>1, <3>3, <1>1 DEF UrlInv, ClaimAccounted
    <3>4. QED
      BY <3>2, <3>3
  <2>2. QED
    BY <2>1 DEF ClaimAccounted
<1>8. QuarantineScheduled'
  <2>1. ASSUME NEW v \in Listings, v \in DOMAIN dead'
        PROVE  dead'[v] > 0 /\ v \in DOMAIN listingNext' /\ listingNext'[v] = dead'[v]
    <3>1. CASE v = u
      BY <2>1, <3>1
    <3>2. CASE v # u
      BY <2>1, <3>2 DEF UrlInv, QuarantineScheduled, URL
    <3>3. QED
      BY <3>1, <3>2
  <2>2. QED
    BY <2>1 DEF QuarantineScheduled
<1>9. FailureAccounting'
  <2>1. MaxStrikes > 0
    BY LimitAssumption
  <2>2. QED
    BY <1>1, <1>2, <2>1 DEF UrlInv, FailureAccounting
<1>10. QED
  BY <1>1, <1>4, <1>5, <1>6, <1>7, <1>8, <1>9 DEF UrlInv

\* Bury meets the conditions of UrlResolved: 0 buries a video, and a listing
\* gets the end of its quarantine in both structures.
LEMMA UrlBuried ==
    ASSUME TypeOK, MemberInv, UrlInv, NEW w \in Workers, NEW t \in Reading,
           Owns(w), Release(w), UNCHANGED <<ready, delayed, bloom, acked>>,
           Bury(holds[w].url, QuarantineUntil(holds[w].url, t))
    PROVE  UrlInv'
<1>1. PICK u : u = holds[w].url
  OBVIOUS
<1> DEFINE until == QuarantineUntil(u, t)
<1>2. /\ u \in Videos => until = 0
      /\ u \in Listings => until = t + QuarantineListing
  BY UrlAssumption DEF QuarantineUntil
<1>3. u \in Listings => until > 0 /\ until # PendingScore
  <2>1. now \in 1..MaxTime
    BY DEF TypeOK
  <2>2. t \in Nat /\ t >= 1 /\ t <= MaxTime
    BY <2>1, ReadingType
  <2>3. t + QuarantineListing > 0 /\ t + QuarantineListing # PendingScore
    BY <2>2, ConstantsType, PendingIsLater
  <2>4. QED
    BY <1>2, <2>3
<1> HIDE DEF until
<1>4. /\ dead' = ZAdd(dead, u, until)
      /\ listingNext' = IF until > 0 THEN ZAdd(listingNext, u, until) ELSE listingNext
      /\ ClearFailures(u)
  BY <1>1 DEF Bury, until
<1>5. /\ u \in DOMAIN dead' /\ dead'[u] = until
      /\ \A v \in URL \ {u} : /\ v \in DOMAIN dead' <=> v \in DOMAIN dead
                              /\ v \in DOMAIN dead => dead'[v] = dead[v]
      /\ \A v \in URL \ {u} :
            /\ v \in DOMAIN listingNext' <=> v \in DOMAIN listingNext
            /\ v \in DOMAIN listingNext => listingNext'[v] = listingNext[v]
      /\ until > 0 => u \in DOMAIN listingNext' /\ listingNext'[u] = until
  BY <1>4 DEF ZAdd
<1>6. QED
  BY <1>1, <1>2, <1>3, <1>4, <1>5, UrlResolved

\* Terminal is Bury and nothing else of what the facts about urls read.
LEMMA UrlTerminal ==
    ASSUME TypeOK, MemberInv, UrlInv, NEW w \in Workers, NEW t \in Reading, Terminal(w, t)
    PROVE  UrlInv'
BY UrlBuried DEF Terminal

\* Fail preserves the facts about urls on both of its branches.
LEMMA UrlFail ==
    ASSUME TypeOK, MemberInv, UrlInv, NEW w \in Workers, NEW t \in Reading,
           NEW class \in FailClass, Fail(w, class, t)
    PROVE  UrlInv'
<1>1. CASE FailDead(w, class, t)
  BY <1>1, UrlBuried DEF Fail, FailDead
<1>2. CASE FailDelayed(w, class, t)
  <2>1. PICK j \in processing : j = holds[w]
    BY DEF Fail, Owns, MemberInv, ProcessingLeased
  <2>2. PICK u \in URL : u = j.url
    BY <2>1, LiveJobs DEF Live
  <2>3. /\ ~Exhausted(u, class)
        /\ attempts' = [attempts EXCEPT ![u] = attempts[u] + 1]
        /\ strikes' = [strikes EXCEPT ![u] = StrikesAfter(u, class)]
        /\ DOMAIN delayed' = DOMAIN delayed \cup {Mint(u)}
        /\ processing' = processing \ {j}
        /\ UNCHANGED <<ready, listingNext, dead, bloom, acked>>
    BY <1>2, <2>1, <2>2, ZAddScores DEF Fail, FailDelayed, Release
  <2>4. j \in Live /\ Live' = (Live \ {j}) \cup {Mint(j.url)}
    BY <2>1, <2>2, <2>3 DEF Live, MemberInv, QueuesDisjoint
  <2>5. OneJobPerUrl' /\ \A v : HasJob(v)' <=> HasJob(v)
    BY <2>3, <2>4, RequeueOne
  <2>6. FailureAccounting'
    <3>1. HasJob(u)'
      BY <2>2, <2>4, <2>5 DEF HasJob
    <3>2. attempts[u] \in Nat /\ strikes[u] \in Nat /\ MaxStrikes \in Nat
      BY LimitAssumption DEF TypeOK
    <3>3. strikes[u] <= attempts[u] /\ strikes[u] < MaxStrikes
      BY DEF UrlInv, FailureAccounting
    <3>4. StrikesAfter(u, class) <= attempts[u] + 1 /\ StrikesAfter(u, class) < MaxStrikes
      BY <2>3, <3>2, <3>3 DEF Exhausted, StrikesAfter
    <3>5. /\ attempts'[u] = attempts[u] + 1 /\ strikes'[u] = StrikesAfter(u, class)
          /\ \A v \in URL \ {u} : attempts'[v] = attempts[v] /\ strikes'[v] = strikes[v]
      BY <2>3 DEF TypeOK
    <3>6. QED
      BY <2>5, <3>1, <3>4, <3>5 DEF UrlInv, FailureAccounting
  <2>7. PendingIffLive' /\ UnclaimedWhenFull' /\ VideosDieForever'
    BY <2>3, <2>5 DEF UrlInv, PendingIffLive, Pending, UnclaimedWhenFull, VideosDieForever,
       BloomFull
  <2>8. ClaimAccounted' /\ QuarantineScheduled'
    BY <2>3, <2>5 DEF UrlInv, ClaimAccounted, QuarantineScheduled
  <2>9. QED
    BY <2>5, <2>6, <2>7, <2>8 DEF UrlInv
<1>3. QED
  BY <1>1, <1>2 DEF Fail

\* Calls of a worker preserve the facts about urls.
LEMMA UrlWork ==
    ASSUME TypeOK, MemberInv, UrlInv, Work
    PROVE  UrlInv'
<1>1. PICK w \in Workers :
      \/ LeaseNothing(w) \/ Ack(w) \/ Nack(w) \/ Drop(w)
      \/ \E t \in Reading :
            \/ Lease(w, t) \/ Terminal(w, t)
            \/ \E class \in FailClass : Fail(w, class, t)
            \/ \E fresh \in BOOLEAN : CompleteListing(w, fresh, t)
  BY DEF Work
<1>2. CASE LeaseNothing(w) \/ Drop(w)
  <2>1. UNCHANGED <<ready, processing, delayed, dead, attempts, strikes, listingNext, bloom, acked>>
    BY <1>2 DEF LeaseNothing, Drop, vars, counters
  <2>2. OneJobPerUrl' /\ \A u : HasJob(u)' <=> HasJob(u)
    BY <2>1 DEF UrlInv, OneJobPerUrl, HasJob, Live
  <2>3. QED
    BY <2>1, <2>2, UrlSame
<1>3. ASSUME NEW t \in Reading, Lease(w, t)
      PROVE  UrlInv'
  <2>1. UNCHANGED <<delayed, dead, attempts, strikes, listingNext, bloom, acked>>
    BY <1>3 DEF Lease, counters
  <2>2. Live' = Live
    BY <1>3, <2>1 DEF Lease, Live
  <2>3. OneJobPerUrl' /\ \A u : HasJob(u)' <=> HasJob(u)
    BY <2>1, <2>2 DEF UrlInv, OneJobPerUrl, HasJob
  <2>4. QED
    BY <2>1, <2>3, UrlSame
<1>4. CASE Nack(w)
  <2>1. PICK j \in processing : j = holds[w]
    BY <1>4 DEF Nack, Owns, MemberInv, ProcessingLeased
  <2>2. /\ ready' = ready \cup {Mint(j.url)}
        /\ processing' = processing \ {j}
        /\ UNCHANGED <<delayed, dead, attempts, strikes, listingNext, bloom, acked>>
    BY <1>4, <2>1 DEF Nack, Release, counters
  <2>3. j \in Live /\ Live' = (Live \ {j}) \cup {Mint(j.url)}
    BY <2>1, <2>2 DEF Live, MemberInv, QueuesDisjoint
  <2>4. OneJobPerUrl' /\ \A u : HasJob(u)' <=> HasJob(u)
    BY <2>2, <2>3, RequeueOne
  <2>5. QED
    BY <2>2, <2>4, UrlSame
<1>5. CASE Ack(w)
  <2>1. PICK u : u = holds[w].url
    OBVIOUS
  <2>2. /\ u \in Videos /\ u \notin Listings
        /\ ClearFailures(u) /\ acked' = acked \cup {u}
        /\ UNCHANGED <<ready, delayed, dead, listingNext, bloom>>
    BY <1>5, <2>1, UrlAssumption DEF Ack
  <2>3. QED
    BY <1>5, <2>1, <2>2, UrlResolved DEF Ack
<1>6. ASSUME NEW t \in Reading, Terminal(w, t)
      PROVE  UrlInv'
  BY <1>6, UrlTerminal
<1>7. ASSUME NEW t \in Reading, NEW fresh \in BOOLEAN, CompleteListing(w, fresh, t)
      PROVE  UrlInv'
  <2>1. PICK u : u = holds[w].url
    OBVIOUS
  <2>2. PICK next : next = t + RevisitTTL(u, IF fresh THEN 0 ELSE barren[u] + 1)
    OBVIOUS
  <2>3. next # PendingScore
    <3>1. PICK ttl \in 0..ListingMaxTTL : next = t + ttl
      BY <2>2, RevisitTTLType
    <3>2. now \in 1..MaxTime
      BY DEF TypeOK
    <3>3. t \in Nat /\ t <= MaxTime
      BY <3>2, ReadingType
    <3>4. QED
      BY <3>1, <3>3, ConstantsType, PendingIsLater
  <2>4. /\ u \in Listings /\ u \notin Videos
        /\ ClearFailures(u)
        /\ dead' = ZRem(dead, {u})
        /\ listingNext' = ZAdd(listingNext, u, next)
        /\ UNCHANGED <<ready, delayed, bloom, acked>>
    BY <1>7, <2>1, <2>2, UrlAssumption DEF CompleteListing
  <2>5. /\ u \in DOMAIN listingNext' /\ listingNext'[u] = next
        /\ \A v \in URL \ {u} :
              /\ v \in DOMAIN listingNext' <=> v \in DOMAIN listingNext
              /\ v \in DOMAIN listingNext => listingNext'[v] = listingNext[v]
    BY <2>4 DEF ZAdd
  <2>6. /\ u \notin DOMAIN dead'
        /\ \A v \in URL \ {u} : /\ v \in DOMAIN dead' <=> v \in DOMAIN dead
                                /\ v \in DOMAIN dead => dead'[v] = dead[v]
    BY <2>4 DEF ZRem, Restrict
  <2>7. QED
    BY <1>7, <2>1, <2>3, <2>4, <2>5, <2>6, UrlResolved DEF CompleteListing
<1>8. QED
  BY <1>1, <1>2, <1>3, <1>4, <1>5, <1>6, <1>7, UrlFail

\* A page of the schedule holds listings that are due, hence without a job,
\* and none of them is blocked: a quarantine ends when its schedule says.
LEMMA DuePage ==
    ASSUME TypeOK, MemberInv, UrlInv, NEW t \in Reading, NEW n \in Nat,
           NEW b \in Page(listingNext, t, SchedulerBatchLimit, n)
    PROVE  \A u \in Range(b) :
              u \in Listings /\ u \in DOMAIN listingNext /\ ~HasJob(u) /\ ~Blocked(u, t)
<1> SUFFICES ASSUME NEW u \in Range(b)
             PROVE  u \in Listings /\ u \in DOMAIN listingNext /\ ~HasJob(u) /\ ~Blocked(u, t)
  OBVIOUS
<1>1. u \in DOMAIN listingNext /\ u \in Listings /\ listingNext[u] <= t
  BY PageMembers DEF TypeOK, ZSet
<1>2. ~Pending(u)
  <2>1. now \in 1..MaxTime
    BY DEF TypeOK
  <2>2. t \in Nat /\ t <= MaxTime
    BY <2>1, ReadingType
  <2>3. listingNext[u] # PendingScore
    BY <1>1, <2>2, ConstantsType, PendingAfterClock DEF TypeOK, ZSet
  <2>4. QED
    BY <2>3 DEF Pending
<1>3. ~HasJob(u)
  BY <1>1, <1>2 DEF UrlInv, PendingIffLive
<1>4. ~Blocked(u, t)
  BY <1>1, ReadingType DEF Blocked, UrlInv, QuarantineScheduled, TypeOK, ZSet
<1>5. QED
  BY <1>1, <1>3, <1>4

\* A step that leaves the keyspace alone preserves the facts about urls.
LEMMA UrlStutter ==
    ASSUME TypeOK, MemberInv, UrlInv,
           UNCHANGED <<ready, processing, delayed, dead, attempts, strikes, listingNext,
                       bloom, acked>>
    PROVE  UrlInv'
<1>1. OneJobPerUrl' /\ \A u : HasJob(u)' <=> HasJob(u)
  BY DEF UrlInv, OneJobPerUrl, HasJob, Live
<1>2. QED
  BY <1>1, UrlSame

\* Ticks of a reconciler preserve the facts about urls.
LEMMA UrlReconcile ==
    ASSUME TypeOK, MemberInv, UrlInv, Reconcile
    PROVE  UrlInv'
<1>1. ASSUME NEW t \in Reading, NEW n \in 1..ReapBatchLimit,
             NEW b \in Page(lease, t, ReapBatchLimit, n), ReapPage(n, b)
      PROVE  UrlInv'
  <2>1. n \in Nat
    BY ConstantsType
  <2>2. /\ b \in [1..n -> processing] /\ Range(b) \subseteq processing
        /\ \A i, j \in 1..n : i < j => b[i] # b[j]
    BY <2>1, PageMembers DEF MemberInv, ProcessingLeased
  <2>3. /\ ready' = ready \cup Minted([i \in 1..n |-> b[i].url], n)
        /\ processing' = processing \ Range(b)
        /\ UNCHANGED <<delayed, dead, attempts, strikes, listingNext, bloom, acked>>
    BY <1>1 DEF ReapPage, counters
  <2>4. b \in [1..n -> Live]
    BY <2>2 DEF Live
  <2>5. Live' = (Live \ Range(b)) \cup Minted([i \in 1..n |-> b[i].url], n)
    BY <2>2, <2>3 DEF Live, MemberInv, QueuesDisjoint
  <2>6. OneJobPerUrl' /\ \A u : HasJob(u)' <=> HasJob(u)
    BY <2>1, <2>2, <2>3, <2>4, <2>5, RequeueBatch
  <2>7. QED
    BY <2>3, <2>6, UrlSame
<1>2. ASSUME NEW t \in Reading, NEW n \in 1..PromoteBatchLimit,
             NEW b \in Page(delayed, t, PromoteBatchLimit, n), PromotePage(n, b)
      PROVE  UrlInv'
  <2>1. n \in Nat
    BY ConstantsType
  <2>2. /\ b \in [1..n -> DOMAIN delayed] /\ Range(b) \subseteq DOMAIN delayed
        /\ \A i, j \in 1..n : i < j => b[i] # b[j]
    BY <2>1, PageMembers
  <2>3. /\ ready' = ready \cup Minted([i \in 1..n |-> b[i].url], n)
        /\ DOMAIN delayed' = DOMAIN delayed \ Range(b)
        /\ UNCHANGED <<processing, dead, attempts, strikes, listingNext, bloom, acked>>
    BY <1>2, ZRemScores DEF PromotePage, counters
  <2>4. b \in [1..n -> Live]
    BY <2>2 DEF Live
  <2>5. Live' = (Live \ Range(b)) \cup Minted([i \in 1..n |-> b[i].url], n)
    BY <2>2, <2>3 DEF Live, MemberInv, QueuesDisjoint
  <2>6. OneJobPerUrl' /\ \A u : HasJob(u)' <=> HasJob(u)
    BY <2>1, <2>2, <2>3, <2>4, <2>5, RequeueBatch
  <2>7. QED
    BY <2>3, <2>6, UrlSame
<1>3. ASSUME NEW t \in Reading, NEW n \in 1..SchedulerBatchLimit,
             NEW b \in Page(listingNext, t, SchedulerBatchLimit, n),
             SchedulePage(t, n, b)
      PROVE  UrlInv'
  <2> DEFINE blocked == {u \in Range(b) : Blocked(u, t)}
             admitted == {i \in 1..n : b[i] \notin blocked}
             Rank(i) == Cardinality({k \in admitted : k <= i})
             M == {[id |-> seq + Rank(i), url |-> b[i]] : i \in admitted}
  <2>1. n \in Nat
    BY ConstantsType
  <2>2. \A u \in Range(b) : u \in Listings /\ u \in DOMAIN listingNext /\ ~HasJob(u)
    BY <2>1, DuePage
  <2>3. blocked = {}
    BY <2>1, DuePage
  <2>4. /\ ready' = ready \cup M
        /\ listingNext' = [u \in DOMAIN listingNext |->
                             IF u \in Range(b) THEN PendingScore ELSE listingNext[u]]
        /\ dead' = ZRem(dead, Range(b))
        /\ UNCHANGED <<processing, delayed, attempts, strikes, bloom, acked>>
    BY <1>3, <2>3 DEF SchedulePage, counters
  <2>5. /\ \A j \in M : j.url \in Range(b)
        /\ \A u \in Range(b) : \E j \in M : j.url = u
        /\ \A j, k \in M : j.url = k.url => j = k
    <3>1. /\ \A i \in admitted : b[i] \in Range(b)
          /\ \A u \in Range(b) : \E i \in admitted : u = b[i]
      BY <2>3 DEF Range, Page
    <3>2. \A i, j \in admitted : b[i] = b[j] => i = j
      BY <2>1, PageMembers
    <3> HIDE DEF admitted, Rank
    <3>3. \A j \in M : \E i \in admitted : j = [id |-> seq + Rank(i), url |-> b[i]]
                                           /\ j.url = b[i]
      OBVIOUS
    <3>4. \A i \in admitted : \E j \in M : j.url = b[i]
      <4>1. \A i \in admitted : [id |-> seq + Rank(i), url |-> b[i]] \in M
        OBVIOUS
      <4> HIDE DEF M
      <4>2. QED
        BY <4>1
    <3> HIDE DEF M
    <3>5. QED
      BY <3>1, <3>2, <3>3, <3>4
  <2> HIDE DEF M
  <2>6. Live' = Live \cup M
    BY <2>4 DEF Live
  <2>7. \A u : HasJob(u)' <=> HasJob(u) \/ u \in Range(b)
    BY <2>5, <2>6 DEF HasJob
  <2>8. OneJobPerUrl'
    <3>1. \A j \in Live : j.url \notin Range(b)
      BY <2>2 DEF HasJob
    <3>2. QED
      BY <2>4, <2>5, <2>6, <3>1 DEF UrlInv, OneJobPerUrl
  <2>9. \A u : Pending(u)' <=> Pending(u) \/ u \in Range(b)
    BY <2>2, <2>4 DEF Pending
  <2>10. /\ DOMAIN dead' = DOMAIN dead \ Range(b)
         /\ \A u \in DOMAIN dead' : dead'[u] = dead[u]
    BY <2>4 DEF ZRem, Restrict
  <2>11. PendingIffLive' /\ VideosDieForever'
    BY <2>7, <2>9, <2>10 DEF UrlInv, PendingIffLive, VideosDieForever
  <2>12. QuarantineScheduled'
    BY <2>4, <2>10 DEF UrlInv, QuarantineScheduled
  <2>13. \A v \in Videos : v \notin Range(b)
    BY <2>2, UrlAssumption
  <2>14. UnclaimedWhenFull' /\ ClaimAccounted'
    BY <2>4, <2>7, <2>10, <2>13 DEF UrlInv, UnclaimedWhenFull, ClaimAccounted, BloomFull, TypeOK
  <2>15. FailureAccounting'
    BY <2>4, <2>7 DEF UrlInv, FailureAccounting
  <2>16. QED
    BY <2>8, <2>11, <2>12, <2>14, <2>15 DEF UrlInv
<1>4. CASE Sweep
  BY <1>4, NothingToSweep, UrlStutter DEF MemberInv, vars, counters
<1>5. QED
  BY <1>1, <1>2, <1>3, <1>4 DEF Reconcile, Reap, Promote, RunListingScheduler

\* Every step preserves the facts about urls.
LEMMA UrlNext ==
    ASSUME TypeOK, MemberInv, UrlInv, [Next]_vars
    PROVE  UrlInv'
BY UrlStutter, UrlAdmit, UrlWork, UrlReconcile DEF Next, Tick, vars, counters

\* The facts about urls hold of the empty keyspace.
LEMMA UrlInit == Init => UrlInv
<1> SUFFICES ASSUME Init PROVE UrlInv
  OBVIOUS
<1>1. \A u : ~HasJob(u)
  BY DEF Init, HasJob, Live
<1>2. OneJobPerUrl /\ PendingIffLive /\ UnclaimedWhenFull /\ VideosDieForever
  BY <1>1 DEF Init, OneJobPerUrl, Live, PendingIffLive, Pending, UnclaimedWhenFull,
     VideosDieForever
<1>3. ClaimAccounted /\ QuarantineScheduled /\ FailureAccounting
  BY LimitAssumption DEF Init, ClaimAccounted, QuarantineScheduled, FailureAccounting
<1>4. QED
  BY <1>2, <1>3 DEF UrlInv

\* What the frontier knows of a video: a job, a past or a burial.
VideoKnown(v) == HasJob(v) \/ v \in acked \/ v \in DOMAIN dead

\* A resolved job that does not come back was Acked or buried, or a listing's.
LEMMA KnownWork ==
    ASSUME TypeOK, MemberInv, NEW v \in Videos, VideoKnown(v), Work
    PROVE  VideoKnown(v)'
<1> PICK w \in Workers :
      \/ LeaseNothing(w) \/ Ack(w) \/ Nack(w) \/ Drop(w)
      \/ \E t \in Reading :
            \/ Lease(w, t) \/ Terminal(w, t)
            \/ \E class \in FailClass : Fail(w, class, t)
            \/ \E fresh \in BOOLEAN : CompleteListing(w, fresh, t)
  BY DEF Work
<1>1. CASE LeaseNothing(w) \/ Drop(w)
  BY <1>1 DEF LeaseNothing, Drop, vars, VideoKnown, HasJob, Live
<1>2. ASSUME NEW t \in Reading, Lease(w, t)
      PROVE  VideoKnown(v)'
  <2>1. Live' = Live
    BY <1>2 DEF Lease, Live
  <2>2. QED
    BY <1>2, <2>1 DEF Lease, VideoKnown, HasJob
<1>3. ASSUME Owns(w), Release(w), ready \subseteq ready', DOMAIN delayed \subseteq DOMAIN delayed',
             acked \subseteq acked', v \in DOMAIN dead => v \in DOMAIN dead',
             v = holds[w].url => HasJob(v)' \/ v \in acked' \/ v \in DOMAIN dead'
      PROVE  VideoKnown(v)'
  <2>1. Live \ {holds[w]} \subseteq Live'
    BY <1>3 DEF Release, Live
  <2>2. QED
    BY <1>3, <2>1 DEF VideoKnown, HasJob
<1>4. CASE Nack(w)
  <2>1. Mint(holds[w].url) \in Live' /\ Mint(holds[w].url).url = holds[w].url
    BY <1>4 DEF Nack, Mint, Live
  <2>2. v = holds[w].url => HasJob(v)'
    BY <2>1 DEF HasJob
  <2>3. QED
    BY <1>3, <1>4, <2>2 DEF Nack
<1>5. CASE Ack(w)
  BY <1>3, <1>5 DEF Ack
<1>6. ASSUME NEW t \in Reading, Terminal(w, t) \/ \E class \in FailClass : Fail(w, class, t)
      PROVE  VideoKnown(v)'
  <2>1. CASE \/ Terminal(w, t)
             \/ \E class \in FailClass : Fail(w, class, t) /\ FailDead(w, class, t)
    <3>1. /\ dead' = ZAdd(dead, holds[w].url, QuarantineUntil(holds[w].url, t))
          /\ Owns(w) /\ Release(w) /\ UNCHANGED <<ready, delayed, acked>>
      BY <2>1 DEF Terminal, Fail, FailDead, Bury
    <3>2. DOMAIN dead' = DOMAIN dead \cup {holds[w].url}
      BY <3>1 DEF ZAdd
    <3>3. QED
      BY <1>3, <3>1, <3>2
  <2>2. ASSUME NEW class \in FailClass, Fail(w, class, t), FailDelayed(w, class, t)
        PROVE  VideoKnown(v)'
    <3>1. /\ DOMAIN delayed' = DOMAIN delayed \cup {Mint(holds[w].url)}
          /\ Owns(w) /\ Release(w) /\ UNCHANGED <<ready, dead, acked>>
      BY <2>2 DEF Fail, FailDelayed, ZAdd
    <3>2. Mint(holds[w].url) \in Live' /\ Mint(holds[w].url).url = holds[w].url
      BY <3>1 DEF Mint, Live
    <3>3. v = holds[w].url => HasJob(v)'
      BY <3>2 DEF HasJob
    <3>4. QED
      BY <1>3, <3>1, <3>3
  <2>3. QED
    BY <1>6, <2>1, <2>2 DEF Fail
<1>7. ASSUME NEW t \in Reading, NEW fresh \in BOOLEAN, CompleteListing(w, fresh, t)
      PROVE  VideoKnown(v)'
  <2>1. /\ holds[w].url \in Listings /\ dead' = ZRem(dead, {holds[w].url})
        /\ Owns(w) /\ Release(w) /\ UNCHANGED <<ready, delayed, acked>>
    BY <1>7 DEF CompleteListing
  <2>2. v # holds[w].url
    BY <2>1, UrlAssumption
  <2>3. v \in DOMAIN dead => v \in DOMAIN dead'
    BY <2>1, <2>2 DEF ZRem, Restrict
  <2>4. QED
    BY <1>3, <2>1, <2>2, <2>3
<1>8. QED
  BY <1>1, <1>2, <1>4, <1>5, <1>6, <1>7

\* The frontier forgets no video it has ever heard of.
LEMMA KnownNext ==
    ASSUME TypeOK, MemberInv, UrlInv, NEW v \in Videos, VideoKnown(v), [Next]_vars
    PROVE  VideoKnown(v)'
<1>1. ASSUME Live \subseteq Live', acked' = acked, v \in DOMAIN dead => v \in DOMAIN dead'
      PROVE  VideoKnown(v)'
  BY <1>1 DEF VideoKnown, HasJob
<1>2. CASE Tick \/ SeedListing \/ Sweep \/ UNCHANGED vars
  BY <1>1, <1>2, NothingToSweep DEF Tick, SeedListing, MemberInv, vars, Live
<1>3. ASSUME NEW u \in URL, NEW t \in Reading, AdmitVideo(u, t) \/ AdmitListing(u, t)
      PROVE  VideoKnown(v)'
  <2>1. /\ dead' = ZRem(dead, {u}) /\ ~Blocked(u, t)
        /\ ready \subseteq ready' /\ UNCHANGED <<processing, delayed, acked>>
    BY <1>3 DEF AdmitVideo, AdmitListing, VideoSuppressed, VideoNew, VideoUnclaimed
  <2>2. v = u => v \notin DOMAIN dead
    BY <2>1 DEF Blocked, UrlInv, VideosDieForever
  <2>3. QED
    BY <1>1, <2>1, <2>2 DEF Live, ZRem, Restrict
<1>4. ASSUME NEW n \in Nat, NEW b \in [1..n -> Live], Live \ Range(b) \subseteq Live',
             Minted([i \in 1..n |-> b[i].url], n) \subseteq Live', UNCHANGED <<acked, dead>>
      PROVE  VideoKnown(v)'
  <2>1. ASSUME NEW i \in 1..n
        PROVE  HasJob(b[i].url)'
    <3>1. [id |-> seq + i, url |-> b[i].url] \in Live'
      BY <1>4 DEF Minted
    <3>2. QED
      BY <3>1 DEF HasJob
  <2>2. \A j \in Live : HasJob(j.url)'
    BY <1>4, <2>1 DEF Range, HasJob
  <2>3. QED
    BY <1>4, <2>2 DEF VideoKnown, HasJob
<1>5. ASSUME NEW t \in Reading, NEW n \in 1..ReapBatchLimit,
             NEW b \in Page(lease, t, ReapBatchLimit, n), ReapPage(n, b)
      PROVE  VideoKnown(v)'
  <2>1. n \in Nat /\ b \in [1..n -> Live]
    BY ConstantsType, PageMembers DEF MemberInv, ProcessingLeased, Live
  <2>2. QED
    BY <1>4, <1>5, <2>1 DEF ReapPage, Live
<1>6. ASSUME NEW t \in Reading, NEW n \in 1..PromoteBatchLimit,
             NEW b \in Page(delayed, t, PromoteBatchLimit, n), PromotePage(n, b)
      PROVE  VideoKnown(v)'
  <2>1. n \in Nat /\ b \in [1..n -> Live]
    BY ConstantsType, PageMembers DEF Live
  <2>2. /\ ready' = ready \cup Minted([i \in 1..n |-> b[i].url], n)
        /\ DOMAIN delayed' = DOMAIN delayed \ Range(b)
        /\ UNCHANGED <<processing, dead, acked>>
    BY <1>6, ZRemScores DEF PromotePage
  <2>3. Live \ Range(b) \subseteq Live' /\ Minted([i \in 1..n |-> b[i].url], n) \subseteq Live'
    BY <2>2 DEF Live
  <2>4. QED
    BY <1>4, <2>1, <2>2, <2>3
<1>7. ASSUME NEW t \in Reading, NEW n \in 1..SchedulerBatchLimit,
             NEW b \in Page(listingNext, t, SchedulerBatchLimit, n),
             SchedulePage(t, n, b)
      PROVE  VideoKnown(v)'
  <2>1. v \notin Range(b)
    BY ConstantsType, DuePage, UrlAssumption
  <2>2. /\ \E S : dead' = ZRem(dead, Range(b) \ S)
        /\ ready \subseteq ready' /\ UNCHANGED <<processing, delayed, acked>>
    BY <1>7 DEF SchedulePage
  <2>3. QED
    BY <1>1, <2>1, <2>2 DEF Live, ZRem, Restrict
<1>8. QED
  BY <1>2, <1>3, <1>5, <1>6, <1>7, KnownWork
     DEF Next, Admit, Reconcile, Reap, Promote, RunListingScheduler, URL

\* The inductive invariant.
THEOREM InvariantCorrect == Spec => []IInv
<1>1. Init => IInv
  BY TypeInit, MemberInit, UrlInit DEF IInv
<1>2. IInv /\ [Next]_vars => IInv'
  BY TypeStep, MemberNext, UrlNext DEF IInv
<1>3. QED
  BY <1>1, <1>2, PTL DEF Spec

\* No two live jobs for a scheduled listing or a claimed video, ever.
THEOREM OneJobCorrect == Spec => []OneJobPerUrl
BY InvariantCorrect, PTL DEF IInv, UrlInv

\* PENDING and a live job come and go together, so no listing gets stuck.
THEOREM PendingCorrect == Spec => []PendingIffLive
BY InvariantCorrect, PTL DEF IInv, UrlInv

\* No claimed video is forgotten: it is queued, Acked or dead, and only one.
THEOREM ClaimCorrect == Spec => []ClaimAccounted
BY InvariantCorrect, PTL DEF IInv, UrlInv

\* A quarantined listing is scheduled for the end of its quarantine.
THEOREM QuarantineCorrect == Spec => []QuarantineScheduled
BY InvariantCorrect, PTL DEF IInv, UrlInv

\* The failure counters stay below the limit and die with the last job.
THEOREM FailureCorrect == Spec => []FailureAccounting
BY InvariantCorrect, PTL DEF IInv, UrlInv

-----------------------------------------------------------------------------
(* The action properties, which follow from IInv one script at a time.     *)

\* What LeaseEndsByOwner and NeverEarly say of one step.
LeasesEndByOwner ==
    \A j \in DOMAIN lease \ DOMAIN lease' :
        \/ lease[j] <= now
        \/ \E w \in Workers : holds[w] = j /\ holds'[w] = NoJob
DelayedOnTime == \A j \in DOMAIN delayed \ DOMAIN delayed' : delayed[j] <= now
ListingsOnTime ==
    \A u \in Listings \cap DOMAIN listingNext :
        ~HasJob(u) /\ HasJob(u)' => listingNext[u] <= now

\* Release ends one lease, that of the worker's own member.
LEMMA ReleaseOwn ==
    ASSUME TypeOK, NEW w \in Workers, Release(w)
    PROVE  LeasesEndByOwner
<1>1. DOMAIN lease' = DOMAIN lease \ {holds[w]}
  BY ZRemScores DEF Release
<1>2. holds'[w] = NoJob
  BY DEF Release, TypeOK
<1>3. QED
  BY <1>1, <1>2 DEF LeasesEndByOwner

\* Members leave the lease set released by their holder or reaped late.
LEMMA LeaseStep ==
    ASSUME IInv, [Next]_vars
    PROVE  LeasesEndByOwner
<1> TypeOK
  BY DEF IInv
<1>1. ASSUME lease' = lease
      PROVE  LeasesEndByOwner
  BY <1>1 DEF LeasesEndByOwner
<1>2. CASE Tick \/ UNCHANGED vars
  BY <1>1, <1>2 DEF Tick, vars
<1>3. CASE Admit
  BY <1>1, <1>3 DEF Admit, AdmitVideo, AdmitListing, SeedListing
<1>4. CASE Work
  <2> PICK w \in Workers :
        \/ LeaseNothing(w) \/ Ack(w) \/ Nack(w) \/ Drop(w)
        \/ \E t \in Reading :
              \/ Lease(w, t) \/ Terminal(w, t)
              \/ \E class \in FailClass : Fail(w, class, t)
              \/ \E fresh \in BOOLEAN : CompleteListing(w, fresh, t)
    BY <1>4 DEF Work
  <2>1. CASE Release(w)
    BY <2>1, ReleaseOwn
  <2>2. ASSUME NEW t \in Reading, Lease(w, t)
        PROVE  LeasesEndByOwner
    <3>1. PICK j \in ready : lease' = ZAdd(lease, j, t + LeaseTimeout)
      BY <2>2 DEF Lease
    <3>2. DOMAIN lease \subseteq DOMAIN lease'
      BY <3>1 DEF ZAdd
    <3>3. QED
      BY <3>2 DEF LeasesEndByOwner
  <2>3. CASE LeaseNothing(w) \/ Drop(w)
    BY <1>1, <2>3 DEF LeaseNothing, Drop, vars
  <2>4. QED
    BY <2>1, <2>2, <2>3 DEF Ack, Nack, Terminal, Fail, CompleteListing
<1>5. CASE Reconcile
  <2>1. CASE Sweep
    BY <1>1, <2>1 DEF Sweep, SweepPage
  <2>2. ASSUME NEW t \in Reading, Reap(t)
        PROVE  LeasesEndByOwner
    <3>1. PICK n \in 1..ReapBatchLimit :
             \E b \in Page(lease, t, ReapBatchLimit, n) : ReapPage(n, b)
      BY <2>2 DEF Reap
    <3>2. PICK b \in Page(lease, t, ReapBatchLimit, n) : ReapPage(n, b)
      BY <3>1
    <3>3. /\ b \in [1..n -> DOMAIN lease]
          /\ \A i \in 1..n : lease[b[i]] <= t
          /\ Range(b) = {b[i] : i \in 1..n}
      BY ConstantsType, PageMembers
    <3>4. DOMAIN lease \ DOMAIN lease' \subseteq Range(b)
      BY <3>2, ZRemScores DEF ReapPage
    <3>5. ASSUME NEW i \in 1..n
          PROVE  lease[b[i]] <= now
      <4>1. lease[b[i]] \in Nat /\ now \in Nat /\ t \in Nat /\ t <= now
        BY <3>3, ReadingType DEF TypeOK, ZSet
      <4>2. QED
        BY <3>3, <4>1
    <3>6. QED
      BY <3>3, <3>4, <3>5 DEF LeasesEndByOwner
  <2>3. ASSUME NEW t \in Reading, Promote(t) \/ RunListingScheduler(t)
        PROVE  LeasesEndByOwner
    BY <1>1, <2>3 DEF Promote, PromotePage, RunListingScheduler, SchedulePage
  <2>4. QED
    BY <1>5, <2>1, <2>2, <2>3 DEF Reconcile
<1>6. QED
  BY <1>2, <1>3, <1>4, <1>5 DEF Next

\* A late resolution never ends the lease of the worker that took over, for
\* any number of workers, timeouts, lags and batch limits.
THEOREM LeaseEndsCorrect == Spec => LeaseEndsByOwner
<1>1. IInv /\ [Next]_vars => [LeasesEndByOwner]_vars
  BY LeaseStep
<1>2. QED
  BY <1>1, InvariantCorrect, PTL DEF Spec, LeaseEndsByOwner, LeasesEndByOwner

-----------------------------------------------------------------------------
(* Nothing starts early.                                                   *)

\* The promoter alone takes jobs off delayed, when they are due.
LEMMA DelayedStep ==
    ASSUME IInv, [Next]_vars
    PROVE  DelayedOnTime
<1> TypeOK
  BY DEF IInv
<1>1. ASSUME DOMAIN delayed \subseteq DOMAIN delayed'
      PROVE  DelayedOnTime
  BY <1>1 DEF DelayedOnTime
<1>2. CASE Tick \/ Admit \/ UNCHANGED vars
  BY <1>1, <1>2 DEF Tick, Admit, AdmitVideo, AdmitListing, SeedListing, vars
<1>3. CASE Work
  <2> PICK w \in Workers :
        \/ LeaseNothing(w) \/ Ack(w) \/ Nack(w) \/ Drop(w)
        \/ \E t \in Reading :
              \/ Lease(w, t) \/ Terminal(w, t)
              \/ \E class \in FailClass : Fail(w, class, t)
              \/ \E fresh \in BOOLEAN : CompleteListing(w, fresh, t)
    BY <1>3 DEF Work
  <2>1. CASE LeaseNothing(w) \/ Ack(w) \/ Nack(w) \/ Drop(w)
    BY <1>1, <2>1 DEF LeaseNothing, Ack, Nack, Drop, vars
  <2>2. ASSUME NEW t \in Reading,
               \/ Lease(w, t) \/ Terminal(w, t)
               \/ \E fresh \in BOOLEAN : CompleteListing(w, fresh, t)
        PROVE  DelayedOnTime
    BY <1>1, <2>2 DEF Lease, Terminal, CompleteListing
  <2>3. ASSUME NEW t \in Reading, NEW class \in FailClass, Fail(w, class, t)
        PROVE  DelayedOnTime
    BY <1>1, <2>3 DEF Fail, FailDead, FailDelayed, ZAdd
  <2>4. QED
    BY <2>1, <2>2, <2>3
<1>4. CASE Reconcile
  <2>1. CASE Sweep
    BY <1>1, <2>1 DEF Sweep, SweepPage
  <2>2. ASSUME NEW t \in Reading, Promote(t)
        PROVE  DelayedOnTime
    <3>1. PICK n \in 1..PromoteBatchLimit :
             \E b \in Page(delayed, t, PromoteBatchLimit, n) : PromotePage(n, b)
      BY <2>2 DEF Promote
    <3>2. PICK b \in Page(delayed, t, PromoteBatchLimit, n) : PromotePage(n, b)
      BY <3>1
    <3>3. /\ b \in [1..n -> DOMAIN delayed]
          /\ \A i \in 1..n : delayed[b[i]] <= t
          /\ Range(b) = {b[i] : i \in 1..n}
      BY ConstantsType, PageMembers
    <3>4. DOMAIN delayed \ DOMAIN delayed' \subseteq Range(b)
      BY <3>2, ZRemScores DEF PromotePage
    <3>5. ASSUME NEW i \in 1..n
          PROVE  delayed[b[i]] <= now
      <4>1. delayed[b[i]] \in Nat /\ now \in Nat /\ t \in Nat /\ t <= now
        BY <3>3, ReadingType DEF TypeOK, ZSet
      <4>2. QED
        BY <3>3, <4>1
    <3>6. QED
      BY <3>3, <3>4, <3>5 DEF DelayedOnTime
  <2>3. ASSUME NEW t \in Reading, Reap(t) \/ RunListingScheduler(t)
        PROVE  DelayedOnTime
    BY <1>1, <2>3 DEF Reap, ReapPage, RunListingScheduler, SchedulePage
  <2>4. QED
    BY <1>4, <2>1, <2>2, <2>3 DEF Reconcile
<1>5. QED
  BY <1>2, <1>3, <1>4 DEF Next

\* A listing on the schedule becomes PENDING only when it is due: all other
\* scripts leave its time alone or set one before PendingScore.
PendingOnTime ==
    \A u \in Listings \cap DOMAIN listingNext :
        ~Pending(u) /\ Pending(u)' => listingNext[u] <= now

\* No time a script computes reaches PendingScore.
LEMMA TimeRoom ==
    ASSUME TypeOK, NEW t \in Reading
    PROVE  /\ t + QuarantineListing \in Nat /\ t + QuarantineListing # PendingScore
           /\ \A ttl \in Nat : ttl <= ListingMaxTTL =>
                 t + ttl \in Nat /\ t + ttl # PendingScore
<1>1. t \in Nat /\ t <= MaxTime
  BY ReadingType DEF TypeOK
<1>2. /\ PendingScore > MaxTime + ListingMaxTTL
      /\ PendingScore > MaxTime + QuarantineListing
  BY PendingIsLater
<1>3. QED
  BY <1>1, <1>2, ConstantsType

\* A new time for one listing is not PENDING.
LEMMA TimedListing ==
    ASSUME NEW u \in Listings, NEW until \in Nat, until # PendingScore,
           listingNext' = ZAdd(listingNext, u, until)
    PROVE  PendingOnTime
BY DEF PendingOnTime, Pending, ZAdd

LEMMA PendingStep ==
    ASSUME IInv, [Next]_vars
    PROVE  PendingOnTime
<1> TypeOK /\ now \in Nat
  BY DEF IInv, TypeOK
<1>1. ASSUME listingNext' = listingNext
      PROVE  PendingOnTime
  BY <1>1 DEF PendingOnTime, Pending
<1>2. CASE Tick \/ UNCHANGED vars
  BY <1>1, <1>2 DEF Tick, vars
<1>3. CASE Admit
  <2>1. ASSUME NEW u \in Videos, NEW t \in Reading, AdmitVideo(u, t)
        PROVE  PendingOnTime
    BY <1>1, <2>1 DEF AdmitVideo
  <2>2. ASSUME NEW u \in Listings, NEW t \in Reading, AdmitListing(u, t)
        PROVE  PendingOnTime
    <3>1. CASE ListingDue(u, t)
      <4>1. listingNext' = ZAdd(listingNext, u, PendingScore)
        BY <2>2, <3>1 DEF AdmitListing
      <4>2. u \in DOMAIN listingNext => listingNext[u] <= now
        BY <3>1, ReadingType DEF ListingDue, TypeOK, ZSet
      <4>3. QED
        BY <4>1, <4>2 DEF PendingOnTime, Pending, ZAdd
    <3>2. CASE ~ListingDue(u, t)
      BY <1>1, <2>2, <3>2 DEF AdmitListing
    <3>3. QED
      BY <3>1, <3>2
  <2>3. CASE SeedListing
    BY <2>3 DEF SeedListing, PendingOnTime, Pending, ZAdd
  <2>4. QED
    BY <1>3, <2>1, <2>2, <2>3 DEF Admit
<1>4. CASE Work
  <2> PICK w \in Workers :
        \/ LeaseNothing(w) \/ Ack(w) \/ Nack(w) \/ Drop(w)
        \/ \E t \in Reading :
              \/ Lease(w, t) \/ Terminal(w, t)
              \/ \E class \in FailClass : Fail(w, class, t)
              \/ \E fresh \in BOOLEAN : CompleteListing(w, fresh, t)
    BY <1>4 DEF Work
  <2> DEFINE u == holds[w].url
  <2>1. CASE LeaseNothing(w) \/ Ack(w) \/ Nack(w) \/ Drop(w)
    BY <1>1, <2>1 DEF LeaseNothing, Ack, Nack, Drop, vars
  <2>2. ASSUME NEW t \in Reading, Lease(w, t)
        PROVE  PendingOnTime
    BY <1>1, <2>2 DEF Lease
  <2>3. ASSUME NEW t \in Reading, Owns(w), Bury(u, QuarantineUntil(u, t))
        PROVE  PendingOnTime
    <3>1. u \in URL
      BY <2>3 DEF Owns, TypeOK, ZSet, Job
    <3>2. CASE QuarantineUntil(u, t) > 0
      <4>1. u \in Listings /\ QuarantineUntil(u, t) = t + QuarantineListing
        BY <3>1, <3>2 DEF QuarantineUntil, URL
      <4>2. t + QuarantineListing \in Nat /\ t + QuarantineListing # PendingScore
        BY TimeRoom
      <4>3. QED
        BY <2>3, <3>2, <4>1, <4>2, TimedListing DEF Bury
    <3>3. CASE ~(QuarantineUntil(u, t) > 0)
      BY <1>1, <2>3, <3>3 DEF Bury
    <3>4. QED
      BY <3>2, <3>3
  <2>4. ASSUME NEW t \in Reading, Terminal(w, t)
        PROVE  PendingOnTime
    BY <2>3, <2>4 DEF Terminal
  <2>5. ASSUME NEW t \in Reading, NEW class \in FailClass, Fail(w, class, t)
        PROVE  PendingOnTime
    BY <1>1, <2>3, <2>5 DEF Fail, FailDead, FailDelayed
  <2>6. ASSUME NEW t \in Reading, NEW fresh \in BOOLEAN, CompleteListing(w, fresh, t)
        PROVE  PendingOnTime
    <3> DEFINE n == IF fresh THEN 0 ELSE barren[u] + 1
               ttl == RevisitTTL(u, n)
    <3>1. ttl \in Nat /\ ttl <= ListingMaxTTL
      BY RevisitTTLType, ConstantsType
    <3>2. u \in Listings /\ listingNext' = ZAdd(listingNext, u, t + ttl)
      BY <2>6 DEF CompleteListing
    <3> HIDE DEF ttl, u
    <3>3. t + ttl \in Nat /\ t + ttl # PendingScore
      BY <3>1, TimeRoom
    <3>4. QED
      BY <3>2, <3>3, TimedListing
  <2>7. QED
    BY <2>1, <2>2, <2>4, <2>5, <2>6
<1>5. CASE Reconcile
  <2>1. CASE Sweep
    BY <1>1, <2>1 DEF Sweep, SweepPage
  <2>2. ASSUME NEW t \in Reading, RunListingScheduler(t)
        PROVE  PendingOnTime
    <3>1. PICK n \in 1..SchedulerBatchLimit :
             \E b \in Page(listingNext, t, SchedulerBatchLimit, n) : SchedulePage(t, n, b)
      BY <2>2 DEF RunListingScheduler
    <3>2. PICK b \in Page(listingNext, t, SchedulerBatchLimit, n) : SchedulePage(t, n, b)
      BY <3>1
    <3>3. ASSUME NEW v \in Range(b)
          PROVE  listingNext[v] <= now
      <4>1. v \in DOMAIN listingNext /\ listingNext[v] <= t
        BY ConstantsType, PageMembers
      <4>2. QED
        BY <4>1, ReadingType DEF TypeOK, ZSet
    <3>4. \A v \in DOMAIN listingNext' \ Range(b) :
              v \in DOMAIN listingNext /\ listingNext'[v] = listingNext[v]
      BY <3>2 DEF SchedulePage
    <3>5. QED
      BY <3>3, <3>4 DEF PendingOnTime, Pending
  <2>3. ASSUME NEW t \in Reading, Reap(t) \/ Promote(t)
        PROVE  PendingOnTime
    BY <1>1, <2>3 DEF Reap, ReapPage, Promote, PromotePage
  <2>4. QED
    BY <1>5, <2>1, <2>2, <2>3 DEF Reconcile
<1>6. QED
  BY <1>2, <1>3, <1>4, <1>5 DEF Next

\* No retry leaves its backoff and no listing gets a job before its time,
\* whatever clock readings the clients used.
THEOREM NeverEarlyCorrect == Spec => NeverEarly
<1>1. IInv /\ IInv' /\ [Next]_vars => [DelayedOnTime /\ ListingsOnTime]_vars
  <2>1. ASSUME IInv, IInv', [Next]_vars
        PROVE  ListingsOnTime
    BY <2>1, PendingStep DEF ListingsOnTime, PendingOnTime, IInv, UrlInv, PendingIffLive
  <2>2. QED
    BY <2>1, DelayedStep
<1>2. QED
  BY <1>1, InvariantCorrect, PTL
     DEF Spec, NeverEarly, DelayedOnTime, ListingsOnTime
=============================================================================
