-------------------------- MODULE LifecycleProofs ---------------------------
(***************************************************************************)
(* Frontier implements UrlLifecycle, for every value of the constants that *)
(* leaves the Bloom filter room for all videos: with IInv, every script is *)
(* a step of the life of the urls it touches and a stutter for all others. *)
(***************************************************************************)
EXTENDS FrontierLifecycle, FrontierSafety

Stage == [u \in URL |-> StageOf(u)]
Owners == [u \in URL |-> OwnersOf(u)]

\* The filter is not full before it holds every video.
LEMMA Room ==
    ASSUME RoomForAll, NEW S \in SUBSET Videos, NEW v \in Videos \ S
    PROVE  ~(Cardinality(S) >= BloomCapacity)
<1>1. S \subseteq Videos /\ S # Videos /\ IsFiniteSet(Videos)
  BY DEF RoomForAll
<1>2. IsFiniteSet(S) /\ Cardinality(S) <= Cardinality(Videos)
      /\ (Cardinality(S) = Cardinality(Videos) => S = Videos)
  BY <1>1, FS_Subset
<1>3. Cardinality(S) \in Nat /\ Cardinality(Videos) \in Nat /\ BloomCapacity \in Nat
  BY <1>1, <1>2, FS_CardinalityType, LimitAssumption
<1>4. QED
  BY <1>1, <1>2, <1>3 DEF RoomForAll

\* Without a full filter no unclaimed video has a job or a past.
LEMMA Unclaimed ==
    ASSUME RoomForAll, IInv, NEW v \in Videos \ bloom
    PROVE  ~HasJob(v) /\ v \notin acked /\ v \notin DOMAIN dead /\ ~BloomFull
<1>1. ~BloomFull
  BY Room DEF IInv, TypeOK, BloomFull
<1>2. QED
  BY <1>1 DEF IInv, UrlInv, UnclaimedWhenFull

\* A url has one live job at most; a video that has one is not dead or Acked.
LEMMA OneJob ==
    ASSUME RoomForAll, IInv, NEW j \in Live
    PROVE  /\ j.url \in URL
           /\ \A k \in Live : k.url = j.url => k = j
           /\ j.url \in Videos => j.url \notin DOMAIN dead
<1>1. j.url \in URL /\ HasJob(j.url)
  BY LiveJobs DEF IInv, HasJob
<1>2. j.url \in Listings \cup bloom
  BY <1>1, Unclaimed DEF URL
<1>3. QED
  BY <1>1, <1>2, UrlAssumption DEF IInv, UrlInv, OneJobPerUrl, ClaimAccounted

\* The stage of a url with a job is the queue the job is in.
LEMMA JobStage ==
    ASSUME RoomForAll, IInv, NEW j \in Live
    PROVE  /\ j \in ready => StageOf(j.url) = "queued"
           /\ j \in processing => StageOf(j.url) = "leased"
           /\ j \in DOMAIN delayed => StageOf(j.url) = "waiting"
BY OneJob DEF StageOf, JobIn, Live, IInv, MemberInv, QueuesDisjoint

\* The stage of a url without one.
LEMMA NoJobStage ==
    ASSUME IInv, NEW u \in URL, ~HasJob(u)
    PROVE  /\ u \in Listings =>
                StageOf(u) = IF u \notin DOMAIN listingNext THEN "unknown"
                             ELSE IF u \in DOMAIN dead THEN "dead" ELSE "scheduled"
           /\ u \in Videos /\ u \notin acked /\ u \notin DOMAIN dead =>
                StageOf(u) = "unknown"
<1>1. ~JobIn(u, ready) /\ ~JobIn(u, processing) /\ ~JobIn(u, DOMAIN delayed)
  BY DEF HasJob, JobIn, Live
<1>2. /\ u \in Listings => u \notin acked
      /\ u \in Videos => u \notin DOMAIN listingNext
      /\ u \in Listings /\ u \in DOMAIN dead => u \in DOMAIN listingNext
  BY UrlAssumption DEF IInv, TypeOK, ZSet, UrlInv, QuarantineScheduled
<1>3. QED
  BY <1>1, <1>2 DEF StageOf

\* A script that moves no job of u and nothing else of u leaves its stage.
LEMMA SameStage ==
    ASSUME NEW u, JobIn(u, ready)' <=> JobIn(u, ready),
           JobIn(u, processing)' <=> JobIn(u, processing),
           JobIn(u, DOMAIN delayed)' <=> JobIn(u, DOMAIN delayed),
           u \in DOMAIN dead' <=> u \in DOMAIN dead,
           u \in DOMAIN listingNext' <=> u \in DOMAIN listingNext,
           u \in acked' <=> u \in acked
    PROVE  StageOf(u)' = StageOf(u)
BY DEF StageOf

-----------------------------------------------------------------------------
(* Steps of UrlLifecycle, from what they do to each url.                   *)

LEMMA MoveStage ==
    ASSUME NEW S \in SUBSET URL, S # {}, NEW from, NEW to,
           \A u \in S : StageOf(u) \in from /\ StageOf(u)' = to,
           \A u \in URL \ S : StageOf(u)' = StageOf(u)
    PROVE  L!Move(S, from, to)
BY DEF L!Move, L!URL, URL

LEMMA DisownUrls ==
    ASSUME NEW S \in SUBSET URL,
           \A u \in S : OwnersOf(u)' = {},
           \A u \in URL \ S : OwnersOf(u)' = OwnersOf(u)
    PROVE  L!Disown(S)
BY DEF L!Disown, L!URL, URL

LEMMA SameOwners ==
    ASSUME lease' = lease, holds' = holds
    PROVE  Owners' = Owners /\ \A u : OwnersOf(u)' = OwnersOf(u)
BY DEF Owners, OwnersOf, Owns

LEMMA SameStages ==
    ASSUME \A u \in URL : StageOf(u)' = StageOf(u)
    PROVE  Stage' = Stage
BY DEF Stage

\* A new job in ready makes the stages of one url queued and no other.
LEMMA AdmitStage ==
    ASSUME NEW u \in URL, NEW from, StageOf(u) \in from,
           ready' = ready \cup {Mint(u)},
           UNCHANGED <<processing, delayed, acked>>,
           \A x \in URL \ {u} :
              /\ x \in DOMAIN dead' <=> x \in DOMAIN dead
              /\ x \in DOMAIN listingNext' <=> x \in DOMAIN listingNext
    PROVE  L!Move({u}, from, "queued")
<1>1. Mint(u) \in ready' /\ Mint(u).url = u
  BY DEF Mint
<1>2. StageOf(u)' = "queued"
  BY <1>1 DEF StageOf, JobIn
<1>3. ASSUME NEW x \in URL \ {u}
      PROVE  StageOf(x)' = StageOf(x)
  <2>1. JobIn(x, ready)' <=> JobIn(x, ready)
    BY <1>1 DEF JobIn
  <2>2. /\ JobIn(x, processing)' <=> JobIn(x, processing)
        /\ JobIn(x, DOMAIN delayed)' <=> JobIn(x, DOMAIN delayed)
    BY DEF JobIn
  <2>3. QED
    BY <2>1, <2>2, SameStage
<1>4. QED
  BY <1>2, <1>3, MoveStage

\* A video is discovered once; every other answer of BF.ADD changes nothing.
LEMMA VideoLife ==
    ASSUME RoomForAll, IInv, NEW u \in Videos, NEW t \in Reading, AdmitVideo(u, t)
    PROVE  L!Next \/ UNCHANGED <<Stage, Owners>>
<1>1. u \in URL /\ DOMAIN dead' = DOMAIN dead
  <2>1. u \notin DOMAIN dead
    BY DEF AdmitVideo, Blocked, IInv, UrlInv, VideosDieForever
  <2>2. DOMAIN dead' = DOMAIN dead \ {u}
    BY ZRemScores DEF AdmitVideo
  <2>3. QED
    BY <2>1, <2>2 DEF URL
<1>2. UNCHANGED <<processing, delayed, acked, listingNext, lease, holds>>
  BY DEF AdmitVideo
<1>3. CASE VideoNew(u)
  <2>1. StageOf(u) = "unknown"
    BY <1>1, <1>3, Unclaimed, NoJobStage DEF VideoNew
  <2>2. L!Move({u}, {"unknown"}, "queued")
    BY <1>1, <1>2, <1>3, <2>1, AdmitStage DEF VideoNew
  <2>3. L!Discover(u)
    BY <1>2, <2>2, SameOwners DEF L!Discover, Owners
  <2>4. QED
    BY <1>1, <2>3 DEF L!Next, L!URL, URL
<1>4. CASE VideoSuppressed
  BY <1>1, <1>2, <1>4, SameStage, SameStages, SameOwners DEF VideoSuppressed, JobIn
<1>5. ~VideoUnclaimed(u)
  BY Unclaimed DEF VideoUnclaimed
<1>6. QED
  BY <1>3, <1>4, <1>5 DEF AdmitVideo

\* A listing met on a page is discovered, or due again, or left alone.
LEMMA ListingLife ==
    ASSUME RoomForAll, IInv, NEW u \in Listings, NEW t \in Reading, AdmitListing(u, t)
    PROVE  L!Next \/ UNCHANGED <<Stage, Owners>>
<1>1. UNCHANGED <<processing, delayed, acked, lease, holds>> /\ u \in URL
  BY DEF AdmitListing, URL
<1>2. DOMAIN dead' = DOMAIN dead \ {u}
  BY ZRemScores DEF AdmitListing
<1>3. CASE ~ListingDue(u, t)
  <2>1. u \notin DOMAIN dead
    <3>1. SUFFICES ASSUME u \in DOMAIN dead PROVE FALSE
      OBVIOUS
    <3>2. dead[u] > 0 /\ listingNext[u] = dead[u] /\ ~(dead[u] = 0 \/ dead[u] > t)
      BY <3>1 DEF IInv, UrlInv, QuarantineScheduled, AdmitListing, Blocked
    <3>3. dead[u] \in Nat /\ t \in Nat
      BY <3>1, ReadingType DEF IInv, TypeOK, ZSet
    <3>4. QED
      BY <1>3, <3>2, <3>3 DEF ListingDue
  <2>2. ready' = ready /\ listingNext' = listingNext /\ DOMAIN dead' = DOMAIN dead
    BY <1>2, <1>3, <2>1 DEF AdmitListing
  <2>3. QED
    BY <1>1, <2>2, SameStage, SameStages, SameOwners DEF JobIn
<1>4. CASE ListingDue(u, t)
  <2>1. /\ ready' = ready \cup {Mint(u)}
        /\ DOMAIN listingNext' = DOMAIN listingNext \cup {u}
    <3>1. /\ ready' = ready \cup {Mint(u)}
          /\ listingNext' = ZAdd(listingNext, u, PendingScore)
      BY <1>4 DEF AdmitListing
    <3>2. QED
      BY <3>1, ZAddScores
  <2>2. ~Pending(u)
    <3>1. now \in 1..MaxTime
      BY DEF IInv, TypeOK
    <3>2. t \in Nat /\ t <= MaxTime
      BY <3>1, ReadingType
    <3>3. QED
      BY <1>4, <3>2, ConstantsType, PendingAfterClock DEF Pending, ListingDue
  <2>3. ~HasJob(u)
    BY <2>2 DEF IInv, UrlInv, PendingIffLive
  <2>4. StageOf(u) \in {"unknown", "scheduled", "dead"}
    BY <1>1, <2>3, NoJobStage
  <2>5. CASE StageOf(u) = "unknown"
    <3>1. L!Move({u}, {"unknown"}, "queued")
      BY <1>1, <1>2, <2>1, <2>5, AdmitStage
    <3>2. L!Discover(u)
      BY <1>1, <3>1, SameOwners DEF L!Discover, Owners
    <3>3. QED
      BY <1>1, <3>2 DEF L!Next, L!URL, URL
  <2>6. CASE StageOf(u) \in {"scheduled", "dead"}
    <3>1. L!Move({u}, {"scheduled", "dead"}, "queued")
      BY <1>1, <1>2, <2>1, <2>6, AdmitStage
    <3>2. L!Revisit({u})
      BY <1>1, <3>1, SameOwners DEF L!Revisit, Owners
    <3>3. QED
      BY <1>1, <3>2 DEF L!Next, L!URL, URL
  <2>7. QED
    BY <2>4, <2>5, <2>6
<1>5. QED
  BY <1>3, <1>4

\* The base listing enters the schedule from nowhere.
LEMMA SeedLife ==
    ASSUME IInv, SeedListing
    PROVE  L!Next
<1>1. /\ BaseUrl \in Listings /\ BaseUrl \in URL
      /\ DOMAIN listingNext' = DOMAIN listingNext \cup {BaseUrl}
      /\ UNCHANGED <<ready, processing, lease, delayed, dead, holds, acked>>
  BY UrlAssumption, ZAddScores DEF SeedListing, URL
<1>2. ~HasJob(BaseUrl) /\ BaseUrl \notin DOMAIN dead
  BY <1>1 DEF SeedListing, IInv, UrlInv, PendingIffLive, Pending, QuarantineScheduled
<1>3. StageOf(BaseUrl) = "unknown"
  BY <1>1, <1>2, NoJobStage DEF SeedListing
<1>4. StageOf(BaseUrl)' = "scheduled"
  BY <1>1, <1>2 DEF StageOf, JobIn, HasJob, Live
<1>5. \A x \in URL \ {BaseUrl} : StageOf(x)' = StageOf(x)
  BY <1>1, SameStage DEF JobIn
<1>6. L!Move({BaseUrl}, {"unknown"}, "scheduled")
  BY <1>1, <1>3, <1>4, <1>5, MoveStage
<1>7. L!Seed(BaseUrl)
  BY <1>1, <1>6, SameOwners DEF L!Seed, Owners
<1>8. QED
  BY <1>1, <1>7 DEF L!Next, L!URL, URL

-----------------------------------------------------------------------------
(* The calls of a worker.                                                  *)

\* The member of a worker that passes the fencing test is the only live job of
\* its url, and nobody else owns that url.
LEMMA OwnedJob ==
    ASSUME RoomForAll, IInv, NEW w \in Workers, Owns(w), NEW u, u = holds[w].url
    PROVE  /\ u \in URL /\ holds[w] \in processing
           /\ StageOf(u) = "leased" /\ OwnersOf(u) = {w}
           /\ ~JobIn(u, ready) /\ ~JobIn(u, DOMAIN delayed)
           /\ ~JobIn(u, processing \ {holds[w]})
           /\ u \in Videos => u \notin DOMAIN dead
<1>1. holds[w] \in processing /\ holds[w] \in Live /\ holds[w] # NoJob
  BY UrlAssumption DEF Owns, IInv, MemberInv, ProcessingLeased, Live, TypeOK, ZSet
<1>2. u \in URL /\ \A k \in Live : k.url = u => k = holds[w]
  BY <1>1, OneJob
<1>3. ~JobIn(u, ready) /\ ~JobIn(u, DOMAIN delayed) /\ ~JobIn(u, processing \ {holds[w]})
  BY <1>1, <1>2 DEF JobIn, Live, IInv, MemberInv, QueuesDisjoint
<1>4. ASSUME NEW v \in Workers, Owns(v), holds[v].url = u
      PROVE  v = w
  <2>1. holds[v] \in Live
    BY <1>4 DEF Owns, IInv, MemberInv, ProcessingLeased, Live
  <2>2. QED
    BY <1>1, <1>2, <1>4, <2>1 DEF IInv, MemberInv, LeaseAtMostOnce
<1>5. OwnersOf(u) = {w}
  BY <1>4 DEF OwnersOf
<1>6. QED
  BY <1>1, <1>2, <1>3, <1>5, JobStage, OneJob

\* A resolution: the lease of u ends, no worker owns u any more, and u goes to
\* one of the outcomes; no other url has noticed.
LEMMA ResolveLife ==
    ASSUME RoomForAll, IInv, NEW w \in Workers, Owns(w), Release(w),
           NEW u, u = holds[w].url,
           StageOf(u)' \in L!Outcomes(u),
           \A x \in URL \ {u} :
              /\ JobIn(x, ready)' <=> JobIn(x, ready)
              /\ JobIn(x, DOMAIN delayed)' <=> JobIn(x, DOMAIN delayed)
              /\ x \in DOMAIN dead' <=> x \in DOMAIN dead
              /\ x \in DOMAIN listingNext' <=> x \in DOMAIN listingNext
              /\ x \in acked' <=> x \in acked
    PROVE  L!Next
<1>1. /\ u \in URL /\ StageOf(u) = "leased" /\ OwnersOf(u) = {w}
  BY OwnedJob
<1>2. /\ DOMAIN lease' = DOMAIN lease \ {holds[w]}
      /\ processing' = processing \ {holds[w]}
      /\ \A v \in Workers : holds'[v] = IF v = w THEN NoJob ELSE holds[v]
  BY ZRemScores DEF Release, IInv, TypeOK
<1>3. NoJob \notin DOMAIN lease
  BY UrlAssumption DEF IInv, TypeOK, ZSet
<1>4. ASSUME NEW x \in URL \ {u}
      PROVE  StageOf(x)' = StageOf(x)
  <2>1. JobIn(x, processing)' <=> JobIn(x, processing)
    BY <1>2 DEF JobIn
  <2>2. QED
    BY <2>1, SameStage
<1>5. L!Move({u}, {"leased"}, StageOf(u)')
  BY <1>1, <1>4, MoveStage
<1>6. OwnersOf(u)' = {}
  BY <1>1, <1>2, <1>3 DEF OwnersOf, Owns
<1>7. \A x \in URL \ {u} : OwnersOf(x)' = OwnersOf(x)
  BY <1>2, <1>3 DEF OwnersOf, Owns
<1>8. L!Disown({u})
  BY <1>1, <1>6, <1>7, DisownUrls
<1>9. L!Resolve(w, u)
  BY <1>1, <1>5, <1>8 DEF L!Resolve
<1>10. QED
  BY <1>1, <1>9 DEF L!Next, L!URL, URL

LEMMA AckLife ==
    ASSUME RoomForAll, IInv, NEW w \in Workers, Ack(w)
    PROVE  L!Next
<1> PICK u : u = holds[w].url
  OBVIOUS
<1>1. /\ Owns(w) /\ Release(w) /\ u \in Videos /\ acked' = acked \cup {u}
      /\ UNCHANGED <<ready, delayed, dead, listingNext>>
      /\ processing' = processing \ {holds[w]}
  BY DEF Ack, Release
<1>2. /\ ~JobIn(u, ready) /\ ~JobIn(u, DOMAIN delayed)
      /\ ~JobIn(u, processing \ {holds[w]}) /\ u \notin DOMAIN dead
      /\ u \notin DOMAIN listingNext
  BY <1>1, OwnedJob, UrlAssumption DEF IInv, TypeOK, ZSet
<1>3. StageOf(u)' = "done"
  BY <1>1, <1>2 DEF StageOf, JobIn
<1>4. StageOf(u)' \in L!Outcomes(u)
  BY <1>1, <1>3 DEF L!Outcomes
<1>5. QED
  BY <1>1, <1>4, ResolveLife DEF JobIn

\* An exhausted or terminal job.
LEMMA BuryLife ==
    ASSUME RoomForAll, IInv, NEW w \in Workers, Owns(w), Release(w),
           NEW until, Bury(holds[w].url, until), UNCHANGED <<ready, delayed, acked>>
    PROVE  L!Next
<1> PICK u : u = holds[w].url
  OBVIOUS
<1>1. processing' = processing \ {holds[w]} /\ DOMAIN dead' = DOMAIN dead \cup {u}
  BY ZAddScores DEF Bury, Release
<1>2. /\ ~JobIn(u, ready) /\ ~JobIn(u, DOMAIN delayed)
      /\ ~JobIn(u, processing \ {holds[w]})
  BY OwnedJob
<1>3. StageOf(u)' = "dead"
  BY <1>1, <1>2 DEF StageOf, JobIn
<1>4. StageOf(u)' \in L!Outcomes(u)
  BY <1>3 DEF L!Outcomes
<1>5. listingNext' = ZAdd(listingNext, u, until) \/ listingNext' = listingNext
  BY DEF Bury
<1>6. \A x : x # u => (x \in DOMAIN listingNext' <=> x \in DOMAIN listingNext)
  <2>1. DOMAIN ZAdd(listingNext, u, until) = DOMAIN listingNext \cup {u}
    BY ZAddScores
  <2>2. QED
    BY <1>5, <2>1
<1>7. QED
  BY <1>1, <1>4, <1>6, ResolveLife DEF JobIn

\* A job put back, at once or for later.
LEMMA RetryLife ==
    ASSUME RoomForAll, IInv, NEW w \in Workers, Owns(w), Release(w),
           \/ /\ ready' = ready \cup {Mint(holds[w].url)}
              /\ DOMAIN delayed' = DOMAIN delayed
           \/ /\ DOMAIN delayed' = DOMAIN delayed \cup {Mint(holds[w].url)}
              /\ ready' = ready,
           UNCHANGED <<dead, listingNext, acked>>
    PROVE  L!Next
<1> PICK u : u = holds[w].url
  OBVIOUS
<1>1. processing' = processing \ {holds[w]} /\ Mint(u).url = u
  BY DEF Release, Mint
<1>2. ~JobIn(u, ready) /\ ~JobIn(u, processing \ {holds[w]})
  BY OwnedJob
<1>3. StageOf(u)' \in {"queued", "waiting"}
  BY <1>1, <1>2 DEF StageOf, JobIn
<1>4. StageOf(u)' \in L!Outcomes(u)
  BY <1>3 DEF L!Outcomes
<1>5. \A x : x # u => /\ JobIn(x, ready)' <=> JobIn(x, ready)
                      /\ JobIn(x, DOMAIN delayed)' <=> JobIn(x, DOMAIN delayed)
  BY <1>1 DEF JobIn
<1>6. QED
  BY <1>4, <1>5, ResolveLife

LEMMA CompleteLife ==
    ASSUME RoomForAll, IInv, NEW w \in Workers, NEW t, NEW fresh,
           CompleteListing(w, fresh, t)
    PROVE  L!Next
<1> PICK u : u = holds[w].url
  OBVIOUS
<1>1. /\ Owns(w) /\ Release(w) /\ u \in Listings /\ dead' = ZRem(dead, {u})
      /\ UNCHANGED <<ready, delayed, acked>>
      /\ processing' = processing \ {holds[w]}
  BY DEF CompleteListing, Release
<1>2. PICK at : listingNext' = ZAdd(listingNext, u, at)
  BY DEF CompleteListing
<1>3. DOMAIN dead' = DOMAIN dead \ {u} /\ DOMAIN listingNext' = DOMAIN listingNext \cup {u}
  <2>1. DOMAIN ZRem(dead, {u}) = DOMAIN dead \ {u}
    BY ZRemScores
  <2>2. DOMAIN ZAdd(listingNext, u, at) = DOMAIN listingNext \cup {u}
    BY ZAddScores
  <2>3. QED
    BY <1>1, <1>2, <2>1, <2>2
<1>4. /\ ~JobIn(u, ready) /\ ~JobIn(u, DOMAIN delayed)
      /\ ~JobIn(u, processing \ {holds[w]})
  BY <1>1, OwnedJob
<1>5. StageOf(u)' = "scheduled"
  BY <1>1, <1>3, <1>4 DEF StageOf, JobIn
<1>6. StageOf(u)' \in L!Outcomes(u)
  BY <1>1, <1>5, UrlAssumption DEF L!Outcomes
<1>7. QED
  BY <1>1, <1>3, <1>6, ResolveLife DEF JobIn

\* A lease takes a queued url for a worker that has none.
LEMMA LeaseLife ==
    ASSUME RoomForAll, IInv, NEW w \in Workers, NEW t, Lease(w, t)
    PROVE  L!Next
<1>1. PICK j \in ready :
        /\ ready' = ready \ {j}
        /\ processing' = processing \cup {j}
        /\ lease' = ZAdd(lease, j, t + LeaseTimeout)
        /\ holds' = [holds EXCEPT ![w] = j]
  BY DEF Lease
<1> DEFINE u == j.url
<1>2. UNCHANGED <<delayed, dead, listingNext, acked>> /\ holds[w] = NoJob
  BY DEF Lease
<1>3. /\ j \in Live /\ u \in URL /\ StageOf(u) = "queued"
      /\ \A k \in Live : k.url = u => k = j
  BY OneJob, JobStage DEF Live
<1>4. /\ DOMAIN lease' = DOMAIN lease \cup {j}
      /\ \A v \in Workers : holds'[v] = IF v = w THEN j ELSE holds[v]
      /\ NoJob \notin DOMAIN lease
  BY <1>1, ZAddScores, UrlAssumption DEF IInv, TypeOK, ZSet
<1>5. StageOf(u)' = "leased"
  BY <1>1, <1>3 DEF StageOf, JobIn, Live
<1>6. \A x \in URL \ {u} : StageOf(x)' = StageOf(x)
  <2>1. SUFFICES ASSUME NEW x \in URL \ {u} PROVE StageOf(x)' = StageOf(x)
    OBVIOUS
  <2>2. /\ JobIn(x, ready)' <=> JobIn(x, ready)
        /\ JobIn(x, processing)' <=> JobIn(x, processing)
        /\ JobIn(x, DOMAIN delayed)' <=> JobIn(x, DOMAIN delayed)
    BY <1>1, <1>2 DEF JobIn
  <2>3. QED
    BY <1>2, <2>2, SameStage
<1>7. L!Move({u}, {"queued"}, "leased")
  BY <1>3, <1>5, <1>6, MoveStage
<1>8. \A x \in URL : w \notin OwnersOf(x)
  BY <1>2, <1>4 DEF OwnersOf, Owns
<1>9. \A v \in Workers : holds[v] # j
  BY DEF IInv, MemberInv, LeaseAtMostOnce
<1>10. OwnersOf(u)' = {w}
  <2>1. w \in OwnersOf(u)'
    BY <1>4 DEF OwnersOf, Owns
  <2>2. ASSUME NEW v \in OwnersOf(u)', v # w
        PROVE  FALSE
    <3>1. holds[v] \in DOMAIN lease \cup {j} /\ holds[v].url = u /\ v \in Workers
      BY <1>4, <2>2 DEF OwnersOf, Owns
    <3>2. holds[v] \in processing
      BY <1>9, <3>1 DEF IInv, MemberInv, ProcessingLeased
    <3>3. QED
      BY <1>3, <1>9, <3>1, <3>2 DEF Live
  <2>3. QED
    BY <2>1, <2>2
<1>11. \A x \in URL \ {u} : OwnersOf(x)' = OwnersOf(x)
  BY <1>2, <1>4, <1>9 DEF OwnersOf, Owns
<1>12. Owners' = [Owners EXCEPT ![u] = {w}]
  BY <1>3, <1>10, <1>11 DEF Owners
<1>13. L!Take(w, u)
  BY <1>3, <1>7, <1>8, <1>12 DEF L!Take, L!URL, URL, Owners
<1>14. QED
  BY <1>3, <1>13 DEF L!Next, L!URL, URL

\* The owner is gone, or it never owned anything.
LEMMA DropLife ==
    ASSUME RoomForAll, IInv, NEW w \in Workers, Drop(w)
    PROVE  L!Next \/ UNCHANGED <<Stage, Owners>>
<1>1. /\ UNCHANGED <<ready, processing, lease, delayed, dead, listingNext, acked>>
      /\ \A v \in Workers : holds'[v] = IF v = w THEN NoJob ELSE holds[v]
      /\ NoJob \notin DOMAIN lease
  BY UrlAssumption DEF Drop, IInv, TypeOK, ZSet
<1>2. Stage' = Stage
  BY <1>1, SameStage, SameStages DEF JobIn
<1>3. CASE ~Owns(w)
  <2>1. \A x : OwnersOf(x)' = OwnersOf(x)
    BY <1>1, <1>3 DEF OwnersOf, Owns
  <2>2. QED
    BY <1>2, <2>1 DEF Owners
<1>4. CASE Owns(w)
  <2> PICK u : u = holds[w].url
    OBVIOUS
  <2>1. u \in URL /\ OwnersOf(u) = {w}
    BY <1>4, OwnedJob
  <2>2. OwnersOf(u)' = {}
    BY <1>1, <2>1 DEF OwnersOf, Owns
  <2>3. \A x \in URL \ {u} : OwnersOf(x)' = OwnersOf(x)
    BY <1>1 DEF OwnersOf, Owns
  <2>4. L!Disown({u})
    BY <2>1, <2>2, <2>3, DisownUrls
  <2>5. L!Abandon(u)
    BY <1>2, <2>1, <2>4 DEF L!Abandon, Stage, Owners
  <2>6. QED
    BY <2>1, <2>5 DEF L!Next, L!URL, URL
<1>5. QED
  BY <1>3, <1>4

\* Calls of a worker are steps in the life of one url, or of none.
LEMMA WorkLife ==
    ASSUME RoomForAll, IInv, Work
    PROVE  L!Next \/ UNCHANGED <<Stage, Owners>>
<1> PICK w \in Workers :
      \/ LeaseNothing(w) \/ Ack(w) \/ Nack(w) \/ Drop(w)
      \/ \E t \in Reading :
            \/ Lease(w, t) \/ Terminal(w, t)
            \/ \E class \in FailClass : Fail(w, class, t)
            \/ \E fresh \in BOOLEAN : CompleteListing(w, fresh, t)
  BY DEF Work
<1>1. CASE LeaseNothing(w)
  BY <1>1, SameOwners, SameStage, SameStages DEF LeaseNothing, vars, JobIn
<1>2. CASE Nack(w)
  BY <1>2, RetryLife DEF Nack
<1>3. ASSUME NEW t \in Reading, Terminal(w, t)
      PROVE  L!Next
  BY <1>3, BuryLife DEF Terminal
<1>4. ASSUME NEW t \in Reading, NEW class \in FailClass, Fail(w, class, t)
      PROVE  L!Next
  <2>1. CASE FailDead(w, class, t)
    BY <1>4, <2>1, BuryLife DEF Fail, FailDead
  <2>2. CASE FailDelayed(w, class, t)
    <3>1. /\ DOMAIN delayed' = DOMAIN delayed \cup {Mint(holds[w].url)}
          /\ UNCHANGED <<ready, dead, listingNext, acked>>
      BY <1>4, <2>2, ZAddScores DEF Fail, FailDelayed
    <3>2. QED
      BY <1>4, <3>1, RetryLife DEF Fail
  <2>3. QED
    BY <1>4, <2>1, <2>2 DEF Fail
<1>5. QED
  BY <1>1, <1>2, <1>3, <1>4, AckLife, DropLife, LeaseLife, CompleteLife

-----------------------------------------------------------------------------
(* The reconcilers.                                                        *)

\* Expired leases go back to the queue and their owners are owners no more.
LEMMA ReapLife ==
    ASSUME RoomForAll, IInv, NEW t \in Reading, Reap(t)
    PROVE  L!Next
<1>1. PICK n \in 1..ReapBatchLimit :
         \E b \in Page(lease, t, ReapBatchLimit, n) : ReapPage(n, b)
  BY DEF Reap
<1>2. PICK b \in Page(lease, t, ReapBatchLimit, n) : ReapPage(n, b)
  BY <1>1
<1>3. n \in Nat \ {0} /\ b \in [1..n -> DOMAIN lease] /\ Range(b) = {b[i] : i \in 1..n}
  BY ConstantsType, PageMembers
<1> DEFINE S == {b[i].url : i \in 1..n}
<1>4. /\ DOMAIN lease' = DOMAIN lease \ Range(b)
      /\ processing' = processing \ Range(b)
      /\ UNCHANGED <<delayed, dead, listingNext, holds, acked>>
      /\ ready' = ready \cup Minted([i \in 1..n |-> b[i].url], n)
  BY <1>2, ZRemScores DEF ReapPage
<1>5. \A i \in 1..n : b[i] \in processing /\ b[i] \in Live
  BY <1>3 DEF IInv, MemberInv, ProcessingLeased, Live
<1>6. S \in SUBSET URL /\ S # {}
  <2>1. 1 \in 1..n
    BY <1>3
  <2>2. QED
    BY <2>1, <1>5, OneJob
<1>7. ASSUME NEW u \in S
      PROVE  StageOf(u) = "leased" /\ StageOf(u)' = "queued" /\ OwnersOf(u)' = {}
  <2>1. PICK i \in 1..n : u = b[i].url
    OBVIOUS
  <2>2. StageOf(u) = "leased" /\ \A k \in Live : k.url = u => k = b[i]
    BY <1>5, <2>1, JobStage, OneJob
  <2>3. JobIn(u, ready)'
    <3>1. [id |-> seq + i, url |-> u] \in ready'
      BY <1>4, <2>1 DEF Minted
    <3>2. QED
      BY <3>1 DEF JobIn
  <2>4. \A k \in DOMAIN lease' : k.url # u
    BY <1>3, <1>4, <2>2 DEF IInv, MemberInv, ProcessingLeased, Live
  <2>5. QED
    BY <2>2, <2>3, <2>4 DEF StageOf, OwnersOf, Owns
<1>8. ASSUME NEW u \in URL \ S
      PROVE  StageOf(u)' = StageOf(u) /\ OwnersOf(u)' = OwnersOf(u)
  <2>1. \A k \in Range(b) : k.url # u
    BY <1>3
  <2>2. \A k \in Minted([i \in 1..n |-> b[i].url], n) : k.url # u
    BY DEF Minted
  <2>3. /\ JobIn(u, ready)' <=> JobIn(u, ready)
        /\ JobIn(u, processing)' <=> JobIn(u, processing)
        /\ JobIn(u, DOMAIN delayed)' <=> JobIn(u, DOMAIN delayed)
    BY <1>4, <2>1, <2>2 DEF JobIn
  <2>4. OwnersOf(u)' = OwnersOf(u)
    BY <1>4, <2>1 DEF OwnersOf, Owns
  <2>5. QED
    BY <1>4, <2>3, <2>4, SameStage
<1> HIDE DEF S
<1>9. L!Move(S, {"leased"}, "queued")
  BY <1>6, <1>7, <1>8, MoveStage
<1>10. L!Disown(S)
  BY <1>6, <1>7, <1>8, DisownUrls
<1>11. QED
  BY <1>6, <1>9, <1>10 DEF L!Expire, L!Next, L!URL, URL

\* Jobs whose backoff is over go back to the queue.
LEMMA PromoteLife ==
    ASSUME RoomForAll, IInv, NEW t \in Reading, Promote(t)
    PROVE  L!Next
<1>1. PICK n \in 1..PromoteBatchLimit :
         \E b \in Page(delayed, t, PromoteBatchLimit, n) : PromotePage(n, b)
  BY DEF Promote
<1>2. PICK b \in Page(delayed, t, PromoteBatchLimit, n) : PromotePage(n, b)
  BY <1>1
<1>3. n \in Nat \ {0} /\ b \in [1..n -> DOMAIN delayed] /\ Range(b) = {b[i] : i \in 1..n}
  BY ConstantsType, PageMembers
<1> DEFINE S == {b[i].url : i \in 1..n}
<1>4. /\ DOMAIN delayed' = DOMAIN delayed \ Range(b)
      /\ UNCHANGED <<processing, lease, dead, listingNext, holds, acked>>
      /\ ready' = ready \cup Minted([i \in 1..n |-> b[i].url], n)
  BY <1>2, ZRemScores DEF PromotePage
<1>5. \A i \in 1..n : b[i] \in DOMAIN delayed /\ b[i] \in Live
  BY <1>3 DEF Live
<1>6. S \in SUBSET URL /\ S # {}
  <2>1. 1 \in 1..n
    BY <1>3
  <2>2. QED
    BY <2>1, <1>5, OneJob
<1>7. ASSUME NEW u \in S
      PROVE  StageOf(u) = "waiting" /\ StageOf(u)' = "queued"
  <2>1. PICK i \in 1..n : u = b[i].url
    OBVIOUS
  <2>2. JobIn(u, ready)'
    <3>1. [id |-> seq + i, url |-> u] \in ready'
      BY <1>4, <2>1 DEF Minted
    <3>2. QED
      BY <3>1 DEF JobIn
  <2>3. QED
    BY <1>5, <2>1, <2>2, JobStage DEF StageOf
<1>8. ASSUME NEW u \in URL \ S
      PROVE  StageOf(u)' = StageOf(u)
  <2>1. \A k \in Range(b) : k.url # u
    BY <1>3
  <2>2. \A k \in Minted([i \in 1..n |-> b[i].url], n) : k.url # u
    BY DEF Minted
  <2>3. /\ JobIn(u, ready)' <=> JobIn(u, ready)
        /\ JobIn(u, processing)' <=> JobIn(u, processing)
        /\ JobIn(u, DOMAIN delayed)' <=> JobIn(u, DOMAIN delayed)
    BY <1>4, <2>1, <2>2 DEF JobIn
  <2>4. QED
    BY <1>4, <2>3, SameStage
<1> HIDE DEF S
<1>9. L!Move(S, {"waiting"}, "queued")
  BY <1>6, <1>7, <1>8, MoveStage
<1>10. L!Promote(S)
  BY <1>4, <1>9, SameOwners DEF L!Promote, Owners
<1>11. QED
  BY <1>6, <1>10 DEF L!Next, L!URL, URL

\* Due listings, none of which is blocked, go to the queue.
LEMMA ScheduleLife ==
    ASSUME RoomForAll, IInv, NEW t \in Reading, RunListingScheduler(t)
    PROVE  L!Next
<1>1. PICK n \in 1..SchedulerBatchLimit :
         \E b \in Page(listingNext, t, SchedulerBatchLimit, n) : SchedulePage(t, n, b)
  BY DEF RunListingScheduler
<1>2. PICK b \in Page(listingNext, t, SchedulerBatchLimit, n) : SchedulePage(t, n, b)
  BY <1>1
<1>3. n \in Nat \ {0} /\ b \in [1..n -> DOMAIN listingNext] /\ Range(b) = {b[i] : i \in 1..n}
  BY ConstantsType, PageMembers
<1> DEFINE S == Range(b)
<1>4. \A u \in S : u \in Listings /\ u \in DOMAIN listingNext /\ ~HasJob(u) /\ ~Blocked(u, t)
  BY <1>3, DuePage DEF IInv
<1>5. S \subseteq Listings /\ S \in SUBSET URL /\ S # {}
  <2>1. 1 \in 1..n
    BY <1>3
  <2>2. QED
    BY <1>3, <1>4, <2>1 DEF URL
<1> DEFINE Rank(i) == Cardinality({k \in 1..n : k <= i})
<1>6. /\ ready' = ready \cup {[id |-> seq + Rank(i), url |-> b[i]] : i \in 1..n}
      /\ DOMAIN listingNext' = DOMAIN listingNext
      /\ DOMAIN dead' = DOMAIN dead \ S
      /\ UNCHANGED <<processing, lease, delayed, holds, acked>>
  <2>1. {u \in S : Blocked(u, t)} = {}
    BY <1>4
  <2>2. {i \in 1..n : b[i] \notin {u \in S : Blocked(u, t)}} = 1..n
    BY <2>1
  <2>3. {u \in {u \in S : Blocked(u, t)} : dead[u] = 0} = {}
    BY <2>1
  <2>4. ready' = ready \cup {[id |-> seq + Rank(i), url |-> b[i]] : i \in 1..n}
    BY <1>2, <2>2 DEF SchedulePage
  <2>5. DOMAIN listingNext' = DOMAIN listingNext
    BY <1>2, <2>3 DEF SchedulePage
  <2>6. dead' = ZRem(dead, S)
    BY <1>2, <2>1 DEF SchedulePage
  <2>7. QED
    BY <1>2, <2>4, <2>5, <2>6, ZRemScores DEF SchedulePage
<1>7. ASSUME NEW u \in S
      PROVE  StageOf(u) \in {"scheduled", "dead"} /\ StageOf(u)' = "queued"
  <2>1. PICK i \in 1..n : u = b[i]
    BY <1>3
  <2>2. [id |-> seq + Rank(i), url |-> u] \in ready'
    BY <1>6, <2>1
  <2>3. JobIn(u, ready)'
    BY <2>2 DEF JobIn
  <2>4. QED
    BY <1>4, <1>5, <2>3, NoJobStage DEF StageOf
<1>8. ASSUME NEW u \in URL \ S
      PROVE  StageOf(u)' = StageOf(u)
  <2>1. \A k \in {[id |-> seq + Rank(i), url |-> b[i]] : i \in 1..n} : k.url # u
    <3>1. \A i \in 1..n : b[i] # u
      BY <1>3
    <3> HIDE DEF Rank
    <3>2. QED
      BY <3>1
  <2>2. /\ JobIn(u, ready)' <=> JobIn(u, ready)
        /\ JobIn(u, processing)' <=> JobIn(u, processing)
        /\ JobIn(u, DOMAIN delayed)' <=> JobIn(u, DOMAIN delayed)
    BY <1>6, <2>1 DEF JobIn
  <2>3. QED
    BY <1>6, <2>2, SameStage
<1> HIDE DEF S
<1>9. L!Move(S, {"scheduled", "dead"}, "queued")
  BY <1>5, <1>7, <1>8, MoveStage
<1>10. L!Revisit(S)
  BY <1>5, <1>6, <1>9, SameOwners DEF L!Revisit, Owners
<1>11. QED
  BY <1>5, <1>10 DEF L!Next, L!URL, URL

\* Every script is a step in the life of the urls it moves, or no step.
LEMMA NextLife ==
    ASSUME RoomForAll, IInv, [Next]_vars
    PROVE  L!Next \/ UNCHANGED <<Stage, Owners>>
<1>1. ASSUME UNCHANGED <<ready, processing, lease, delayed, dead, listingNext, holds, acked>>
      PROVE  UNCHANGED <<Stage, Owners>>
  BY <1>1, SameStage, SameStages, SameOwners DEF JobIn
<1>2. CASE Tick \/ UNCHANGED vars
  BY <1>1, <1>2 DEF Tick, vars
<1>3. CASE Sweep
  BY <1>1, <1>3, NothingToSweep DEF IInv, MemberInv, vars
<1>4. CASE Admit
  BY <1>4, VideoLife, ListingLife, SeedLife DEF Admit
<1>5. CASE Reconcile
  BY <1>3, <1>5, ReapLife, PromoteLife, ScheduleLife DEF Reconcile
<1>6. QED
  BY <1>2, <1>4, <1>5, WorkLife DEF Next

\* The empty keyspace knows no url.
LEMMA InitLife == Init => L!Init
<1> SUFFICES ASSUME Init PROVE L!Init
  OBVIOUS
<1>1. /\ DOMAIN lease = {} /\ DOMAIN delayed = {} /\ DOMAIN dead = {}
      /\ DOMAIN listingNext = {}
  BY DEF Init
<1>2. \A u \in URL : StageOf(u) = "unknown" /\ OwnersOf(u) = {}
  BY <1>1 DEF Init, StageOf, JobIn, OwnersOf, Owns
<1>3. QED
  BY <1>2 DEF L!Init, L!URL, URL

\* The scripts together implement the life of a url, for any sets of urls and
\* workers, timeouts, lags and batch limits, while the filter has room for all
\* videos: one worker at a time, no way back for a video done or dead, and a
\* listing always on its way back to the queue.
THEOREM LifecycleCorrect == RoomForAll => (Spec => ImplementsLifecycle)
<1> SUFFICES ASSUME RoomForAll PROVE Spec => ImplementsLifecycle
  OBVIOUS
<1>1. IInv /\ [Next]_vars => [L!Next]_<<Stage, Owners>>
  BY NextLife
<1>2. QED
  BY <1>1, InitLife, InvariantCorrect, PTL
     DEF Spec, ImplementsLifecycle, L!Spec, Stage, Owners
=============================================================================
