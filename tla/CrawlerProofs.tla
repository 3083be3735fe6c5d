---------------------------- MODULE CrawlerProofs ----------------------------
(***************************************************************************)
(* What the workers do to a page, for every web and every value of the     *)
(* constants: a clean stop leaves no job leased, no video is Acked before  *)
(* MongoDB has it, no page is done before all its links are accounted for, *)
(* and what the frontier promises it keeps over crashes and restarts,      *)
(* which write around its scripts.  Every call a worker or reconciler      *)
(* makes is a step of Frontier, so what FrontierSafety proves of one step  *)
(* holds here between startups and crashes, which touch the frontier       *)
(* without being one.                                                      *)
(***************************************************************************)
EXTENDS Crawler, FiniteSetTheorems, TLAPS

F == INSTANCE FrontierSafety

-----------------------------------------------------------------------------
(* The frontier of Crawler (Q) and the one the theorems are about (F) are  *)
(* two instances of one module.                                            *)

\* Admissions of the one are admissions of the other.
LEMMA SameAdmit == Q!Admit => F!Admit
<1>1. ASSUME NEW u, NEW t, Q!AdmitVideo(u, t)
      PROVE  F!AdmitVideo(u, t)
  BY <1>1, Zenon DEF Q!AdmitVideo, F!AdmitVideo, Q!Blocked, F!Blocked,
     Q!VideoSuppressed, F!VideoSuppressed, Q!VideoNew, F!VideoNew,
     Q!VideoUnclaimed, F!VideoUnclaimed, Q!BloomFull, F!BloomFull, Q!Mint, F!Mint,
     Q!ZRem, F!ZRem, Q!Restrict, F!Restrict, Q!Cardinality, F!Cardinality,
     Q!IsFiniteSet, F!IsFiniteSet, Q!counters, F!counters
<1>2. ASSUME NEW u, NEW t, Q!AdmitListing(u, t)
      PROVE  F!AdmitListing(u, t)
  BY <1>2, Zenon DEF Q!AdmitListing, F!AdmitListing, Q!Blocked, F!Blocked,
     Q!ListingDue, F!ListingDue, Q!Mint, F!Mint, Q!ZAdd, F!ZAdd,
     Q!ZRem, F!ZRem, Q!Restrict, F!Restrict, Q!counters, F!counters
<1>3. Q!SeedListing => F!SeedListing
  BY DEF Q!SeedListing, F!SeedListing, Q!ZAdd, F!ZAdd, Q!counters, F!counters
<1>4. QED
  BY <1>1, <1>2, <1>3, Zenon DEF Q!Admit, F!Admit, Q!Reading, F!Reading

\* The same of the calls of a worker that holds a job or asks for one.
LEMMA SameWork == Q!Work => F!Work
<1>1. ASSUME NEW w
      PROVE  /\ Q!LeaseNothing(w) => F!LeaseNothing(w)
             /\ Q!Drop(w) => F!Drop(w)
  BY Zenon DEF Q!LeaseNothing, F!LeaseNothing, Q!Drop, F!Drop, Q!counters, F!counters,
     Q!vars, F!vars
<1>2. ASSUME NEW w
      PROVE  /\ Q!Owns(w) <=> F!Owns(w)
             /\ Q!Release(w) <=> F!Release(w)
             /\ \A u : Q!ClearFailures(u) <=> F!ClearFailures(u)
  BY Zenon DEF Q!Owns, F!Owns, Q!Release, F!Release, Q!ClearFailures, F!ClearFailures,
     Q!ZRem, F!ZRem, Q!Restrict, F!Restrict
<1>3. ASSUME NEW w, NEW t, Q!Lease(w, t)
      PROVE  F!Lease(w, t)
  BY <1>3, Zenon DEF Q!Lease, F!Lease, Q!ZAdd, F!ZAdd, Q!counters, F!counters
<1>4. ASSUME NEW w
      PROVE  Q!Ack(w) => F!Ack(w)
  BY <1>2, Zenon DEF Q!Ack, F!Ack
<1>5. ASSUME NEW w
      PROVE  Q!Nack(w) => F!Nack(w)
  BY <1>2, Zenon DEF Q!Nack, F!Nack, Q!Mint, F!Mint, Q!counters, F!counters
<1>6. ASSUME NEW u, NEW t
      PROVE  Q!Bury(u, Q!QuarantineUntil(u, t)) => F!Bury(u, F!QuarantineUntil(u, t))
  BY <1>2, Zenon DEF Q!Bury, F!Bury, Q!QuarantineUntil, F!QuarantineUntil, Q!ZAdd, F!ZAdd
<1>7. ASSUME NEW w, NEW t, Q!Terminal(w, t)
      PROVE  F!Terminal(w, t)
  BY <1>2, <1>6, <1>7, Zenon DEF Q!Terminal, F!Terminal
<1>8. ASSUME NEW w, NEW class, NEW t, Q!Fail(w, class, t)
      PROVE  F!Fail(w, class, t)
  <2>1. /\ \A u : Q!StrikesAfter(u, class) = F!StrikesAfter(u, class)
        /\ \A u : Q!Exhausted(u, class) <=> F!Exhausted(u, class)
        /\ \A n : Q!Backoff(class, n) = F!Backoff(class, n)
    BY Zenon DEF Q!StrikesAfter, F!StrikesAfter, Q!Exhausted, F!Exhausted,
       Q!Backoff, F!Backoff, Q!Ladder, F!Ladder
  <2>2. Q!FailDead(w, class, t) => F!FailDead(w, class, t)
    BY <1>6, <2>1, Zenon DEF Q!FailDead, F!FailDead
  <2>3. Q!FailDelayed(w, class, t) => F!FailDelayed(w, class, t)
    <3>1. \A u : Q!Mint(u) = F!Mint(u)
      BY DEF Q!Mint, F!Mint
    <3>2. \A z, e, score : Q!ZAdd(z, e, score) = F!ZAdd(z, e, score)
      BY DEF Q!ZAdd, F!ZAdd
    <3>3. QED
      BY <2>1, <3>1, <3>2 DEF Q!FailDelayed, F!FailDelayed
  <2>4. QED
    BY <1>2, <1>8, <2>2, <2>3, Zenon DEF Q!Fail, F!Fail
<1>9. ASSUME NEW w, NEW found, NEW t, Q!CompleteListing(w, found, t)
      PROVE  F!CompleteListing(w, found, t)
  <2>1. \A u, n : Q!RevisitTTL(u, n) = F!RevisitTTL(u, n)
    BY ZenonT(60) DEF Q!RevisitTTL, F!RevisitTTL, Q!BaseTTL, F!BaseTTL
  <2>2. QED
    BY <1>2, <1>9, <2>1, Zenon DEF Q!CompleteListing, F!CompleteListing, Q!ZAdd, F!ZAdd,
       Q!ZRem, F!ZRem, Q!Restrict, F!Restrict
<1>10. QED
  BY <1>1, <1>3, <1>4, <1>5, <1>7, <1>8, <1>9, Zenon
     DEF Q!Work, F!Work, Q!Reading, F!Reading, Q!FailClass, F!FailClass

\* The same of the reconcilers.
LEMMA SameReconcile == Q!Reconcile => F!Reconcile
BY DEF Q!Reconcile, F!Reconcile, Q!Reap, F!Reap, Q!ReapPage, F!ReapPage,
   Q!Promote, F!Promote, Q!PromotePage, F!PromotePage, Q!Sweep, F!Sweep,
   Q!SweepPage, F!SweepPage, Q!SweepWindow, F!SweepWindow, Q!Orphans, F!Orphans,
   Q!RunListingScheduler, F!RunListingScheduler, Q!SchedulePage, F!SchedulePage,
   Q!Blocked, F!Blocked, Q!Page, F!Page, Q!Due, F!Due, Q!Minted, F!Minted,
   Q!Reading, F!Reading, Q!ZRem, F!ZRem, Q!Restrict, F!Restrict, Q!Range, F!Range,
   Q!Cardinality, F!Cardinality, Q!IsFiniteSet, F!IsFiniteSet, Q!counters, F!counters

\* The same of any step.
LEMMA SameStep == Q!Next \/ UNCHANGED frontier => [F!Next]_F!vars
BY SameAdmit, SameWork, SameReconcile
   DEF Q!Next, F!Next, Q!Tick, F!Tick, Q!counters, F!counters, frontier, F!vars

\* Types and facts about members are inductive over the calls of the crawler.
LEMMA FrontierStep ==
    ASSUME Q!TypeOK, Q!Next \/ UNCHANGED frontier
    PROVE  Q!TypeOK' /\ (Q!MemberInv => Q!MemberInv')
<1>1. F!TypeOK
  BY DEF Q!TypeOK, F!TypeOK, Q!ZSet, F!ZSet, Q!Job, F!Job, Q!URL, F!URL
<1>2. F!TypeOK'
  BY <1>1, SameStep, F!TypeStep, UrlAssumption, TimeAssumption, LimitAssumption
     DEF Job, F!Job, URL, F!URL
<1>3. Q!TypeOK'
  BY <1>2 DEF Q!TypeOK, F!TypeOK, Q!ZSet, F!ZSet, Q!Job, F!Job, Q!URL, F!URL
<1>4. ASSUME Q!MemberInv
      PROVE  Q!MemberInv'
  <2>1. F!MemberInv
    BY <1>4 DEF Q!MemberInv, F!MemberInv, Q!IdsMinted, F!IdsMinted,
       Q!QueuesDisjoint, F!QueuesDisjoint, Q!LeaseAtMostOnce, F!LeaseAtMostOnce,
       Q!ProcessingLeased, F!ProcessingLeased, Q!Live, F!Live
  <2>2. F!MemberInv'
    BY <1>1, <1>2, <2>1, SameStep, F!MemberNext, UrlAssumption, TimeAssumption,
       LimitAssumption DEF Job, F!Job, URL, F!URL
  <2>3. QED
    BY <2>2 DEF Q!MemberInv, F!MemberInv, Q!IdsMinted, F!IdsMinted,
       Q!QueuesDisjoint, F!QueuesDisjoint, Q!LeaseAtMostOnce, F!LeaseAtMostOnce,
       Q!ProcessingLeased, F!ProcessingLeased, Q!Live, F!Live
<1>5. QED
  BY <1>3, <1>4

-----------------------------------------------------------------------------
(* What each step of the crawler asks of the frontier.                     *)

Resolving(w) ==
    \/ Finish(w) \/ Nack(w) \/ NackStop(w) \/ NackFatal(w) \/ Terminal(w)
    \/ Fail(w, "rateLimited", "RateLimited") \/ Fail(w, "strike", "Strikeable")

\* A resolution is a call to the frontier, and if no answer is lost the job is
\* leased no more.
LEMMA ResolveCall ==
    ASSUME NEW w \in Workers, fresh[w] \in BOOLEAN, Resolving(w)
    PROVE  /\ Q!Work
           /\ holds' = [holds EXCEPT ![w] = NoJob]
           /\ processing' \subseteq processing
           /\ leaked' \/ holds[w] \notin DOMAIN lease \/ holds[w] \notin processing'
           /\ leaked' \in {leaked, TRUE}
<1>1. ASSUME \/ Q!Ack(w) \/ Q!Nack(w)
             \/ \E t \in Q!Reading : Q!CompleteListing(w, fresh[w], t)
             \/ \E t \in Q!Reading : Q!Terminal(w, t)
             \/ \E t \in Q!Reading, class \in Q!FailClass : Q!Fail(w, class, t)
      PROVE  /\ Q!Work
             /\ holds' = [holds EXCEPT ![w] = NoJob]
             /\ processing' = processing \ {holds[w]}
  BY <1>1 DEF Q!Work, Q!Ack, Q!Nack, Q!CompleteListing, Q!Terminal, Q!Fail, Q!Release
<1>2. ASSUME Q!Drop(w)
      PROVE  Q!Work /\ holds' = [holds EXCEPT ![w] = NoJob] /\ processing' = processing
  BY <1>2 DEF Q!Work, Q!Drop
<1>3. ASSUME NEW at, NEW op, NEW next, Resolve(w, at, op, next)
      PROVE  \/ op /\ UNCHANGED leaked
             \/ ~Q!Owns(w) /\ Q!Drop(w) /\ UNCHANGED leaked
             \/ Q!Drop(w) /\ leaked' = TRUE
  BY <1>3 DEF Resolve
<1>4. \/ /\ UNCHANGED leaked
         /\ \/ Q!Ack(w) \/ Q!Nack(w)
            \/ \E t \in Q!Reading : Q!CompleteListing(w, fresh[w], t)
            \/ \E t \in Q!Reading : Q!Terminal(w, t)
            \/ \E t \in Q!Reading, class \in Q!FailClass : Q!Fail(w, class, t)
      \/ ~Q!Owns(w) /\ Q!Drop(w) /\ UNCHANGED leaked
      \/ Q!Drop(w) /\ leaked' = TRUE
  BY <1>3 DEF Resolving, Finish, Nack, NackJob, NackStop, NackFatal, Terminal, Fail, Q!FailClass
<1>5. QED
  BY <1>1, <1>2, <1>4 DEF Q!Owns

\* The admission of a link is a call to the frontier, or the link is blocked.
LEMMA AdmitIsCall ==
    ASSUME NEW u \in URL, AdmitCall(u)
    PROVE  (Q!Admit \/ UNCHANGED frontier) /\ UNCHANGED <<holds, processing>>
BY DEF AdmitCall, Q!Admit, Q!AdmitVideo, Q!AdmitListing, frontier

\* Every step of a worker is at most one call to the frontier.
LEMMA WorkIsCall ==
    ASSUME NEW w \in Workers, fresh[w] \in BOOLEAN, links[w] \in Seq(URL), Work(w)
    PROVE  Q!Next \/ UNCHANGED frontier
<1>1. CASE \/ Exit(w) \/ Pace(w) \/ Served(w) \/ Refused(w) \/ Interrupted(w)
           \/ Store(w) \/ StoreFails(w) \/ AdmitDone(w)
  BY <1>1 DEF Exit, Pace, Served, Refused, Interrupted, Store, StoreFails, AdmitDone
<1>2. CASE Lease(w) \/ LeaseUnanswered(w)
  BY <1>2 DEF Lease, LeaseUnanswered, Q!Next, Q!Work
<1>3. CASE AdmitChild(w) \/ AdmitFails(w) \/ AdmitRepeated(w)
  <2>1. Head(links[w]) \in URL
    BY <1>3 DEF AdmitChild, AdmitFails, AdmitRepeated
  <2>2. AdmitCall(Head(links[w])) \/ UNCHANGED frontier
    BY <1>3 DEF AdmitChild, AdmitFails, AdmitRepeated
  <2>3. QED
    BY <2>1, <2>2, AdmitIsCall DEF Q!Next
<1>4. CASE Resolving(w)
  BY <1>4, ResolveCall DEF Q!Next
<1>5. QED
  BY <1>1, <1>2, <1>3, <1>4 DEF Work, Resolving

\* The steps outside the workers that leave them alone: the clock and the
\* reconcilers.
Ticks == (Q!Tick \/ Q!Reconcile) /\ UNCHANGED <<work, outside, history>>

\* These are the ticks of the crawler.
LEMMA CrawlerTicks == Tick \/ Reap \/ Promote \/ RunListingScheduler \/ Sweep => Ticks
BY DEF Ticks, Tick, Reap, Promote, RunListingScheduler, Sweep, Reconcile, Q!Reconcile

\* Every tick is a call to the frontier that no hand feels.
LEMMA TickIsCall ==
    ASSUME Ticks
    PROVE  Q!Next /\ UNCHANGED <<holds, work, outside, history>>
BY DEF Ticks, Q!Next, Q!Reconcile, Q!Tick, Q!Sweep, Q!SweepPage, Q!Reap, Q!ReapPage,
   Q!Promote, Q!PromotePage, Q!RunListingScheduler, Q!SchedulePage

-----------------------------------------------------------------------------
(* Types.                                                                  *)

Idle == {"stopped", "idle"}

\* A worker that goes on to step with the same job, or without any.
LEMMA HandsType ==
    ASSUME TypeOK, NEW w \in Workers, NEW step \in Steps, Goto(w, step),
           \/ holds' = holds /\ (pc[w] \in Idle <=> step \in Idle)
           \/ holds' = [holds EXCEPT ![w] = NoJob] /\ step \in Idle
    PROVE  /\ pc' \in [Workers -> Steps]
           /\ \A v \in Workers : pc'[v] \in Idle <=> holds'[v] = NoJob
BY DEF TypeOK, Q!TypeOK, Goto, Idle

\* What AdmitCall is credited with.
LEMMA CreditType ==
    ASSUME TypeOK, NEW w \in Workers, NEW u, Credit(w, u)
    PROVE  /\ visited' \subseteq URL /\ fruitful' \subseteq Listings
           /\ misjudged' \subseteq Videos
BY DEF TypeOK, Credit, FalsePositive

\* A step that stays out of MongoDB, of the context and of the histories.
LEMMA RestType ==
    ASSUME TypeOK, Q!TypeOK', pc' \in [Workers -> Steps],
           \A w \in Workers : pc'[w] \in Idle <=> holds'[w] = NoJob,
           links' \in [Workers -> Seq(URL)], fresh' \in [Workers -> BOOLEAN],
           stored' \subseteq Videos, cancelled' \in BOOLEAN,
           leaked' \in {leaked, TRUE}, Fault \/ UNCHANGED faults,
           visited' \subseteq URL, fruitful' \subseteq Listings, misjudged' \subseteq Videos
    PROVE  TypeOK'
<1>1. faults' \in 0..MaxFaults
  BY WebAssumption DEF TypeOK, Fault
<1>2. leaked' \in BOOLEAN
  BY DEF TypeOK
<1>3. QED
  BY <1>1, <1>2 DEF TypeOK, Idle

\* A resolution keeps the types.
LEMMA ResolveType ==
    ASSUME TypeOK, NEW w \in Workers, Resolving(w), Q!TypeOK'
    PROVE  TypeOK'
<1>1. /\ holds' = [holds EXCEPT ![w] = NoJob] /\ leaked' \in {leaked, TRUE}
  BY ResolveCall DEF TypeOK
<1>2. PICK step \in Idle : Goto(w, step)
  BY DEF Resolving, Finish, Nack, NackStop, NackFatal, Terminal, Fail, Resolve, Loop, Idle
<1>3. UNCHANGED <<links, fresh, stored>>
  BY DEF Resolving, Finish, Nack, NackStop, NackFatal, Terminal, Fail, Resolve
<1>4. Fault \/ UNCHANGED faults
  BY DEF Resolving, Finish, Nack, NackStop, NackFatal, Terminal, Fail, Resolve
<1>5. cancelled' \in {cancelled, TRUE}
  BY DEF Resolving, Finish, Nack, NackStop, NackFatal, Terminal, Fail, Resolve
<1>6. holds[w].url \in URL
  <2>1. pc[w] \notin Idle
    BY DEF Resolving, Finish, Nack, NackStop, NackFatal, Terminal, Fail, Resolve, Idle
  <2>2. QED
    BY <2>1 DEF TypeOK, Q!TypeOK, Idle, Q!Job, Q!URL, URL
<1>7. /\ visited' \subseteq visited \cup {holds[w].url}
      /\ fruitful' \subseteq fruitful /\ misjudged' = misjudged
  BY DEF Resolving, Finish, Nack, NackJob, NackStop, NackFatal, Terminal, Fail, Resolve, history
<1>8. QED
  BY <1>1, <1>2, <1>3, <1>4, <1>5, <1>6, <1>7, HandsType, RestType
     DEF TypeOK, Idle, Steps

\* A worker changes nothing of another.
LEMMA WorkLocal ==
    ASSUME TypeOK, NEW w \in Workers, Work(w), NEW v \in Workers \ {w}
    PROVE  pc'[v] = pc[v] /\ holds'[v] = holds[v] /\ links'[v] = links[v]
<1> USE DEF TypeOK, Q!TypeOK
<1>1. CASE \/ Exit(w) \/ Pace(w) \/ Served(w) \/ Refused(w) \/ Interrupted(w)
           \/ Store(w) \/ StoreFails(w) \/ AdmitDone(w)
  BY <1>1 DEF Exit, Pace, Served, Refused, Interrupted, Store, StoreFails, AdmitDone,
     Goto, frontier
<1>2. CASE Lease(w) \/ LeaseUnanswered(w)
  BY <1>2 DEF Lease, LeaseUnanswered, Q!Lease, Q!Drop, Goto
<1>3. CASE AdmitChild(w) \/ AdmitFails(w) \/ AdmitRepeated(w)
  <2>1. AdmitCall(Head(links[w])) \/ UNCHANGED frontier
    BY <1>3 DEF AdmitChild, AdmitFails, AdmitRepeated
  <2>2. holds' = holds
    BY <2>1 DEF AdmitCall, Q!AdmitVideo, Q!AdmitListing, frontier
  <2>3. QED
    BY <1>3, <2>2 DEF AdmitChild, AdmitFails, AdmitRepeated, Goto, work
<1>4. CASE Resolving(w)
  <2>1. holds' = [holds EXCEPT ![w] = NoJob] /\ links' = links
    BY <1>4, ResolveCall DEF Resolving, Finish, Nack, NackStop, NackFatal, Terminal,
       Fail, Resolve
  <2>2. \E step : Goto(w, step)
    BY <1>4 DEF Resolving, Finish, Nack, NackStop, NackFatal, Terminal, Fail, Resolve
  <2>3. QED
    BY <2>1, <2>2 DEF Goto
<1>5. QED
  BY <1>1, <1>2, <1>3, <1>4 DEF Work, Resolving

\* Only a page of a video is on its way to MongoDB.
StoresVideos == \A w \in Workers : pc[w] = "store" => holds[w].url \in Videos

\* No step of a worker sends the page of a listing to MongoDB.
LEMMA WorkStores ==
    ASSUME TypeOK, StoresVideos, NEW w \in Workers, Work(w)
    PROVE  StoresVideos'
<1>1. pc'[w] = "store" => holds'[w].url \in Videos
  <2>1. CASE Served(w)
    BY <2>1 DEF Served, Goto, TypeOK, frontier
  <2>2. CASE ~Served(w)
    <3>1. \E step \in Steps \ {"store"} : Goto(w, step) \/ (pc[w] = "admit" /\ UNCHANGED pc)
      BY <2>2 DEF Work, Exit, Lease, LeaseUnanswered, Pace, Refused, Interrupted, Store,
         StoreFails, AdmitChild, AdmitFails, AdmitRepeated, AdmitDone, Finish, Nack,
         NackStop, NackFatal, Terminal, Fail, Resolve, Loop, Steps, work
    <3>2. QED
      BY <3>1 DEF Goto, TypeOK
  <2>3. QED
    BY <2>1, <2>2
<1>2. QED
  BY <1>1, WorkLocal DEF StoresVideos

\* What a worker does to itself and to MongoDB keeps the types.
LEMMA WorkType ==
    ASSUME TypeOK, StoresVideos, NEW w \in Workers, Work(w)
    PROVE  TypeOK'
<1>1. Q!TypeOK'
  BY WorkIsCall, FrontierStep DEF TypeOK
<1>2. /\ links[w] \in Seq(URL) /\ fresh[w] \in BOOLEAN
      /\ pc[w] \notin Idle => holds[w] \in Job /\ holds[w].url \in URL
  BY DEF TypeOK, Q!TypeOK, Idle, Q!Job, Q!URL, Job, URL
<1>3. CASE Exit(w) \/ Pace(w) \/ Refused(w) \/ Interrupted(w) \/ AdmitDone(w)
  <2>1. \E step \in Steps : Goto(w, step) /\ (pc[w] \in Idle <=> step \in Idle)
    BY <1>3 DEF Exit, Pace, Refused, Interrupted, AdmitDone, Steps, Idle
  <2>2. UNCHANGED <<holds, links, fresh, stored, cancelled, leaked, history>>
    BY <1>3 DEF Exit, Pace, Refused, Interrupted, AdmitDone, frontier, outside
  <2>3. Fault \/ UNCHANGED faults
    BY <1>3 DEF Exit, Pace, Refused, Interrupted, AdmitDone, outside
  <2>4. QED
    BY <1>1, <2>1, <2>2, <2>3, HandsType, RestType DEF TypeOK, Idle, history
<1>4. CASE Lease(w)
  <2>1. PICK j \in ready : holds' = [holds EXCEPT ![w] = j]
    BY <1>4 DEF Lease, Q!Lease
  <2>2. j # NoJob
    BY <2>1, UrlAssumption DEF TypeOK, Q!TypeOK, Q!Job, Q!URL, Job, URL
  <2>3. Goto(w, "limit") /\ UNCHANGED <<links, fresh, outside, history>>
    BY <1>4 DEF Lease
  <2>4. /\ pc' \in [Workers -> Steps]
        /\ \A v \in Workers : pc'[v] \in Idle <=> holds'[v] = NoJob
    BY <2>1, <2>2, <2>3 DEF TypeOK, Q!TypeOK, Goto, Idle, Steps
  <2>5. QED
    BY <1>1, <2>3, <2>4, RestType DEF TypeOK, outside, history
<1>5. CASE LeaseUnanswered(w)
  <2>1. /\ holds' = [holds EXCEPT ![w] = NoJob]
        /\ Fault /\ leaked' = TRUE /\ UNCHANGED <<links, fresh, stored, cancelled, history>>
    BY <1>5 DEF LeaseUnanswered, Q!Drop
  <2>2. \E step \in Steps \cap Idle : Goto(w, step)
    BY <1>5 DEF LeaseUnanswered, Loop, Steps, Idle
  <2>3. QED
    BY <1>1, <2>1, <2>2, HandsType, RestType DEF TypeOK, history
<1>6. CASE Served(w)
  <2>1. /\ \E step \in Steps : Goto(w, step) /\ (pc[w] \in Idle <=> step \in Idle)
        /\ UNCHANGED <<holds, outside, history>>
    BY <1>6 DEF Served, Steps, Idle, frontier
  <2>2. links' \in [Workers -> Seq(URL)] /\ fresh' \in [Workers -> BOOLEAN]
    <3>1. Links[holds[w].url] \in Seq(URL)
      BY <1>2, <1>6, WebAssumption DEF Served, Idle
    <3>2. QED
      BY <1>6, <3>1 DEF Served, TypeOK
  <2>3. QED
    BY <1>1, <2>1, <2>2, HandsType, RestType DEF TypeOK, outside, history
<1>7. CASE Store(w) \/ StoreFails(w)
  <2>1. /\ \E step \in Steps : Goto(w, step) /\ (pc[w] \in Idle <=> step \in Idle)
        /\ UNCHANGED <<holds, links, fresh, cancelled, leaked, history>>
        /\ Fault \/ UNCHANGED faults
    BY <1>7 DEF Store, StoreFails, Steps, Idle, frontier
  <2>2. stored' \subseteq Videos
    BY <1>7 DEF Store, StoreFails, StoresVideos, TypeOK
  <2>3. QED
    BY <1>1, <2>1, <2>2, HandsType, RestType DEF TypeOK, history
<1>8. CASE AdmitChild(w) \/ AdmitFails(w) \/ AdmitRepeated(w)
  <2>1. /\ links[w] # << >> /\ Head(links[w]) \in URL /\ pc[w] = "admit"
        /\ UNCHANGED <<stored, cancelled, leaked>> /\ (Fault \/ UNCHANGED faults)
    BY <1>2, <1>8 DEF AdmitChild, AdmitFails, AdmitRepeated, outside
  <2>2. /\ holds' = holds
        /\ \E step \in Steps \ Idle : Goto(w, step) \/ UNCHANGED pc
    <3>1. AdmitCall(Head(links[w])) \/ UNCHANGED frontier
      BY <1>8 DEF AdmitChild, AdmitFails, AdmitRepeated
    <3>2. holds' = holds
      BY <2>1, <3>1, AdmitIsCall DEF frontier
    <3>3. Goto(w, "nack") \/ Goto(w, "nackFatal") \/ UNCHANGED pc
      BY <1>8 DEF AdmitChild, AdmitFails, AdmitRepeated, work
    <3>4. QED
      BY <3>2, <3>3 DEF Steps, Idle
  <2>3. /\ pc' \in [Workers -> Steps]
        /\ \A v \in Workers : pc'[v] \in Idle <=> holds'[v] = NoJob
    BY <2>1, <2>2, HandsType DEF TypeOK, Idle
  <2>4. /\ visited' \subseteq URL /\ fruitful' \subseteq Listings
        /\ misjudged' \subseteq Videos
    <3>1. Credit(w, Head(links[w])) \/ UNCHANGED history
      BY <1>8 DEF AdmitChild, AdmitFails, AdmitRepeated
    <3>2. QED
      BY <3>1, CreditType DEF TypeOK, history
  <2>5. links' \in [Workers -> Seq(URL)] /\ fresh' \in [Workers -> BOOLEAN]
    <3>1. \/ UNCHANGED <<links, fresh>>
          \/ /\ links' = [links EXCEPT ![w] = Tail(@)]
             /\ fresh' = [fresh EXCEPT ![w] = @ \/ AnswersNew(Head(links[w]))]
      BY <1>8 DEF AdmitChild, AdmitFails, AdmitRepeated, work
    <3>2. Tail(links[w]) \in Seq(URL)
      BY <1>2, <2>1
    <3>3. QED
      BY <3>1, <3>2 DEF TypeOK
  <2>6. QED
    BY <1>1, <2>1, <2>3, <2>4, <2>5, RestType DEF TypeOK
<1>9. CASE Resolving(w)
  BY <1>1, <1>9, ResolveType
<1>10. QED
  BY <1>3, <1>4, <1>5, <1>6, <1>7, <1>8, <1>9 DEF Work, Resolving

\* A startup adds claims and schedules the base url.
LEMMA LaunchType ==
    ASSUME TypeOK, StoresVideos, NEW known \in SUBSET Videos, Launch(known)
    PROVE  TypeOK' /\ StoresVideos' /\ (Q!MemberInv => Q!MemberInv')
<1>1. /\ bloom' = bloom \cup known /\ ~Up
      /\ listingNext' \in {listingNext, ZAdd(listingNext, BaseUrl, 0)}
      /\ pc' = [w \in Workers |-> "idle"] /\ cancelled' = FALSE
      /\ UNCHANGED <<now, seq, ready, processing, lease, delayed, dead, attempts,
                     strikes, barren, holds, acked, links, fresh, stored, faults,
                     leaked, history>>
  BY DEF Launch
<1>2. Q!ZSet(listingNext', Listings)
  BY <1>1, UrlAssumption DEF TypeOK, Q!TypeOK, Q!ZSet, ZAdd
<1>3. Q!TypeOK'
  BY <1>1, <1>2 DEF TypeOK, Q!TypeOK
<1>4. \A w \in Workers : holds[w] = NoJob
  BY <1>1 DEF TypeOK, Up
<1>5. TypeOK'
  BY <1>1, <1>3, <1>4 DEF TypeOK, Steps, history
<1>6. StoresVideos'
  BY <1>1 DEF StoresVideos
<1>7. Q!MemberInv => Q!MemberInv'
  BY <1>1 DEF Q!MemberInv, Q!IdsMinted, Q!QueuesDisjoint, Q!LeaseAtMostOnce,
     Q!ProcessingLeased, Q!Live
<1>8. QED
  BY <1>5, <1>6, <1>7

\* A crash empties all hands.
LEMMA CrashType ==
    ASSUME TypeOK, Crash
    PROVE  TypeOK' /\ StoresVideos' /\ (Q!MemberInv => Q!MemberInv')
<1>1. /\ pc' = [w \in Workers |-> "stopped"] /\ holds' = [w \in Workers |-> NoJob]
      /\ Fault /\ leaked' = TRUE
      /\ UNCHANGED <<now, seq, ready, processing, lease, delayed, dead, attempts,
                     strikes, listingNext, barren, bloom, acked, links, fresh,
                     stored, cancelled, history>>
  BY DEF Crash
<1>2. Q!TypeOK'
  BY <1>1 DEF TypeOK, Q!TypeOK
<1>3. TypeOK'
  BY <1>1, <1>2, RestType DEF TypeOK, Steps, Idle, history
<1>4. StoresVideos'
  BY <1>1 DEF StoresVideos
<1>5. ASSUME Q!MemberInv
      PROVE  Q!MemberInv'
  <2>1. NoJob \notin ready \cup DOMAIN delayed
    BY UrlAssumption DEF TypeOK, Q!TypeOK, Q!ZSet, Q!Job, Q!URL, Job, URL
  <2>2. QED
    BY <1>1, <1>5, <2>1 DEF Q!MemberInv, Q!IdsMinted, Q!QueuesDisjoint, Q!LeaseAtMostOnce,
       Q!ProcessingLeased, Q!Live
<1>6. QED
  BY <1>3, <1>4, <1>5

\* Steps that leave the frontier and the workers alone, but for claims.
Aside ==
    /\ bloom' \subseteq bloom \cup stored /\ bloom \subseteq bloom'
    /\ UNCHANGED <<now, seq, ready, processing, lease, delayed, dead, attempts,
                   strikes, listingNext, barren, holds, acked, work, stored,
                   leaked, history>>
    /\ cancelled' \in {cancelled, TRUE} /\ (Fault \/ UNCHANGED faults)

\* These are such steps of the crawler.
LEMMA CrawlerAside == BootFails \/ Shutdown \/ UNCHANGED vars => Aside
BY DEF Aside, BootFails, Shutdown, vars, frontier, outside

\* They keep the types and the facts about members.
LEMMA AsideType ==
    ASSUME TypeOK, StoresVideos, Aside
    PROVE  /\ TypeOK' /\ StoresVideos' /\ (Q!MemberInv => Q!MemberInv')
           /\ bloom \subseteq bloom'
           /\ UNCHANGED <<processing, lease, dead, listingNext, holds, work, leaked, history>>
<1> USE DEF Aside
<1>1. cancelled' \in BOOLEAN
  BY DEF TypeOK
<1>2. Q!TypeOK'
  BY <1>1 DEF TypeOK, Q!TypeOK
<1>3. TypeOK'
  BY <1>1, <1>2, RestType DEF TypeOK, Idle, work, history
<1>4. Q!MemberInv => Q!MemberInv'
  BY DEF Q!MemberInv, Q!IdsMinted, Q!QueuesDisjoint, Q!LeaseAtMostOnce,
     Q!ProcessingLeased, Q!Live
<1>5. QED
  BY <1>1, <1>3, <1>4 DEF StoresVideos, work

\* A tick keeps the types.
LEMMA TickType ==
    ASSUME TypeOK, StoresVideos, Ticks
    PROVE  TypeOK' /\ StoresVideos'
<1>1. Q!TypeOK' /\ UNCHANGED <<holds, work, outside, history>>
  BY TickIsCall, FrontierStep DEF TypeOK
<1>2. QED
  BY <1>1 DEF TypeOK, StoresVideos, work, outside, history

\* The types, inductively.
TypeInv == TypeOK /\ StoresVideos

\* Nothing is queued before the first startup.
LEMMA TypeInit == Init => TypeInv /\ Q!MemberInv
<1> SUFFICES ASSUME Init PROVE TypeInv /\ Q!MemberInv
  OBVIOUS
<1>1. Q!TypeOK
  BY UrlAssumption, TimeAssumption DEF Init, Q!Init, Q!TypeOK, Q!ZSet, Q!URL, Q!Job
<1>2. Q!MemberInv
  BY UrlAssumption DEF Init, Q!Init, Q!MemberInv, Q!IdsMinted, Q!QueuesDisjoint,
     Q!LeaseAtMostOnce, Q!ProcessingLeased, Q!Live
<1>3. 0 \in 0..MaxFaults
  BY WebAssumption
<1>4. [w \in Workers |-> << >>] \in [Workers -> Seq(URL)]
  OBVIOUS
<1>5. pc = [w \in Workers |-> "stopped"] /\ holds = [w \in Workers |-> NoJob]
  BY DEF Init, Q!Init
<1>6. TypeOK
  BY <1>1, <1>3, <1>4, <1>5 DEF Init, TypeOK, Steps
<1>7. QED
  BY <1>2, <1>5, <1>6 DEF TypeInv, StoresVideos

\* Every step of the process keeps the types and the facts about members.
LEMMA TypeNext ==
    ASSUME TypeInv, [Next]_vars
    PROVE  TypeInv' /\ (Q!MemberInv => Q!MemberInv')
<1> USE DEF TypeInv
<1>1. CASE Boot
  BY <1>1, LaunchType DEF Boot, TypeOK
<1>2. CASE Crash
  BY <1>2, CrashType
<1>3. CASE Aside
  BY <1>3, AsideType
<1>4. CASE Ticks
  BY <1>4, TickType, TickIsCall, FrontierStep DEF TypeOK
<1>5. ASSUME NEW w \in Workers, Work(w)
      PROVE  TypeInv' /\ (Q!MemberInv => Q!MemberInv')
  BY <1>5, WorkType, WorkStores, WorkIsCall, FrontierStep DEF TypeOK
<1>6. QED
  BY <1>1, <1>2, <1>3, <1>4, <1>5, CrawlerTicks, CrawlerAside DEF Next

\* The state of the whole process keeps its types: any web, any faults.
THEOREM CrawlerTypeCorrect == Spec => []TypeOK
<1>1. TypeInv => TypeOK
  BY DEF TypeInv
<1>2. QED
  BY <1>1, TypeInit, TypeNext, PTL DEF Spec

-----------------------------------------------------------------------------
(* A stop without a lost call leaves nothing leased.                       *)

\* Unless a call was lost, every leased member is in somebody's hands.
LeasesHeld == ~leaked => \A j \in processing : \E w \in Workers : holds[w] = j

\* Ticks lease nothing.
LEMMA TickLeases ==
    ASSUME Ticks
    PROVE  processing' \subseteq processing
BY DEF Ticks, Q!Reconcile, Q!Tick, Q!Sweep, Q!SweepPage, Q!Reap, Q!ReapPage, Q!Promote,
   Q!PromotePage, Q!RunListingScheduler, Q!SchedulePage

\* A worker lets go of a leased member only by resolving it or losing a call.
LEMMA WorkLeases ==
    ASSUME TypeOK, Q!MemberInv, LeasesHeld, NEW w \in Workers, Work(w)
    PROVE  LeasesHeld'
<1> USE DEF LeasesHeld
<1>1. /\ holds \in [Workers -> Job \cup {NoJob}] /\ processing \subseteq Job
      /\ fresh[w] \in BOOLEAN /\ processing = DOMAIN lease /\ NoJob \notin Job
  BY UrlAssumption DEF TypeOK, Q!TypeOK, Q!Job, Q!URL, Job, URL, Q!MemberInv,
     Q!ProcessingLeased
<1>2. CASE \/ Exit(w) \/ Pace(w) \/ Served(w) \/ Refused(w) \/ Interrupted(w)
           \/ Store(w) \/ StoreFails(w) \/ AdmitDone(w)
  BY <1>2 DEF Exit, Pace, Served, Refused, Interrupted, Store, StoreFails, AdmitDone,
     frontier, outside
<1>3. CASE AdmitChild(w) \/ AdmitFails(w) \/ AdmitRepeated(w)
  <2>1. AdmitCall(Head(links[w])) \/ UNCHANGED frontier
    BY <1>3 DEF AdmitChild, AdmitFails, AdmitRepeated
  <2>2. UNCHANGED <<holds, processing>>
    BY <2>1 DEF AdmitCall, Q!AdmitVideo, Q!AdmitListing, frontier
  <2>3. leaked' = leaked
    BY <1>3 DEF AdmitChild, AdmitFails, AdmitRepeated, outside
  <2>4. QED
    BY <2>2, <2>3
<1>4. CASE Lease(w)
  <2>1. PICK j \in ready : /\ processing' = processing \cup {j}
                           /\ holds' = [holds EXCEPT ![w] = j] /\ holds[w] = NoJob
    BY <1>4 DEF Lease, Q!Lease
  <2>2. leaked' = leaked
    BY <1>4 DEF Lease, outside
  <2>3. QED
    BY <1>1, <2>1, <2>2
<1>5. CASE LeaseUnanswered(w)
  BY <1>5 DEF LeaseUnanswered
<1>6. CASE Resolving(w)
  <2>1. /\ holds' = [holds EXCEPT ![w] = NoJob] /\ processing' \subseteq processing
        /\ leaked' \/ holds[w] \notin DOMAIN lease \/ holds[w] \notin processing'
        /\ leaked' \in {leaked, TRUE}
    BY <1>1, <1>6, ResolveCall
  <2>2. ASSUME ~leaked'
        PROVE  /\ ~leaked
               /\ holds[w] \notin processing'
    <3>1. ~leaked
      BY <2>1, <2>2, Zenon
    <3>2. holds[w] \notin DOMAIN lease \/ holds[w] \notin processing'
      BY <2>1, <2>2, Zenon
    <3>3. QED
      BY <1>1, <2>1, <3>1, <3>2
  <2>3. ASSUME NEW j \in processing', NEW v \in Workers, holds[v] = j, holds[w] # j
        PROVE  holds'[v] = j
    BY <1>1, <2>1, <2>3
  <2>4. QED
    BY <2>1, <2>2, <2>3
<1>7. QED
  BY <1>2, <1>3, <1>4, <1>5, <1>6 DEF Work, Resolving

\* Every step of the process keeps the leases in hands.
LEMMA LeasesNext ==
    ASSUME TypeInv, Q!MemberInv, LeasesHeld, [Next]_vars
    PROVE  LeasesHeld'
<1> USE DEF TypeInv, LeasesHeld
<1>1. CASE Boot
  BY <1>1 DEF Boot, Launch
<1>2. CASE Crash
  BY <1>2 DEF Crash
<1>3. CASE Aside
  BY <1>3, AsideType
<1>4. CASE Ticks
  BY <1>4, TickIsCall, TickLeases DEF outside
<1>5. ASSUME NEW w \in Workers, Work(w)
      PROVE  LeasesHeld'
  BY <1>5, WorkLeases
<1>6. QED
  BY <1>1, <1>2, <1>3, <1>4, <1>5, CrawlerTicks, CrawlerAside DEF Next

\* Once everybody has stopped, all hands are empty.
LEMMA NothingHeld ==
    ASSUME TypeOK, Q!MemberInv, LeasesHeld
    PROVE  CleanStop
<1> SUFFICES ASSUME ~Up, ~leaked
             PROVE  processing = {} /\ lease = << >>
  BY DEF CleanStop
<1>1. \A w \in Workers : holds[w] = NoJob
  BY DEF TypeOK, Up
<1>2. NoJob \notin processing
  BY UrlAssumption DEF TypeOK, Q!TypeOK, Q!Job, Q!URL, Job, URL
<1>3. processing = {} /\ DOMAIN lease = {}
  BY <1>1, <1>2 DEF LeasesHeld, Q!MemberInv, Q!ProcessingLeased
<1>4. QED
  BY <1>3 DEF TypeOK, Q!TypeOK, Q!ZSet

\* A process that stopped without losing a call has given every lease back.
THEOREM CleanStopCorrect == Spec => []CleanStop
<1>1. Init => LeasesHeld
  BY DEF Init, Q!Init, LeasesHeld
<1>2. TypeInv => TypeOK
  BY DEF TypeInv
<1>3. QED
  BY <1>1, <1>2, TypeInit, TypeNext, LeasesNext, NothingHeld, PTL DEF Spec

-----------------------------------------------------------------------------
(* Upsert before Ack.  The proof needs to know of a worker only that it    *)
(* comes to admit the links of a video page by way of Upsert, and that     *)
(* nobody but itself changes the job in its hands.                         *)

Past(w) == pc[w] \in {"admit", "finish"}

\* A worker past Upsert with a video has it stored.
PastStored == \A w \in Workers : Past(w) /\ holds[w].url \in Videos => holds[w].url \in stored

Hands == pc = [w \in Workers |-> pc[w]] /\ holds = [w \in Workers |-> holds[w]]

StoreInv == Hands /\ PastStored /\ AckedStored

\* A step that stores nothing away, Acks nothing and moves no worker past
\* Upsert, nor changes the job of one that is.
LEMMA StoreKept ==
    ASSUME StoreInv, Hands', stored \subseteq stored', acked' = acked,
           \A w \in Workers : Past(w)' => Past(w) /\ holds'[w] = holds[w]
    PROVE  StoreInv'
BY DEF StoreInv, PastStored, AckedStored

\* The same for a step of one worker w.
LEMMA WorkerKept ==
    ASSUME StoreInv, NEW w \in Workers, NEW step, Goto(w, step),
           holds' = holds \/ \E j : holds' = [holds EXCEPT ![w] = j],
           stored \subseteq stored', acked' = acked,
           step \in {"admit", "finish"} => Past(w) /\ holds' = holds
    PROVE  StoreInv'
<1>1. /\ Hands'
      /\ \A v \in Workers : pc'[v] = IF v = w THEN step ELSE pc[v]
      /\ \A v \in Workers \ {w} : holds'[v] = holds[v]
  BY DEF StoreInv, Hands, Goto
<1>2. QED
  BY <1>1, StoreKept DEF Past

\* A call to the frontier by a reconciler.
LEMMA FrontierKept ==
    ASSUME StoreInv,
           \/ Q!Tick \/ Q!Sweep
           \/ \E t \in Q!Reading : Q!Reap(t) \/ Q!Promote(t) \/ Q!RunListingScheduler(t)
    PROVE  acked' = acked /\ holds' = holds
BY DEF Q!Tick, Q!Sweep, Q!SweepPage, Q!Reap, Q!ReapPage, Q!Promote, Q!PromotePage,
       Q!RunListingScheduler, Q!SchedulePage

\* Resolutions other than Finish change the job of their worker only.
LEMMA ResolveKept ==
    ASSUME StoreInv, NEW w \in Workers,
           \/ Nack(w) \/ NackStop(w) \/ NackFatal(w) \/ Terminal(w)
           \/ Fail(w, "rateLimited", "RateLimited") \/ Fail(w, "strike", "Strikeable")
    PROVE  StoreInv'
<1>1. ASSUME \/ Q!Drop(w) \/ Q!Nack(w) \/ \E t \in Q!Reading : Q!Terminal(w, t)
             \/ \E t \in Q!Reading, class \in FailClass : Q!Fail(w, class, t)
      PROVE  acked' = acked /\ holds' = [holds EXCEPT ![w] = NoJob]
  BY <1>1 DEF Q!Drop, Q!Nack, Q!Terminal, Q!Fail, Q!Release
<1>2. acked' = acked /\ holds' = [holds EXCEPT ![w] = NoJob]
  BY <1>1 DEF Nack, NackStop, NackFatal, Terminal, Fail, Resolve, NackJob, FailClass
<1>3. \E step \in {"idle", "stopped"} : Goto(w, step)
  BY DEF Nack, NackStop, NackFatal, Terminal, Fail, Resolve, Loop
<1>4. stored' = stored
  BY DEF Nack, NackStop, NackFatal, Terminal, Fail, Resolve
<1>5. QED
  BY <1>2, <1>3, <1>4, WorkerKept

\* The job is resolved for good, its video long stored.
LEMMA FinishKept ==
    ASSUME StoreInv, NEW w \in Workers, Finish(w)
    PROVE  StoreInv'
<1>1. /\ Past(w) /\ stored' = stored /\ Goto(w, Loop)
      /\ holds' = [holds EXCEPT ![w] = NoJob]
  BY DEF Finish, Resolve, Past, Q!Ack, Q!CompleteListing, Q!Drop, Q!Release
<1>2. acked' = acked \/ (acked' = acked \cup {holds[w].url} /\ holds[w].url \in Videos)
  BY DEF Finish, Resolve, Q!Ack, Q!CompleteListing, Q!Drop
<1>3. acked' \subseteq stored'
  BY <1>1, <1>2 DEF StoreInv, PastStored, AckedStored
<1>4. /\ Hands' /\ ~Past(w)'
      /\ \A v \in Workers \ {w} : holds'[v] = holds[v] /\ pc'[v] = pc[v]
  BY <1>1 DEF StoreInv, Hands, Goto, Loop, Past
<1>5. PastStored'
  BY <1>1, <1>4 DEF StoreInv, PastStored, Past
<1>6. QED
  BY <1>3, <1>4, <1>5 DEF StoreInv, AckedStored

\* Steps of a worker.
LEMMA StoreWork ==
    ASSUME StoreInv, NEW w \in Workers, Work(w)
    PROVE  StoreInv'
<1>1. CASE Exit(w) \/ Pace(w) \/ Refused(w) \/ Interrupted(w)
  <2>1. \E step \in Steps \ {"admit", "finish"} : Goto(w, step)
    BY <1>1 DEF Exit, Pace, Refused, Interrupted, Steps
  <2>2. UNCHANGED <<holds, stored, acked>>
    BY <1>1 DEF Exit, Pace, Refused, Interrupted, frontier, outside
  <2>3. QED
    BY <2>1, <2>2, WorkerKept
<1>2. CASE Lease(w)
  BY <1>2, WorkerKept DEF Lease, Q!Lease, outside
<1>3. CASE LeaseUnanswered(w)
  BY <1>3, WorkerKept DEF LeaseUnanswered, Q!Drop, Loop
<1>4. CASE Served(w)
  <2>1. /\ Hands' /\ UNCHANGED <<holds, stored, acked>>
        /\ Past(w)' => holds[w].url \notin Videos
        /\ \A v \in Workers \ {w} : pc'[v] = pc[v]
    BY <1>4 DEF Served, Goto, StoreInv, Hands, Past, frontier, outside
  <2>2. QED
    BY <2>1 DEF StoreInv, PastStored, Past, AckedStored
<1>5. CASE Store(w)
  <2>1. /\ Hands' /\ UNCHANGED <<holds, acked>> /\ stored' = stored \cup {holds[w].url}
        /\ \A v \in Workers \ {w} : pc'[v] = pc[v]
    BY <1>5 DEF Store, Goto, StoreInv, Hands, frontier
  <2>2. QED
    BY <2>1 DEF StoreInv, PastStored, Past, AckedStored
<1>6. CASE StoreFails(w)
  <2>1. Goto(w, "nack") /\ UNCHANGED <<holds, acked>> /\ stored \subseteq stored'
    BY <1>6 DEF StoreFails, frontier
  <2>2. QED
    BY <2>1, WorkerKept
<1>7. CASE AdmitChild(w) \/ AdmitFails(w) \/ AdmitRepeated(w)
  <2>1. acked' = acked /\ holds' = holds
    BY <1>7 DEF AdmitChild, AdmitFails, AdmitRepeated, AdmitCall, Q!AdmitVideo,
       Q!AdmitListing, frontier
  <2>2. stored' = stored /\ (UNCHANGED pc \/ Goto(w, "nack") \/ Goto(w, "nackFatal"))
    BY <1>7 DEF AdmitChild, AdmitFails, AdmitRepeated, outside, work
  <2>3. CASE UNCHANGED pc
    BY <2>1, <2>2, <2>3 DEF StoreInv, Hands, PastStored, Past, AckedStored
  <2>4. QED
    BY <2>1, <2>2, <2>3, WorkerKept
<1>8. CASE AdmitDone(w)
  BY <1>8, WorkerKept DEF AdmitDone, Past, frontier, outside
<1>9. QED
  BY <1>1, <1>2, <1>3, <1>4, <1>5, <1>6, <1>7, <1>8, FinishKept, ResolveKept DEF Work

\* Nothing outside the workers Acks a video or takes it from MongoDB.
LEMMA StoreNext ==
    ASSUME StoreInv, [Next]_vars
    PROVE  StoreInv'
<1>1. ASSUME UNCHANGED <<pc, holds, stored, acked>>
      PROVE  StoreInv'
  BY <1>1 DEF StoreInv, Hands, PastStored, Past, AckedStored
<1>2. CASE Boot
  <2>1. pc' = [w \in Workers |-> "idle"] /\ UNCHANGED <<holds, stored, acked>>
    BY <1>2 DEF Boot, Launch
  <2>2. QED
    BY <2>1 DEF StoreInv, Hands, PastStored, Past, AckedStored
<1>3. CASE Crash
  <2>1. /\ pc' = [w \in Workers |-> "stopped"] /\ UNCHANGED <<stored, acked>>
        /\ holds' = [w \in Workers |-> NoJob]
    BY <1>3 DEF Crash
  <2>2. QED
    BY <2>1 DEF StoreInv, Hands, PastStored, Past, AckedStored
<1>4. CASE BootFails \/ Shutdown \/ UNCHANGED vars
  BY <1>1, <1>4 DEF BootFails, Shutdown, vars, work, outside, frontier
<1>5. CASE Tick \/ Reap \/ Promote \/ RunListingScheduler \/ Sweep
  <2>1. UNCHANGED <<pc, stored>>
    BY <1>5 DEF Tick, Reap, Promote, RunListingScheduler, Sweep, Reconcile, work, outside
  <2>2. acked' = acked /\ holds' = holds
    BY <1>5, FrontierKept DEF Tick, Reap, Promote, RunListingScheduler, Sweep, Reconcile
  <2>3. QED
    BY <1>1, <2>1, <2>2
<1>6. QED
  BY <1>2, <1>3, <1>4, <1>5, StoreWork DEF Next

\* Nothing is stored or Acked at first.
LEMMA StoreInit == Init => StoreInv
BY DEF Init, Q!Init, StoreInv, Hands, PastStored, Past, AckedStored

\* A video leaves the frontier for good only when MongoDB has it: for any web,
\* any number of workers, faults and restarts.
THEOREM AckedStoredCorrect == Spec => []AckedStored
<1>1. StoreInv => AckedStored
  BY DEF StoreInv
<1>2. QED
  BY <1>1, StoreInit, StoreNext, PTL DEF Spec
-----------------------------------------------------------------------------
(* The child contract.                                                     *)

\* A link nobody has to admit any more.
Covered(l) == l \in bloom \cup DOMAIN listingNext \cup DOMAIN dead \cup misjudged

\* Dead listings are on the schedule when they leave dead, and dead videos never
\* leave it: between outages the frontier forgets no url.
LEMMA FrontierRemembers ==
    ASSUME Q!TypeOK, Q!VideosDieForever, Q!Next \/ UNCHANGED frontier
    PROVE  /\ Q!VideosDieForever'
           /\ bloom \subseteq bloom'
           /\ DOMAIN listingNext \cup DOMAIN dead \subseteq DOMAIN listingNext' \cup DOMAIN dead'
<1> USE DEF Q!VideosDieForever
<1>1. Videos \cap Listings = {} /\ DOMAIN listingNext \subseteq Listings
  BY UrlAssumption DEF Q!TypeOK, Q!ZSet
<1>2. CASE UNCHANGED <<dead, bloom>> /\ DOMAIN listingNext \subseteq DOMAIN listingNext'
  BY <1>2
<1>3. CASE Q!Tick \/ Q!Sweep \/ \E t \in Q!Reading : Q!Reap(t) \/ Q!Promote(t)
  BY <1>2, <1>3 DEF Q!Tick, Q!Sweep, Q!SweepPage, Q!Reap, Q!ReapPage, Q!Promote, Q!PromotePage
<1>4. CASE Q!Admit
  <2>1. CASE Q!SeedListing
    BY <1>2, <2>1 DEF Q!SeedListing, Q!ZAdd
  <2>2. ASSUME NEW u \in Videos, NEW t \in Q!Reading, Q!AdmitVideo(u, t)
        PROVE  /\ bloom \subseteq bloom' /\ listingNext' = listingNext /\ dead' = dead
    <3>1. u \notin DOMAIN dead
      BY <2>2 DEF Q!AdmitVideo, Q!Blocked
    <3>2. dead' = dead
      BY <2>2, <3>1 DEF Q!AdmitVideo, Q!ZRem, Q!Restrict, Q!TypeOK, Q!ZSet
    <3>3. QED
      BY <2>2, <3>2 DEF Q!AdmitVideo, Q!VideoSuppressed, Q!VideoNew, Q!VideoUnclaimed
  <2>3. ASSUME NEW u \in Listings, NEW t \in Q!Reading, Q!AdmitListing(u, t)
        PROVE  /\ bloom' = bloom /\ DOMAIN listingNext \cup {u} \subseteq DOMAIN listingNext'
               /\ dead' = ZRem(dead, {u})
    BY <2>3 DEF Q!AdmitListing, Q!ListingDue, Q!ZAdd, Q!ZRem, ZRem,
       Q!Restrict, Restrict
  <2>4. ASSUME NEW u \in Listings, dead' = ZRem(dead, {u}), bloom' = bloom,
               DOMAIN listingNext \cup {u} \subseteq DOMAIN listingNext'
        PROVE  /\ Q!VideosDieForever' /\ bloom \subseteq bloom'
               /\ DOMAIN listingNext \cup DOMAIN dead \subseteq DOMAIN listingNext' \cup DOMAIN dead'
    <3>1. /\ DOMAIN dead' = DOMAIN dead \ {u}
          /\ \A v \in DOMAIN dead' : dead'[v] = dead[v]
      BY <2>4 DEF ZRem, Restrict
    <3>2. QED
      BY <2>4, <3>1
  <2>5. ASSUME NEW u \in Listings, NEW t \in Q!Reading, Q!AdmitListing(u, t)
        PROVE  /\ Q!VideosDieForever' /\ bloom \subseteq bloom'
               /\ DOMAIN listingNext \cup DOMAIN dead \subseteq DOMAIN listingNext' \cup DOMAIN dead'
    BY <2>3, <2>4, <2>5
  <2>6. ASSUME NEW u \in Videos, NEW t \in Q!Reading, Q!AdmitVideo(u, t)
        PROVE  /\ Q!VideosDieForever' /\ bloom \subseteq bloom'
               /\ DOMAIN listingNext \cup DOMAIN dead \subseteq DOMAIN listingNext' \cup DOMAIN dead'
    BY <2>2, <2>6
  <2>7. QED
    BY <1>4, <2>1, <2>5, <2>6, Zenon DEF Q!Admit
<1>5. CASE Q!Work
  <2>1. ASSUME NEW w \in Workers,
               \/ Q!LeaseNothing(w) \/ Q!Ack(w) \/ Q!Nack(w) \/ Q!Drop(w)
               \/ \E t \in Q!Reading : Q!Lease(w, t)
        PROVE  UNCHANGED <<dead, bloom, listingNext>>
    BY <2>1 DEF Q!LeaseNothing, Q!Ack, Q!Nack, Q!Drop, Q!Lease, Q!vars
  <2>2. ASSUME NEW w \in Workers, NEW t \in Q!Reading,
               Q!Terminal(w, t) \/ \E class \in Q!FailClass : Q!Fail(w, class, t)
        PROVE  /\ bloom' = bloom /\ DOMAIN listingNext \subseteq DOMAIN listingNext'
               /\ \/ dead' = dead
                  \/ dead' = ZAdd(dead, holds[w].url, QuarantineUntil(holds[w].url, t))
    BY <2>2 DEF Q!Terminal, Q!Fail, Q!FailDead, Q!FailDelayed, Q!Bury, Q!ZAdd, ZAdd,
       Q!QuarantineUntil, QuarantineUntil
  <2>3. ASSUME NEW w \in Workers, NEW t \in Q!Reading, NEW new \in BOOLEAN,
               Q!CompleteListing(w, new, t)
        PROVE  /\ bloom' = bloom /\ holds[w].url \in Listings
               /\ DOMAIN listingNext \cup {holds[w].url} \subseteq DOMAIN listingNext'
               /\ dead' = ZRem(dead, {holds[w].url})
    BY <2>3 DEF Q!CompleteListing, Q!ZAdd, Q!ZRem, ZRem,
       Q!Restrict, Restrict
  <2>4. CASE UNCHANGED <<dead, bloom, listingNext>>
    BY <2>4
  <2>5. ASSUME NEW w \in Workers, NEW t \in Q!Reading,
               Q!Terminal(w, t) \/ \E class \in Q!FailClass : Q!Fail(w, class, t)
        PROVE  /\ Q!VideosDieForever' /\ bloom \subseteq bloom'
               /\ DOMAIN listingNext \cup DOMAIN dead \subseteq DOMAIN listingNext' \cup DOMAIN dead'
    <3>1. \A u : DOMAIN ZAdd(dead, u, QuarantineUntil(u, t)) = DOMAIN dead \cup {u}
      BY DEF ZAdd
    <3>2. \A u : \A v \in Videos \cap (DOMAIN dead \cup {u}) :
             ZAdd(dead, u, QuarantineUntil(u, t))[v] = 0
      BY DEF ZAdd, QuarantineUntil
    <3>3. QED
      BY <2>2, <2>5, <3>1, <3>2
  <2>6. ASSUME NEW w \in Workers, NEW t \in Q!Reading, NEW new \in BOOLEAN,
               Q!CompleteListing(w, new, t)
        PROVE  /\ Q!VideosDieForever' /\ bloom \subseteq bloom'
               /\ DOMAIN listingNext \cup DOMAIN dead \subseteq DOMAIN listingNext' \cup DOMAIN dead'
    <3>1. /\ DOMAIN dead' = DOMAIN dead \ {holds[w].url}
          /\ \A u \in DOMAIN dead' : dead'[u] = dead[u]
      BY <2>3, <2>6 DEF ZRem, Restrict
    <3>2. /\ bloom' = bloom
          /\ DOMAIN listingNext \cup {holds[w].url} \subseteq DOMAIN listingNext'
      BY <2>3, <2>6
    <3>3. Q!VideosDieForever'
      BY <3>1
    <3>4. QED
      BY <3>1, <3>2, <3>3
  <2>7. QED
    BY <1>5, <2>1, <2>4, <2>5, <2>6 DEF Q!Work
<1>6. ASSUME NEW t \in Q!Reading, Q!RunListingScheduler(t)
      PROVE  /\ Q!VideosDieForever' /\ bloom \subseteq bloom'
             /\ DOMAIN listingNext \cup DOMAIN dead \subseteq DOMAIN listingNext' \cup DOMAIN dead'
  <2>0. PICK n \in 1..SchedulerBatchLimit :
          \E b \in Q!Page(listingNext, t, SchedulerBatchLimit, n) : Q!SchedulePage(t, n, b)
    BY <1>6 DEF Q!RunListingScheduler
  <2>1. PICK b \in Q!Page(listingNext, t, SchedulerBatchLimit, n) : Q!SchedulePage(t, n, b)
    BY <2>0
  <2>2. Q!Range(b) \subseteq DOMAIN listingNext
    BY <2>1 DEF Q!Page, Q!Due, Q!Range
  <2> DEFINE blocked == {u \in Q!Range(b) : Q!Blocked(u, t)}
             forever == {u \in blocked : dead[u] = 0}
  <2>3. /\ DOMAIN listingNext' = DOMAIN listingNext \ forever
        /\ dead' = Q!ZRem(dead, Q!Range(b) \ blocked) /\ bloom' = bloom
    BY <2>1 DEF Q!SchedulePage
  <2>4. forever \subseteq DOMAIN dead \cap blocked
    BY DEF Q!Blocked
  <2>5. /\ DOMAIN dead' = DOMAIN dead \ (Q!Range(b) \ blocked)
        /\ \A u \in DOMAIN dead' : dead'[u] = dead[u]
    BY <2>3 DEF Q!ZRem, Q!Restrict
  <2> HIDE DEF blocked, forever
  <2>6. QED
    BY <1>1, <2>2, <2>3, <2>4, <2>5
<1>7. CASE UNCHANGED frontier
  BY <1>2, <1>7 DEF frontier
<1>8. QED
  BY <1>3, <1>4, <1>5, <1>6, <1>7 DEF Q!Next, Q!Reconcile

\* An admission that is not refused by a full filter covers its link.
LEMMA AdmitCovers ==
    ASSUME TypeOK, Q!MemberInv, Q!VideosDieForever, NEW w \in Workers, NEW u \in URL,
           AdmitCall(u), Credit(w, u), ~AnswersFull(u)
    PROVE  Covered(u)'
<1>1. PICK t \in Q!Reading :
         \/ Q!Blocked(u, t) /\ UNCHANGED frontier
         \/ u \in Videos /\ Q!AdmitVideo(u, t)
         \/ u \in Listings /\ Q!AdmitListing(u, t)
  BY DEF AdmitCall
<1>2. CASE Q!Blocked(u, t) /\ UNCHANGED frontier
  BY <1>2 DEF Q!Blocked, frontier, Covered
<1>3. CASE u \in Listings /\ Q!AdmitListing(u, t)
  BY <1>3 DEF Q!AdmitListing, Q!ListingDue, Q!ZAdd, Covered
<1>4. CASE u \in Videos /\ Q!AdmitVideo(u, t)
  <2>1. seq' # seq
    BY <1>4 DEF Q!AdmitVideo, TypeOK, Q!TypeOK
  <2>2. Q!Mint(u) \notin ready
    BY DEF Q!Mint, Q!MemberInv, Q!IdsMinted, Q!Live, TypeOK, Q!TypeOK, Q!Job
  <2>3. CASE Q!VideoSuppressed
    BY <1>4, <2>1, <2>3 DEF Q!VideoSuppressed, FalsePositive, Credit, Covered
  <2>4. CASE Q!VideoNew(u)
    BY <2>4 DEF Q!VideoNew, Covered
  <2>5. CASE Q!VideoUnclaimed(u)
    BY <1>4, <2>2, <2>5 DEF Q!VideoUnclaimed, AnswersFull
  <2>6. QED
    BY <1>4, <2>3, <2>4, <2>5 DEF Q!AdmitVideo
<1>5. QED
  BY <1>1, <1>2, <1>3, <1>4

\* The links a worker has yet to admit are all that is not covered of its page.
AdmittingCovered(w) ==
    LET page == Range(Links[holds[w].url])
    IN  /\ pc[w] = "store" => links[w] = Links[holds[w].url]
        /\ pc[w] = "admit" => \A l \in page : Covered(l) \/ l \in Range(links[w])
        /\ pc[w] = "finish" => \A l \in page : Covered(l)

\* The contract, inductively.
ContractInv ==
    /\ Q!VideosDieForever
    /\ \A w \in Workers : AdmittingCovered(w)
    /\ ChildContract

\* What is covered stays covered.
Remembers == \A l : Covered(l) => Covered(l)'

\* The step of a worker covers what the worker passes over.
LEMMA WorkCovers ==
    ASSUME TypeInv, Q!MemberInv, ContractInv, NEW w \in Workers, Work(w), Remembers
    PROVE  AdmittingCovered(w)' /\ ChildContract'
<1> USE DEF TypeInv
<1>1. /\ pc \in [Workers -> Steps] /\ links \in [Workers -> Seq(URL)]
      /\ fresh[w] \in BOOLEAN /\ AdmittingCovered(w)
  BY DEF TypeOK, ContractInv
<1>2. ASSUME visited' = visited
      PROVE  ChildContract'
  BY <1>2 DEF Remembers, ContractInv, ChildContract, Covered
<1>3. ASSUME pc'[w] \notin {"store", "admit", "finish"}
      PROVE  AdmittingCovered(w)'
  BY <1>3 DEF AdmittingCovered
<1>4. CASE \/ Exit(w) \/ Pace(w) \/ Refused(w) \/ Interrupted(w) \/ StoreFails(w)
           \/ Lease(w) \/ LeaseUnanswered(w)
  <2>1. visited' = visited
    BY <1>4 DEF Exit, Pace, Refused, Interrupted, StoreFails, Lease, LeaseUnanswered, history
  <2>2. pc'[w] \notin {"store", "admit", "finish"}
    BY <1>1, <1>4 DEF Exit, Pace, Refused, Interrupted, StoreFails, Lease,
       LeaseUnanswered, Goto, Loop
  <2>3. QED
    BY <1>2, <1>3, <2>1, <2>2
<1>5. CASE Served(w)
  BY <1>1, <1>2, <1>5 DEF Served, Goto, AdmittingCovered, frontier, history
<1>6. CASE Store(w)
  BY <1>1, <1>2, <1>6 DEF Store, Goto, AdmittingCovered, frontier, history
<1>7. CASE AdmitDone(w)
  <2>1. Range(links[w]) = {} /\ links'[w] = links[w] /\ holds' = holds
    BY <1>7 DEF AdmitDone, Range, frontier
  <2>2. pc[w] = "admit" /\ pc'[w] = "finish" /\ visited' = visited
    BY <1>1, <1>7 DEF AdmitDone, Goto, history
  <2>3. QED
    BY <1>1, <1>2, <2>1, <2>2 DEF AdmittingCovered, Remembers
<1>8. CASE AdmitFails(w)
  <2>1. visited' = visited /\ pc'[w] \notin {"store", "admit", "finish"}
    BY <1>1, <1>8 DEF AdmitFails, Goto, Credit, history
  <2>2. QED
    BY <1>2, <1>3, <2>1
<1>9. CASE AdmitChild(w) \/ AdmitRepeated(w)
  <2>0. links[w] # << >> /\ pc[w] = "admit" /\ Head(links[w]) \in URL
    BY <1>1, <1>9 DEF AdmitChild, AdmitRepeated
  <2> PICK u \in URL : u = Head(links[w])
    BY <2>0
  <2>1. links[w] # << >> /\ pc[w] = "admit" /\ AdmitCall(u) /\ Credit(w, u)
    BY <1>9 DEF AdmitChild, AdmitRepeated
  <2>2. holds' = holds /\ visited' = visited
    BY <2>1, AdmitIsCall DEF Credit
  <2>3. CASE UNCHANGED work
    BY <1>1, <1>2, <2>1, <2>2, <2>3 DEF AdmittingCovered, Remembers, work
  <2>4. CASE AnswersFull(u) /\ AdmitChild(w)
    BY <1>1, <1>2, <1>3, <2>2, <2>4 DEF AdmitChild, Goto
  <2>5. CASE ~AnswersFull(u) /\ AdmitChild(w)
    <3>1. links'[w] = Tail(links[w]) /\ pc' = pc
      BY <1>1, <2>5 DEF AdmitChild
    <3>2. Covered(u)'
      BY <2>1, <2>5, AdmitCovers DEF ContractInv
    <3>3. ASSUME NEW i \in DOMAIN links[w]
          PROVE  links[w][i] = u \/ links[w][i] \in Range(Tail(links[w]))
      <4>1. links[w] \in Seq(URL) /\ i \in 1..Len(links[w])
        BY <1>1
      <4>2. CASE i = 1
        BY <2>1, <4>1, <4>2
      <4>3. CASE i # 1
        <5>1. /\ i - 1 \in DOMAIN Tail(links[w])
              /\ Tail(links[w])[i - 1] = links[w][i]
          BY <2>1, <4>1, <4>3
        <5>2. QED
          BY <5>1 DEF Range
      <4>4. QED
        BY <4>2, <4>3
    <3>4. \A l \in Range(links[w]) : l = u \/ l \in Range(Tail(links[w]))
      BY <3>3 DEF Range
    <3>5. \A l \in Range(Links[holds[w].url]) :
             Covered(l)' \/ l \in Range(links'[w])
      BY <1>1, <2>1, <3>1, <3>2, <3>4 DEF AdmittingCovered, Remembers
    <3>6. QED
      BY <1>2, <2>1, <2>2, <3>1, <3>5 DEF AdmittingCovered
  <2>6. QED
    BY <1>9, <2>3, <2>4, <2>5 DEF AdmitRepeated
<1>10. CASE Resolving(w)
  <2>1. PICK step \in Idle : Goto(w, step)
    BY <1>10 DEF Resolving, Finish, Nack, NackStop, NackFatal, Terminal, Fail, Resolve,
       Loop, Idle
  <2>2. pc'[w] \notin {"store", "admit", "finish"}
    BY <1>1, <2>1 DEF Goto, Idle
  <2>3. CASE visited' = visited
    BY <1>2, <1>3, <2>2, <2>3
  <2>4. CASE visited' # visited
    <3>1. pc[w] = "finish" /\ visited' = visited \cup {holds[w].url}
      BY <1>10, <2>4 DEF Resolving, Finish, Nack, NackJob, NackStop, NackFatal, Terminal,
         Fail, Resolve, history
    <3>2. \A l \in Range(Links[holds[w].url]) : Covered(l)'
      BY <1>1, <3>1 DEF AdmittingCovered, Remembers
    <3>3. ChildContract'
      BY <3>1, <3>2 DEF ContractInv, ChildContract, Covered, Remembers
    <3>4. QED
      BY <1>3, <2>2, <3>3
  <2>5. QED
    BY <2>3, <2>4
<1>11. QED
  BY <1>4, <1>5, <1>6, <1>7, <1>8, <1>9, <1>10 DEF Work, Resolving

\* A step that works on no page and forgets nothing keeps the contract.
LEMMA ContractKept ==
    ASSUME ContractInv, Remembers, Q!VideosDieForever', visited' = visited,
           \/ UNCHANGED <<holds, pc, links>>
           \/ \A w \in Workers : pc'[w] \in Idle
    PROVE  ContractInv'
<1>1. ChildContract'
  BY DEF ContractInv, ChildContract, Remembers, Covered
<1>2. \A w \in Workers : AdmittingCovered(w)'
  BY DEF ContractInv, AdmittingCovered, Remembers, Idle
<1>3. QED
  BY <1>1, <1>2 DEF ContractInv

\* No worker loses the credit for a misjudged video.
LEMMA MisjudgedStay ==
    ASSUME NEW w \in Workers, Work(w)
    PROVE  misjudged \subseteq misjudged'
<1>1. CASE AdmitChild(w) \/ AdmitFails(w) \/ AdmitRepeated(w)
  <2>1. Credit(w, Head(links[w])) \/ UNCHANGED history
    BY <1>1 DEF AdmitChild, AdmitFails, AdmitRepeated
  <2>2. QED
    BY <2>1 DEF Credit, history
<1>2. CASE ~(AdmitChild(w) \/ AdmitFails(w) \/ AdmitRepeated(w))
  BY <1>2 DEF Work, Exit, Lease, LeaseUnanswered, Pace, Served, Refused, Interrupted, Store,
     StoreFails, AdmitDone, Finish, Nack, NackJob, NackStop, NackFatal, Terminal, Fail,
     Resolve, history
<1>3. QED
  BY <1>1, <1>2

\* Every step of the process keeps the contract.
LEMMA ContractNext ==
    ASSUME TypeInv, Q!MemberInv, ContractInv, [Next]_vars
    PROVE  ContractInv'
<1> USE DEF TypeInv
<1>1. CASE Boot
  <2>1. /\ bloom \subseteq bloom' /\ DOMAIN listingNext \subseteq DOMAIN listingNext'
        /\ UNCHANGED <<dead, history>> /\ pc' = [w \in Workers |-> "idle"]
    BY <1>1 DEF Boot, Launch, ZAdd
  <2>2. Remembers /\ Q!VideosDieForever'
    BY <2>1 DEF Remembers, Covered, history, ContractInv, Q!VideosDieForever
  <2>3. QED
    BY <2>1, <2>2, ContractKept DEF Idle, history
<1>2. CASE Crash
  <2>1. /\ UNCHANGED <<bloom, listingNext, dead, history>>
        /\ pc' = [w \in Workers |-> "stopped"]
    BY <1>2 DEF Crash
  <2>2. Remembers /\ Q!VideosDieForever'
    BY <2>1 DEF Remembers, Covered, history, ContractInv, Q!VideosDieForever
  <2>3. QED
    BY <2>1, <2>2, ContractKept DEF Idle, history
<1>3. CASE Aside
  <2>1. bloom \subseteq bloom' /\ UNCHANGED <<dead, listingNext, holds, work, history>>
    BY <1>3, AsideType
  <2>2. Remembers /\ Q!VideosDieForever'
    BY <2>1 DEF Remembers, Covered, history, ContractInv, Q!VideosDieForever
  <2>3. QED
    BY <2>1, <2>2, ContractKept DEF work, history
<1>4. CASE Ticks
  <2>1. Q!Next /\ UNCHANGED <<holds, work, history>>
    BY <1>4, TickIsCall
  <2>2. Remembers /\ Q!VideosDieForever'
    BY <2>1, FrontierRemembers DEF Remembers, Covered, ContractInv, TypeOK, history
  <2>3. QED
    BY <2>1, <2>2, ContractKept DEF work, history
<1>5. ASSUME NEW w \in Workers, Work(w)
      PROVE  ContractInv'
  <2>1. Remembers /\ Q!VideosDieForever'
    <3>1. Q!Next \/ UNCHANGED frontier
      BY <1>5, WorkIsCall DEF TypeOK
    <3>2. QED
      BY <1>5, <3>1, FrontierRemembers, MisjudgedStay DEF Remembers, Covered, ContractInv, TypeOK
  <2>2. AdmittingCovered(w)' /\ ChildContract'
    BY <1>5, <2>1, WorkCovers
  <2>3. ASSUME NEW v \in Workers \ {w}
        PROVE  AdmittingCovered(v)'
    BY <1>5, <2>1, <2>3, WorkLocal DEF ContractInv, AdmittingCovered, Remembers
  <2>4. QED
    BY <2>1, <2>2, <2>3 DEF ContractInv
<1>6. QED
  BY <1>1, <1>2, <1>3, <1>4, <1>5, CrawlerTicks, CrawlerAside DEF Next

\* Whatever fails, in whatever order: no page is done with a link unaccounted for.
THEOREM ChildContractCorrect == Spec => []ChildContract
<1>1. Init => ContractInv
  BY DEF Init, Q!Init, ContractInv, Q!VideosDieForever, AdmittingCovered, ChildContract
<1>2. ContractInv => ChildContract
  BY DEF ContractInv
<1>3. QED
  BY <1>1, <1>2, TypeInit, TypeNext, ContractNext, PTL DEF Spec
-----------------------------------------------------------------------------
(* The promises of the frontier over crashes and restarts.                 *)

\* The facts about urls, and what keeps a startup from adding a claim: MongoDB
\* has no video the frontier has never heard of.
FrontierInv ==
    /\ F!UrlInv
    /\ IsFiniteSet(bloom) /\ IsFiniteSet(stored)
    /\ \A v \in stored : F!VideoKnown(v)
    /\ \A w \in Workers :
          holds[w] # NoJob /\ holds[w].url \in Videos => F!VideoKnown(holds[w].url)

\* The two frontiers have the same types and the same facts about members.
LEMMA SameTypes ==
    ASSUME Q!TypeOK, Q!MemberInv
    PROVE  F!TypeOK /\ F!MemberInv
<1>1. F!TypeOK
  BY DEF Q!TypeOK, F!TypeOK, Q!ZSet, F!ZSet, Q!Job, F!Job, Q!URL, F!URL
<1>2. F!MemberInv
  BY DEF Q!MemberInv, F!MemberInv, Q!IdsMinted, F!IdsMinted,
     Q!QueuesDisjoint, F!QueuesDisjoint, Q!LeaseAtMostOnce, F!LeaseAtMostOnce,
     Q!ProcessingLeased, F!ProcessingLeased, Q!Live, F!Live
<1>3. QED
  BY <1>1, <1>2

\* They make the same promises.
LEMMA SamePromises == F!UrlInv /\ Q!MemberInv => FrontierSound
BY DEF F!UrlInv, Q!MemberInv, FrontierSound, F!OneJobPerUrl, Q!OneJobPerUrl, F!PendingIffLive,
   Q!PendingIffLive, F!ClaimAccounted, Q!ClaimAccounted, F!Pending, Q!Pending,
   F!HasJob, Q!HasJob, F!Live, Q!Live

\* They count alike.
LEMMA SameCount == \A S : F!Cardinality(S) = Cardinality(S)
BY DEF F!Cardinality, Cardinality, F!IsFiniteSet, IsFiniteSet

\* A call puts at most one claim into the filter, and into a hand only a member
\* it leases.
LEMMA CallShape ==
    ASSUME Q!TypeOK, Q!Next \/ UNCHANGED frontier
    PROVE  /\ \E u : bloom' \in {bloom, bloom \cup {u}}
           /\ \A w \in Workers :
                 holds'[w] \in {holds[w], NoJob} \cup processing'
<1>1. CASE Q!Tick \/ Q!Reconcile \/ UNCHANGED frontier
  BY <1>1 DEF Q!Tick, Q!Reconcile, Q!Reap, Q!ReapPage, Q!Promote, Q!PromotePage, Q!Sweep,
     Q!SweepPage, Q!RunListingScheduler, Q!SchedulePage, frontier
<1>2. CASE Q!Admit
  BY <1>2 DEF Q!Admit, Q!AdmitVideo, Q!AdmitListing, Q!SeedListing, Q!VideoSuppressed,
     Q!VideoNew, Q!VideoUnclaimed
<1>3. CASE Q!Work
  <2> PICK w \in Workers :
        \/ Q!LeaseNothing(w) \/ Q!Ack(w) \/ Q!Nack(w) \/ Q!Drop(w)
        \/ \E t \in Q!Reading :
              \/ Q!Lease(w, t) \/ Q!Terminal(w, t)
              \/ \E class \in Q!FailClass : Q!Fail(w, class, t)
              \/ \E new \in BOOLEAN : Q!CompleteListing(w, new, t)
    BY <1>3 DEF Q!Work
  <2>1. CASE \E t \in Q!Reading : Q!Lease(w, t)
    <3>1. PICK j \in ready : /\ processing' = processing \cup {j} /\ bloom' = bloom
                             /\ holds' = [holds EXCEPT ![w] = j]
      BY <2>1 DEF Q!Lease
    <3>2. QED
      BY <3>1 DEF Q!TypeOK
  <2>2. CASE ~\E t \in Q!Reading : Q!Lease(w, t)
    <3>1. bloom' = bloom /\ holds' \in {holds, [holds EXCEPT ![w] = NoJob]}
      BY <2>2 DEF Q!LeaseNothing, Q!Ack, Q!Nack, Q!Drop, Q!Terminal, Q!Fail,
         Q!CompleteListing, Q!Release, Q!vars
    <3>2. QED
      BY <3>1 DEF Q!TypeOK
  <2>3. QED
    BY <2>1, <2>2
<1>4. QED
  BY <1>1, <1>2, <1>3 DEF Q!Next

\* A call to the frontier keeps the promises, and MongoDB within its memory.
LEMMA CallKept ==
    ASSUME Q!TypeOK, Q!TypeOK', Q!MemberInv, FrontierInv, Q!Next \/ UNCHANGED frontier,
           stored \subseteq Videos,
           \/ stored' = stored
           \/ \E w \in Workers : /\ holds[w] # NoJob /\ holds[w].url \in Videos
                                 /\ stored' = stored \cup {holds[w].url}
    PROVE  FrontierInv'
<1>1. F!TypeOK /\ F!MemberInv /\ F!UrlInv /\ [F!Next]_F!vars
  BY SameTypes, SameStep DEF FrontierInv
<1>2. F!UrlInv'
  BY <1>1, F!UrlNext, UrlAssumption, TimeAssumption, LimitAssumption
     DEF Job, F!Job, URL, F!URL
<1>3. \A v \in Videos : F!VideoKnown(v) => F!VideoKnown(v)'
  BY <1>1, F!KnownNext, UrlAssumption, TimeAssumption, LimitAssumption
     DEF Job, F!Job, URL, F!URL
<1>4. \A v \in stored' : F!VideoKnown(v)'
  BY <1>3 DEF FrontierInv
<1>5. IsFiniteSet(stored') /\ IsFiniteSet(bloom')
  <2>1. \A S, x : IsFiniteSet(S) => IsFiniteSet(S \cup {x})
    BY FS_AddElement
  <2>2. PICK u : bloom' \in {bloom, bloom \cup {u}}
    BY CallShape
  <2>3. stored' = stored \/ \E v : stored' = stored \cup {v}
    OBVIOUS
  <2>4. IsFiniteSet(stored')
    <3>1. IsFiniteSet(stored)
      BY DEF FrontierInv
    <3>2. \A v : IsFiniteSet(stored \cup {v})
      BY <2>1, <3>1
    <3>3. QED
      BY <2>3, <3>1, <3>2
  <2>5. QED
    BY <2>1, <2>2, <2>4 DEF FrontierInv
<1>6. ASSUME NEW w \in Workers, holds'[w] # NoJob, holds'[w].url \in Videos
      PROVE  F!VideoKnown(holds[w].url)'
  <2>1. CASE holds'[w] = holds[w]
    BY <1>3, <1>6, <2>1 DEF FrontierInv
  <2>2. CASE holds'[w] \in processing'
    BY <2>2 DEF F!VideoKnown, F!HasJob, F!Live
  <2>3. QED
    BY <1>6, <2>1, <2>2, CallShape
<1>7. QED
  BY <1>2, <1>4, <1>5, <1>6 DEF FrontierInv

\* What MongoDB has and the filter has not is news to the filter only when it
\* is full, and then there is no room for it.
LEMMA NothingToAdd ==
    ASSUME TypeOK, FrontierInv, NEW S \in SUBSET stored,
           Cardinality(bloom \cup S) <= BloomCapacity
    PROVE  bloom \cup S = bloom
<1> SUFFICES ASSUME NEW v \in S, v \notin bloom PROVE FALSE
  OBVIOUS
<1>1. F!VideoKnown(v) /\ v \in Videos \ bloom
  BY DEF FrontierInv, TypeOK
<1>2. Cardinality(bloom) >= BloomCapacity
  BY <1>1, SameCount DEF FrontierInv, F!UrlInv, F!UnclaimedWhenFull, F!VideoKnown, F!BloomFull
<1>3. /\ Cardinality(bloom \cup {v}) = Cardinality(bloom) + 1
      /\ Cardinality(bloom) \in Nat
  BY FS_AddElement, FS_CardinalityType DEF FrontierInv
<1>4. IsFiniteSet(bloom \cup S)
  BY FS_Subset, FS_Union DEF FrontierInv
<1>5. Cardinality(bloom \cup {v}) <= Cardinality(bloom \cup S)
  BY <1>4, FS_Subset
<1>6. Cardinality(bloom \cup S) \in Nat
  BY <1>4, FS_CardinalityType
<1>7. QED
  BY <1>2, <1>3, <1>5, <1>6, LimitAssumption

\* Hence no startup changes the filter.
LEMMA RestartKept ==
    ASSUME TypeOK, FrontierInv, Boot \/ BootFails
    PROVE  bloom' = bloom
<1>1. CASE Boot
  BY <1>1, NothingToAdd DEF Boot, Launch
<1>2. CASE BootFails
  <2>1. PICK added \in SUBSET stored : /\ Cardinality(bloom \cup added) = BloomCapacity
                                       /\ bloom' = bloom \cup added
    BY <1>2 DEF BootFails
  <2>2. QED
    BY <2>1, NothingToAdd, LimitAssumption
<1>3. QED
  BY <1>1, <1>2
\* The first startup finds an empty keyspace and an empty MongoDB.
LEMMA FrontierInit == Init => FrontierInv
<1> SUFFICES ASSUME Init PROVE FrontierInv
  OBVIOUS
<1>1. F!Init
  BY DEF Init, Q!Init, F!Init, Q!URL, F!URL
<1>2. F!UrlInv
  BY <1>1, F!UrlInit, UrlAssumption, TimeAssumption, LimitAssumption
     DEF Job, F!Job, URL, F!URL
<1>3. \A w \in Workers : holds[w] = NoJob
  BY DEF Init, Q!Init
<1>4. QED
  BY <1>2, <1>3, FS_EmptySet DEF Init, Q!Init, FrontierInv

\* The time of a seed is not PENDING.
LEMMA PendingNotZero == PendingScore # 0
<1>1. PendingScore \in Nat /\ MaxTime \in Nat /\ ListingMaxTTL \in Nat
  BY TimeAssumption
<1>2. PendingScore > MaxTime + ListingMaxTTL
  BY TimeAssumption
<1>3. QED
  BY <1>1, <1>2

\* Steps that leave the queues, the filter and MongoDB alone and, if they
\* change the schedule, put a listing without a job on it at 0.
LEMMA PromisesKept ==
    ASSUME TypeOK, FrontierInv,
           UNCHANGED <<ready, processing, delayed, dead, attempts, strikes, bloom, acked,
                       stored>>,
           \/ listingNext' = listingNext
           \/ BaseUrl \notin DOMAIN listingNext /\ listingNext' = ZAdd(listingNext, BaseUrl, 0),
           \A w \in Workers : holds'[w] \in {holds[w], NoJob}
    PROVE  FrontierInv'
<1>1. \A u : /\ F!HasJob(u)' <=> F!HasJob(u)
             /\ F!VideoKnown(u)' <=> F!VideoKnown(u)
  BY DEF F!HasJob, F!VideoKnown, F!Live
<1>2. \A u \in Listings : F!Pending(u)' <=> F!Pending(u)
  <2>1. PendingScore # 0
    BY PendingNotZero
  <2>2. QED
    BY <2>1 DEF F!Pending, ZAdd
<1>3. F!OneJobPerUrl' /\ F!UnclaimedWhenFull' /\ F!VideosDieForever' /\ F!ClaimAccounted'
  BY <1>1 DEF FrontierInv, F!UrlInv, F!OneJobPerUrl, F!Live, F!UnclaimedWhenFull, F!BloomFull,
     F!VideosDieForever, F!ClaimAccounted
<1>4. F!PendingIffLive' /\ F!FailureAccounting'
  BY <1>1, <1>2 DEF FrontierInv, F!UrlInv, F!PendingIffLive, F!FailureAccounting
<1>5. F!QuarantineScheduled'
  BY DEF FrontierInv, F!UrlInv, F!QuarantineScheduled, ZAdd
<1>6. QED
  BY <1>1, <1>3, <1>4, <1>5 DEF FrontierInv, F!UrlInv

\* Every step of the process keeps the promises.
LEMMA FrontierNext ==
    ASSUME TypeInv, TypeInv', Q!MemberInv, FrontierInv, [Next]_vars
    PROVE  FrontierInv'
<1> USE DEF TypeInv
<1>1. CASE Boot
  BY <1>1, RestartKept, PromisesKept DEF Boot, Launch
<1>2. CASE Crash
  BY <1>2, PromisesKept DEF Crash
<1>3. CASE BootFails \/ Shutdown \/ UNCHANGED vars
  <2>1. /\ UNCHANGED <<ready, processing, delayed, dead, attempts, strikes, acked, stored,
                       listingNext, holds>>
        /\ BootFails \/ bloom' = bloom
    BY <1>3 DEF BootFails, Shutdown, vars, frontier, outside
  <2>2. QED
    BY <2>1, RestartKept, PromisesKept
<1>4. CASE Ticks
  BY <1>4, TickIsCall, CallKept DEF TypeOK, outside
<1>5. ASSUME NEW w \in Workers, Work(w)
      PROVE  FrontierInv'
  <2>1. Q!Next \/ UNCHANGED frontier
    BY <1>5, WorkIsCall DEF TypeOK
  <2>2. \/ stored' = stored
        \/ pc[w] = "store" /\ stored' = stored \cup {holds[w].url}
    BY <1>5 DEF Work, Exit, Lease, LeaseUnanswered, Pace, Served, Refused, Interrupted,
       Store, StoreFails, AdmitChild, AdmitFails, AdmitRepeated, AdmitDone, Finish, Nack,
       NackStop, NackFatal, Terminal, Fail, Resolve, outside
  <2>3. pc[w] = "store" => holds[w] # NoJob /\ holds[w].url \in Videos
    BY DEF TypeOK, StoresVideos
  <2>4. QED
    BY <2>1, <2>2, <2>3, CallKept DEF TypeOK
<1>6. QED
  BY <1>1, <1>2, <1>3, <1>4, <1>5, CrawlerTicks DEF Next

\* All that the frontier promises, together.
LEMMA PromisesCorrect == Spec => [](TypeInv /\ Q!MemberInv /\ FrontierInv)
BY TypeInit, TypeNext, FrontierInit, FrontierNext, PTL DEF Spec

\* Over crashes, lost calls and restarts: no job in two hands, no second job for
\* a scheduled or claimed url, no listing stuck at PENDING, no claim without a job or a past.
THEOREM FrontierSoundCorrect == Spec => []FrontierSound
<1>1. Q!MemberInv /\ FrontierInv => FrontierSound
  BY SamePromises DEF FrontierInv
<1>2. QED
  BY <1>1, PromisesCorrect, PTL

\* While Redis keeps its memory, the reconciliation at startup adds nothing.
THEOREM RestartCorrect == Spec => RestartAddsNothing
<1>1. TypeInv /\ Q!MemberInv /\ FrontierInv /\ [Next]_vars
         => [Boot \/ BootFails => bloom' = bloom]_vars
  BY RestartKept DEF TypeInv
<1>2. QED
  BY <1>1, PromisesCorrect, PTL DEF Spec, RestartAddsNothing
=============================================================================
