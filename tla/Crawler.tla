------------------------------ MODULE Crawler -------------------------------
(***************************************************************************)
(* The crawler process on top of the frontier: workers that lease a job,   *)
(* fetch its page, store the video, admit the links and resolve the job,   *)
(* the reconcilers of internal/scheduler, SIGTERM, crashes and restarts.   *)
(* Every call is a step of its own, so calls of different workers and      *)
(* reconcilers interleave as they do in Redis and MongoDB.                 *)
(*                                                                         *)
(* The web is the constant Links: the canonical links of a page, in order. *)
(* What goes wrong (an error answer of a server, a lost call, SIGTERM, a   *)
(* crash) is a fault, and MaxFaults bounds how often.                      *)
(***************************************************************************)
EXTENDS FrontierConfig

CONSTANTS Links, MaxFaults

ASSUME WebAssumption ==
    /\ Links \in [URL -> Seq(URL)]
    /\ MaxFaults \in Nat

VARIABLES
    now, seq, ready, processing, lease, delayed, dead, attempts, strikes,
    listingNext, barren, bloom, holds, acked,   \* as in Frontier
    pc,         \* where each worker is in its loop
    links,      \* what is left of the links each worker is admitting
    fresh,      \* enqueueChildren's newCount is not 0
    stored,     \* _id of the documents in MongoDB
    cancelled,  \* the root context
    faults,     \* faults so far
    leaked,     \* history: a lease was left behind by a lost call or a crash
    visited,    \* history: urls whose job was Acked or Completed
    fruitful,   \* history: listings that led to a New admission since Completed
    misjudged   \* history: videos a false positive of the filter suppressed

Q == INSTANCE Frontier

frontier == <<now, seq, ready, processing, lease, delayed, dead, attempts,
              strikes, listingNext, barren, bloom, holds, acked>>
work == <<pc, links, fresh>>
outside == <<stored, cancelled, faults, leaked>>
history == <<visited, fruitful, misjudged>>
vars == <<frontier, work, outside, history>>

Steps == {"stopped", "idle", "limit", "fetch", "store", "admit", "finish",
          "nack", "nackStop", "nackFatal", "terminal", "rateLimited", "strike"}

Up == \E w \in Workers : pc[w] # "stopped"
Running == Up /\ ~cancelled

Goto(w, step) == pc' = [pc EXCEPT ![w] = step]
Fault == faults < MaxFaults /\ faults' = faults + 1

-----------------------------------------------------------------------------
Init ==
    /\ Q!Init
    /\ pc = [w \in Workers |-> "stopped"]
    /\ links = [w \in Workers |-> << >>]
    /\ fresh = [w \in Workers |-> FALSE]
    /\ stored = {} /\ cancelled = FALSE /\ faults = 0 /\ leaked = FALSE
    /\ visited = {} /\ fruitful = {} /\ misjudged = {}

\* Mutant of Launch: SeedListing without its NX.
LaunchReseeds(known) ==
    /\ ~Up
    /\ Cardinality(bloom \cup known) <= BloomCapacity
    /\ bloom' = bloom \cup known
    /\ listingNext' = ZAdd(listingNext, BaseUrl, 0)
    /\ pc' = [w \in Workers |-> "idle"]
    /\ cancelled' = FALSE
    /\ UNCHANGED <<now, seq, ready, processing, lease, delayed, dead, attempts,
                   strikes, barren, holds, acked, links, fresh, stored, faults,
                   leaked, history>>

\* The filter takes in the urls of known, the base url is scheduled if it never
\* was, and the goroutines start.
Launch(known) ==
    /\ ~Up
    /\ Cardinality(bloom \cup known) <= BloomCapacity
    /\ bloom' = bloom \cup known
    /\ listingNext' = IF BaseUrl \in DOMAIN listingNext THEN listingNext
                      ELSE ZAdd(listingNext, BaseUrl, 0)
    /\ pc' = [w \in Workers |-> "idle"]
    /\ cancelled' = FALSE
    /\ UNCHANGED <<now, seq, ready, processing, lease, delayed, dead, attempts,
                   strikes, barren, holds, acked, links, fresh, stored, faults,
                   leaked, history>>

\* Startup reconciles the filter with all of MongoDB.
Boot == Launch(stored)

\* The reconciliation fills the filter and its next BF.ADD fails: log.Fatal.
BootFails ==
    /\ ~Up
    /\ Cardinality(bloom \cup stored) > BloomCapacity
    /\ \E added \in SUBSET stored :
          /\ Cardinality(bloom \cup added) = BloomCapacity
          /\ bloom' = bloom \cup added
    /\ UNCHANGED <<now, seq, ready, processing, lease, delayed, dead, attempts,
                   strikes, listingNext, barren, holds, acked, work, outside,
                   history>>

\* SIGTERM, SIGINT or the bloom monitor.
Shutdown ==
    /\ Running
    /\ Fault
    /\ cancelled' = TRUE
    /\ UNCHANGED <<frontier, work, stored, leaked, history>>

Crash ==
    /\ Up
    /\ Fault
    /\ pc' = [w \in Workers |-> "stopped"]
    /\ holds' = [w \in Workers |-> NoJob]
    /\ leaked' = TRUE
    /\ UNCHANGED <<now, seq, ready, processing, lease, delayed, dead, attempts,
                   strikes, listingNext, barren, bloom, acked, links, fresh,
                   stored, cancelled, history>>

Tick == Q!Tick /\ UNCHANGED <<work, outside, history>>

\* A call in flight when the context is cancelled still reaches Redis.
Reconcile(tick) == Up /\ tick /\ UNCHANGED <<work, outside, history>>

Reap == Reconcile(\E t \in Q!Reading : Q!Reap(t))
Promote == Reconcile(\E t \in Q!Reading : Q!Promote(t))
RunListingScheduler == Reconcile(\E t \in Q!Reading : Q!RunListingScheduler(t))
Sweep == Reconcile(Q!Sweep)

-----------------------------------------------------------------------------
(* The worker loop.  An idle worker has found its context alive and is     *)
(* about to call Lease; the context may be cancelled before Redis runs it. *)

Loop == IF cancelled THEN "stopped" ELSE "idle"

\* The call failed or found nothing, and the next test ends the loop.
Exit(w) ==
    /\ pc[w] = "idle"
    /\ cancelled
    /\ Goto(w, "stopped")
    /\ UNCHANGED <<frontier, links, fresh, outside, history>>

Lease(w) ==
    /\ pc[w] = "idle"
    /\ \E t \in Q!Reading : Q!Lease(w, t)
    /\ Goto(w, "limit")
    /\ UNCHANGED <<links, fresh, outside, history>>

\* The answer of Lease is lost: the worker never learns of the job it leased.
LeaseUnanswered(w) ==
    /\ pc[w] = "limit"
    /\ Fault
    /\ Q!Drop(w)
    /\ Goto(w, Loop)
    /\ leaked' = TRUE
    /\ UNCHANGED <<links, fresh, stored, cancelled, history>>

\* Mutant of Pace: a worker cancelled while it waits returns with its job.
PaceReturns(w) ==
    /\ pc[w] = "limit"
    /\ Goto(w, IF cancelled THEN "stopped" ELSE "fetch")
    /\ UNCHANGED <<frontier, links, fresh, outside, history>>

\* limiter.Wait
Pace(w) ==
    /\ pc[w] = "limit"
    /\ Goto(w, IF cancelled THEN "nackStop" ELSE "fetch")
    /\ UNCHANGED <<frontier, links, fresh, outside, history>>

\* Mutant of Served: every page is stored.
ServedStored(w) ==
    /\ pc[w] = "fetch"
    /\ Goto(w, "store")
    /\ links' = [links EXCEPT ![w] = Links[holds[w].url]]
    /\ fresh' = [fresh EXCEPT ![w] = FALSE]
    /\ UNCHANGED <<frontier, outside, history>>

Served(w) ==
    /\ pc[w] = "fetch"
    /\ Goto(w, IF holds[w].url \in Videos THEN "store" ELSE "admit")
    /\ links' = [links EXCEPT ![w] = Links[holds[w].url]]
    /\ fresh' = [fresh EXCEPT ![w] = FALSE]
    /\ UNCHANGED <<frontier, outside, history>>

\* 404 or 410; 429 or its page; any other answer, no answer or a broken body.
Refused(w) ==
    /\ pc[w] = "fetch"
    /\ Fault
    /\ \E step \in {"terminal", "rateLimited", "strike"} : Goto(w, step)
    /\ UNCHANGED <<frontier, links, fresh, stored, cancelled, leaked, history>>

\* A cancelled request is Nacked, a cancelled body read is pageUnknown.
Interrupted(w) ==
    /\ pc[w] = "fetch"
    /\ cancelled
    /\ \E step \in {"nack", "strike"} : Goto(w, step)
    /\ UNCHANGED <<frontier, links, fresh, outside, history>>

Store(w) ==
    /\ pc[w] = "store"
    /\ stored' = stored \cup {holds[w].url}
    /\ Goto(w, "admit")
    /\ UNCHANGED <<frontier, links, fresh, cancelled, faults, leaked, history>>

\* Mutant of StoreFails: the error is logged and the loop goes on.
StoreFailsIgnored(w) ==
    /\ pc[w] = "store"
    /\ Fault \/ (cancelled /\ UNCHANGED faults)
    /\ stored' \in {stored, stored \cup {holds[w].url}}
    /\ Goto(w, "admit")
    /\ UNCHANGED <<frontier, links, fresh, cancelled, leaked, history>>

\* Upsert returns an error: before or after MongoDB applied it.
StoreFails(w) ==
    /\ pc[w] = "store"
    /\ Fault \/ (cancelled /\ UNCHANGED faults)
    /\ stored' \in {stored, stored \cup {holds[w].url}}
    /\ Goto(w, "nack")
    /\ UNCHANGED <<frontier, links, fresh, cancelled, leaked, history>>

\* The call of AdmitVideo or AdmitListing for the next link.
AdmitCall(u) ==
    \E t \in Q!Reading :
        \/ Q!Blocked(u, t) /\ UNCHANGED frontier
        \/ u \in Videos /\ Q!AdmitVideo(u, t)
        \/ u \in Listings /\ Q!AdmitListing(u, t)

\* It answers New; BF.ADD failed after the push.
AnswersNew(u) ==
    /\ ready' # ready
    /\ IF u \in Videos THEN bloom' # bloom ELSE u \notin DOMAIN listingNext
AnswersFull(u) == u \in Videos /\ ready' # ready /\ bloom' = bloom

\* BF.ADD answers 0 for a video that is not in the filter.
FalsePositive(u) == u \in Videos \ bloom /\ seq' # seq /\ ready' = ready

\* history only
Credit(w, u) ==
    /\ misjudged' = IF FalsePositive(u) THEN misjudged \cup {u} ELSE misjudged
    /\ fruitful' = IF AnswersNew(u) /\ holds[w].url \in Listings
                   THEN fruitful \cup {holds[w].url} ELSE fruitful
    /\ UNCHANGED visited

AdmitChild(w) ==
    LET u == Head(links[w])
    IN  /\ pc[w] = "admit"
        /\ links[w] # << >>
        /\ AdmitCall(u)
        /\ IF AnswersFull(u)
           THEN Goto(w, "nackFatal") /\ UNCHANGED <<links, fresh>>
           ELSE /\ links' = [links EXCEPT ![w] = Tail(@)]
                /\ fresh' = [fresh EXCEPT ![w] = @ \/ AnswersNew(u)]
                /\ UNCHANGED pc
        /\ Credit(w, u)
        /\ UNCHANGED outside

\* Mutant of AdmitFails: the loop skips the link.
AdmitFailsSkips(w) ==
    /\ pc[w] = "admit"
    /\ links[w] # << >>
    /\ Fault \/ (cancelled /\ UNCHANGED faults)
    /\ links' = [links EXCEPT ![w] = Tail(@)]
    /\ UNCHANGED <<frontier, history, pc, fresh, stored, cancelled, leaked>>

\* The call or its answer is lost, or the server answers with an error.
AdmitFails(w) ==
    /\ pc[w] = "admit"
    /\ links[w] # << >>
    /\ \/ /\ Fault \/ (cancelled /\ UNCHANGED faults)
          /\ Goto(w, "nack")
          /\ \/ UNCHANGED <<frontier, history>>
             \/ AdmitCall(Head(links[w])) /\ Credit(w, Head(links[w]))
       \/ Fault /\ Goto(w, "nackFatal") /\ UNCHANGED <<frontier, history>>
    /\ UNCHANGED <<links, fresh, stored, cancelled, leaked>>

\* The answer is lost and the client of Redis repeats the call: the worker sees
\* only the second answer, which AdmitChild or AdmitFails gives.
AdmitRepeated(w) ==
    /\ pc[w] = "admit"
    /\ links[w] # << >>
    /\ Fault
    /\ AdmitCall(Head(links[w]))
    /\ Credit(w, Head(links[w]))
    /\ UNCHANGED <<work, stored, cancelled, leaked>>

AdmitDone(w) ==
    /\ pc[w] = "admit"
    /\ links[w] = << >>
    /\ Goto(w, "finish")
    /\ UNCHANGED <<frontier, links, fresh, outside, history>>

\* resolve: one call under a context of its own.  It succeeds, or the lease is
\* gone (ErrStaleLease), or it never reaches Redis; the worker goes on anyway.
Resolve(w, at, op, next) ==
    /\ pc[w] = at
    /\ Goto(w, next)
    /\ UNCHANGED <<links, fresh, stored>>
    /\ \/ op /\ UNCHANGED <<faults, leaked>>
       \/ ~Q!Owns(w) /\ Q!Drop(w) /\ UNCHANGED <<faults, leaked, history>>
       \/ Fault /\ Q!Drop(w) /\ leaked' = TRUE /\ UNCHANGED history

Finish(w) ==
    LET u == holds[w].url
    IN  /\ Resolve(w, "finish",
                   /\ Q!Ack(w) \/ \E t \in Q!Reading : Q!CompleteListing(w, fresh[w], t)
                   /\ visited' = visited \cup {u}
                   /\ fruitful' = fruitful \ {u}
                   /\ UNCHANGED misjudged,
                   Loop)
        /\ UNCHANGED cancelled

NackJob(w) == Q!Nack(w) /\ UNCHANGED history

Nack(w) == Resolve(w, "nack", NackJob(w), Loop) /\ UNCHANGED cancelled
NackStop(w) == Resolve(w, "nackStop", NackJob(w), "stopped") /\ UNCHANGED cancelled
NackFatal(w) == Resolve(w, "nackFatal", NackJob(w), "stopped") /\ cancelled' = TRUE

Terminal(w) ==
    /\ Resolve(w, "terminal",
               (\E t \in Q!Reading : Q!Terminal(w, t)) /\ UNCHANGED history, Loop)
    /\ UNCHANGED cancelled

Fail(w, at, class) ==
    /\ Resolve(w, at,
               (\E t \in Q!Reading : Q!Fail(w, class, t)) /\ UNCHANGED history, Loop)
    /\ UNCHANGED cancelled

Work(w) ==
    \/ Exit(w) \/ Lease(w) \/ LeaseUnanswered(w) \/ Pace(w)
    \/ Served(w) \/ Refused(w) \/ Interrupted(w)
    \/ Store(w) \/ StoreFails(w)
    \/ AdmitChild(w) \/ AdmitFails(w) \/ AdmitRepeated(w) \/ AdmitDone(w)
    \/ Finish(w) \/ Nack(w) \/ NackStop(w) \/ NackFatal(w) \/ Terminal(w)
    \/ Fail(w, "rateLimited", "RateLimited") \/ Fail(w, "strike", "Strikeable")

Next ==
    \/ Boot \/ BootFails \/ Shutdown \/ Crash \/ Tick
    \/ Reap \/ Promote \/ RunListingScheduler \/ Sweep
    \/ \E w \in Workers : Work(w)

Spec == Init /\ [][Next]_vars

\* Goroutines are scheduled, time passes, and the supervisor of the process
\* (a Deployment) starts it again.
Fairness ==
    /\ WF_vars(Boot) /\ WF_vars(Tick)
    /\ WF_vars(Running /\ Reap)
    /\ WF_vars(Running /\ Promote)
    /\ WF_vars(Running /\ RunListingScheduler)
    /\ \A w \in Workers : WF_vars(Work(w))

FairSpec == Spec /\ Fairness

-----------------------------------------------------------------------------
(* Properties.                                                             *)

TypeOK ==
    /\ Q!TypeOK
    /\ pc \in [Workers -> Steps]
    /\ links \in [Workers -> Seq(URL)]
    /\ fresh \in [Workers -> BOOLEAN]
    /\ stored \subseteq Videos
    /\ cancelled \in BOOLEAN /\ leaked \in BOOLEAN
    /\ faults \in 0..MaxFaults
    /\ visited \subseteq URL /\ fruitful \subseteq Listings /\ misjudged \subseteq Videos
    /\ \A w \in Workers : pc[w] \in {"stopped", "idle"} <=> holds[w] = NoJob

\* A video leaves the frontier for good only when MongoDB has it: no order of
\* Upsert errors, expired leases, retries and crashes Acks an unstored video.
AckedStored == acked \subseteq stored

\* The child contract of enqueueChildren: the job of a page is not done before
\* every link on it is claimed, scheduled or dead.  Otherwise a link whose
\* admission failed would be lost with the page.  (A false positive of the
\* filter loses a video by design: BloomVerify bounds how probable that is.)
ChildContract ==
    \A u \in visited : \A l \in Range(Links[u]) :
        l \in bloom \cup DOMAIN listingNext \cup DOMAIN dead \cup misjudged

\* worker.go:25, a cancelled root context "must never prevent a leased job from
\* being released": when the process has stopped and no call was lost, no
\* member is left behind to wait for its lease to expire.
CleanStop == ~Up /\ ~leaked => processing = {} /\ lease = << >>

\* A startup writes the filter and the schedule, and a crash empties hands, past
\* the scripts of the frontier.  What the scripts promise outlives both: no job
\* is in two hands or leasable while in one, no url has two jobs, no listing is
\* PENDING and no video claimed with nothing to come.
FrontierSound ==
    Q!LeaseAtMostOnce /\ Q!OneJobPerUrl /\ Q!PendingIffLive /\ Q!ClaimAccounted

\* redis.go:130 asks that the filter never be rebuilt from MongoDB without need,
\* main.go:112 does so at every startup.  While Redis keeps its memory that is
\* harmless: whatever was stored, lost or retried, there is nothing to add.
RestartAddsNothing == [][Boot \/ BootFails => bloom' = bloom]_vars

\* Whatever goes wrong, as long as it goes wrong finitely often, every video
\* reachable from the base url ends up stored or dead.  Only a delay, a
\* quarantine or an abandoned lease that outlives the modelled time excuses.
Reached[n \in Nat] ==
    IF n = 0 THEN {BaseUrl}
    ELSE Reached[n - 1] \cup UNION {Range(Links[u]) : u \in Reached[n - 1]}
Reachable == Reached[Cardinality(URL)]

OutOfTime ==
    \/ \E j \in DOMAIN delayed : delayed[j] > MaxTime
    \/ \E j \in DOMAIN lease :
          lease[j] > MaxTime /\ \A w \in Workers : holds[w] # j
    \/ \E u \in Listings \cap DOMAIN dead : dead[u] > MaxTime

AllHarvested ==
    <>(OutOfTime \/ \A v \in Reachable \cap Videos : v \in stored \cup DOMAIN dead \cup misjudged)

\* frontier.go:27 calls crawler:listing:barren the count of consecutive visits
\* without a New child.  A visit that found one and then failed is repeated by
\* a job that finds all children admitted, and is counted barren.
BarrenIsBarren == [][\A u \in Listings : barren'[u] > barren[u] => u \notin fruitful]_vars
=============================================================================
