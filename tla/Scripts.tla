------------------------------ MODULE Scripts -------------------------------
(***************************************************************************)
(* The Lua scripts of internal/storage/frontier.go command by command, on  *)
(* real lists.  Redis runs a script without interleaving but never rolls   *)
(* it back: a command that fails leaves the writes before it in place.  A  *)
(* script is the sequence of its writes, in source order; a call performs  *)
(* all of them or, at most MaxAborts times, only a proper prefix.          *)
(*                                                                         *)
(* Without aborts the module implements Frontier.  With them it checks the *)
(* rule of frontier.go:180, destination before source, and what the        *)
(* sweeper is for.                                                         *)
(***************************************************************************)
EXTENDS FrontierConfig, SequencesExt

CONSTANT MaxAborts      \* bound on the scripts cut short
ASSUME AbortAssumption == MaxAborts \in Nat

VARIABLES now, holds, acked,   \* as in Frontier
          db,                  \* the crawler:* keyspace
          aborts               \* scripts cut short so far

vars == <<now, holds, acked, db, aborts>>

-----------------------------------------------------------------------------
(* Write commands and their effect on the keyspace.                        *)

Incr == [op |-> "INCR"]
LPush(list, j) == [op |-> "LPUSH", key |-> list, item |-> j]
LRem(list, j) == [op |-> "LREM", key |-> list, item |-> j]
LMove == [op |-> "LMOVE"]
Put(key, e, v) == [op |-> "PUT", key |-> key, item |-> e, val |-> v]  \* ZADD, HSET
Del(key, e) == [op |-> "DEL", key |-> key, item |-> e]                \* ZREM, HDEL
BfAdd(u) == [op |-> "BF.ADD", item |-> u]

Execute(d, c) ==
    CASE c.op = "INCR" -> [d EXCEPT !.seq = @ + 1]
      [] c.op = "LPUSH" -> [d EXCEPT ![c.key] = <<c.item>> \o @]
      [] c.op = "LREM" -> [d EXCEPT ![c.key] = RemoveFirst(@, c.item)]
      [] c.op = "LMOVE" -> [d EXCEPT !.ready = Front(@),
                                     !.processing = <<Last(d.ready)>> \o @]
      [] c.op = "PUT" -> [d EXCEPT ![c.key] = ZAdd(@, c.item, c.val)]
      [] c.op = "DEL" -> [d EXCEPT ![c.key] = ZRem(@, {c.item})]
      [] c.op = "BF.ADD" -> [d EXCEPT !.bloom = @ \cup {c.item}]

Run(script, k) == FoldLeft(Execute, db, SubSeq(script, 1, k))

Transaction(script) ==
    \/ /\ db' = Run(script, Len(script))
       /\ UNCHANGED aborts
    \/ /\ aborts < MaxAborts
       /\ aborts' = aborts + 1
       /\ \E k \in 1..Len(script) - 1 : db' = Run(script, k)

-----------------------------------------------------------------------------
(* The writes of each script, given what it reads.                         *)

Reading == {t \in 1..now : now - t <= MaxLag}
Blocked(u, t) == u \in DOMAIN db.dead /\ (db.dead[u] = 0 \/ db.dead[u] > t)
Field(hash, u) == IF u \in DOMAIN hash THEN hash[u] ELSE 0
NewJob(i, u) == [id |-> db.seq + i, url |-> u]
Push(i, u) == <<Incr, LPush("ready", NewJob(i, u))>>
Unbury(u) == IF u \in DOMAIN db.dead THEN <<Del("dead", u)>> ELSE << >>
Forget(u) == <<Del("attempts", u), Del("strikes", u)>>

LeaseScript(t) == <<LMove, Put("lease", Last(db.ready), t + LeaseTimeout)>>

\* BF.ADD answers 0, adds, or fails on a full filter and ends the script.
AdmitVideoScript(u, present) ==
    Unbury(u) \o Push(1, u) \o
    IF present THEN <<LRem("ready", NewJob(1, u))>>
    ELSE IF Cardinality(db.bloom) < BloomCapacity THEN <<BfAdd(u)>> ELSE << >>

\* Mutant of AdmitListingScript: PENDING is written before the job it stands for.
AdmitListingScriptPendingFirst(u, t) ==
    Unbury(u) \o
    IF u \in DOMAIN db.next => db.next[u] <= t
    THEN <<Put("next", u, PendingScore)>> \o Push(1, u) ELSE << >>

AdmitListingScript(u, t) ==
    Unbury(u) \o
    IF u \in DOMAIN db.next => db.next[u] <= t
    THEN Push(1, u) \o <<Put("next", u, PendingScore)>> ELSE << >>

AckScript(j) == <<Del("lease", j), LRem("processing", j)>> \o Forget(j.url)

\* Mutants of NackScript: source before destination; the member keeps its id.
NackScriptSourceFirst(j) ==
    <<Del("lease", j), LRem("processing", j)>> \o Push(1, j.url)
NackScriptSameId(j) ==
    <<Del("lease", j), LPush("ready", j), LRem("processing", j)>>

NackScript(j) ==
    <<Del("lease", j)>> \o Push(1, j.url) \o <<LRem("processing", j)>>

CompleteListingScript(j, fresh, t) ==
    LET n == IF fresh THEN 0 ELSE Field(db.barren, j.url) + 1
    IN  <<Del("lease", j), Put("barren", j.url, n),
          Put("next", j.url, t + RevisitTTL(j.url, n)), Del("dead", j.url),
          LRem("processing", j)>> \o Forget(j.url)

BuryScript(j, until) ==
    (IF until > 0 THEN <<Put("next", j.url, until)>> ELSE << >>) \o
    <<Put("dead", j.url, until), LRem("processing", j)>> \o Forget(j.url)

TerminalScript(j, t) ==
    <<Del("lease", j)>> \o BuryScript(j, QuarantineUntil(j.url, t))

FailScript(j, class, t) ==
    LET u == j.url
        n == Field(db.attempts, u) + 1
        strike == class = "Strikeable"
        struck == Field(db.strikes, u) + (IF strike THEN 1 ELSE 0)
    IN  <<Del("lease", j), Put("attempts", u, n)>> \o
        (IF strike THEN <<Put("strikes", u, struck)>> ELSE << >>) \o
        IF strike /\ struck >= MaxStrikes
        THEN BuryScript(j, QuarantineUntil(u, t))
        ELSE <<Incr, Put("delayed", NewJob(1, u), t + Backoff(class, n)),
               LRem("processing", j)>>

PromoteScript(b) ==
    FlattenSeq([i \in DOMAIN b |-> Push(i, b[i].url) \o <<Del("delayed", b[i])>>])

ReapScript(b) ==
    FlattenSeq([i \in DOMAIN b |->
        <<Del("lease", b[i])>> \o Push(i, b[i].url) \o <<LRem("processing", b[i])>>])

OrphanRank(b, i) == Cardinality({k \in 1..i : b[k] \notin DOMAIN db.lease})

\* Mutants of SweepScript: no LREM; the member keeps its id.
SweepScriptKeepsOrphan(b) ==
    FlattenSeq([i \in DOMAIN b |->
        IF b[i] \in DOMAIN db.lease THEN << >> ELSE Push(OrphanRank(b, i), b[i].url)])
SweepScriptSameId(b) ==
    FlattenSeq([i \in DOMAIN b |->
        IF b[i] \in DOMAIN db.lease THEN << >>
        ELSE <<LPush("ready", b[i]), LRem("processing", b[i])>>])

SweepScript(b) ==
    FlattenSeq([i \in DOMAIN b |->
        IF b[i] \in DOMAIN db.lease THEN << >>
        ELSE Push(OrphanRank(b, i), b[i].url) \o <<LRem("processing", b[i])>>])

SchedulerScript(b, t) ==
    LET Rank(i) == Cardinality({k \in 1..i : ~Blocked(b[k], t)})
        One(i, u) ==
            IF ~Blocked(u, t)
            THEN Unbury(u) \o Push(Rank(i), u) \o <<Put("next", u, PendingScore)>>
            ELSE IF db.dead[u] = 0 THEN <<Del("next", u)>>
            ELSE <<Put("next", u, db.dead[u])>>
    IN  FlattenSeq([i \in DOMAIN b |-> One(i, b[i])])

-----------------------------------------------------------------------------
Init ==
    /\ now = 1
    /\ holds = [w \in Workers |-> NoJob]
    /\ acked = {}
    /\ aborts = 0
    /\ db = [seq |-> 0, ready |-> << >>, processing |-> << >>, lease |-> << >>,
             delayed |-> << >>, dead |-> << >>, attempts |-> << >>,
             strikes |-> << >>, next |-> << >>, barren |-> << >>, bloom |-> {}]

Tick ==
    /\ now < MaxTime
    /\ now' = now + 1
    /\ UNCHANGED <<holds, acked, db, aborts>>

Call(script) == Transaction(script) /\ UNCHANGED <<now, holds, acked>>

AdmitVideo(u, t) ==
    /\ db.seq < MaxSeq
    /\ ~Blocked(u, t)
    /\ \/ db.bloom # {} /\ Call(AdmitVideoScript(u, TRUE))
       \/ u \notin db.bloom /\ Call(AdmitVideoScript(u, FALSE))

AdmitListing(u, t) == ~Blocked(u, t) /\ Call(AdmitListingScript(u, t))

SeedListing ==
    BaseUrl \notin DOMAIN db.next /\ Call(<<Put("next", BaseUrl, 0)>>)

\* An error answer hands the worker nothing.
Lease(w, t) ==
    /\ holds[w] = NoJob
    /\ db.ready # << >>
    /\ Transaction(LeaseScript(t))
    /\ holds' = IF aborts' = aborts THEN [holds EXCEPT ![w] = Last(db.ready)] ELSE holds
    /\ UNCHANGED <<now, acked>>

LeaseNothing(w) == holds[w] = NoJob /\ db.ready = << >> /\ UNCHANGED vars

\* Success, error or STALE: whatever is answered the worker moves on.
Resolve(w, script) ==
    /\ holds[w] \in DOMAIN db.lease
    /\ Transaction(script)
    /\ holds' = [holds EXCEPT ![w] = NoJob]
    /\ UNCHANGED now

Ack(w) ==
    /\ Resolve(w, AckScript(holds[w]))
    /\ holds[w].url \in Videos
    /\ acked' = acked \cup {holds[w].url}

Nack(w) ==
    db.seq < MaxSeq /\ Resolve(w, NackScript(holds[w])) /\ UNCHANGED acked

Terminal(w, t) == Resolve(w, TerminalScript(holds[w], t)) /\ UNCHANGED acked

Fail(w, class, t) == Resolve(w, FailScript(holds[w], class, t)) /\ UNCHANGED acked

CompleteListing(w, fresh, t) ==
    /\ Resolve(w, CompleteListingScript(holds[w], fresh, t))
    /\ holds[w].url \in Listings
    /\ UNCHANGED acked

Drop(w) ==
    /\ holds[w] # NoJob
    /\ holds' = [holds EXCEPT ![w] = NoJob]
    /\ UNCHANGED <<now, acked, db, aborts>>

Reap(t) ==
    \E n \in 1..ReapBatchLimit : \E b \in Page(db.lease, t, ReapBatchLimit, n) :
        Call(ReapScript(b))

Promote(t) ==
    \E n \in 1..PromoteBatchLimit :
    \E b \in Page(db.delayed, t, PromoteBatchLimit, n) : Call(PromoteScript(b))

RunListingScheduler(t) ==
    \E n \in 1..SchedulerBatchLimit :
    \E b \in Page(db.next, t, SchedulerBatchLimit, n) : Call(SchedulerScript(b, t))

\* Mutant of SweepWindow: LRANGE processing -limit -2.
SweepWindowShort ==
    LET n == Len(db.processing)
    IN  SubSeq(db.processing, IF n > SweepBatchLimit THEN n - SweepBatchLimit + 1 ELSE 1, n - 1)

\* LRANGE processing -limit -1: the tail, where the oldest members are.
SweepWindow ==
    LET n == Len(db.processing)
    IN  SubSeq(db.processing, IF n > SweepBatchLimit THEN n - SweepBatchLimit + 1 ELSE 1, n)

Sweep == Call(SweepScript(SweepWindow))

Work(w) ==
    \/ LeaseNothing(w) \/ Ack(w) \/ Nack(w) \/ Drop(w)
    \/ \E t \in Reading :
          \/ Lease(w, t) \/ Terminal(w, t)
          \/ \E class \in FailClass : Fail(w, class, t)
          \/ \E fresh \in BOOLEAN : CompleteListing(w, fresh, t)

Next ==
    \/ Tick \/ SeedListing \/ Sweep
    \/ \E u \in Videos, t \in Reading : AdmitVideo(u, t)
    \/ \E u \in Listings, t \in Reading : AdmitListing(u, t)
    \/ \E w \in Workers : Work(w)
    \/ \E t \in Reading : Reap(t) \/ Promote(t) \/ RunListingScheduler(t)

Spec == Init /\ [][Next]_vars

-----------------------------------------------------------------------------
(* Properties.                                                             *)

\* Until a script is cut short every call is the atomic step of Frontier it stands
\* for: the lists are its sets, an absent counter is its 0.
F == INSTANCE Frontier WITH
        seq <- db.seq, ready <- ToSet(db.ready), processing <- ToSet(db.processing),
        lease <- db.lease, delayed <- db.delayed, dead <- db.dead,
        attempts <- [u \in URL |-> Field(db.attempts, u)],
        strikes <- [u \in URL |-> Field(db.strikes, u)],
        barren <- [u \in URL |-> Field(db.barren, u)],
        listingNext <- db.next, bloom <- db.bloom

ImplementsFrontier ==
    F!Init /\ [][aborts' = 0 => F!Next \/ UNCHANGED F!vars]_vars

\* frontier.go:180, "destination is always written before source is removed,
\* so failure means duplicate, not loss": whatever script is cut short
\* anywhere, a url that has a job, an outcome or a place on the schedule keeps
\* one of these, and a video has one when it is claimed in the Bloom filter.
Known(u) ==
    \/ F!HasJob(u)
    \/ u \in acked
    \/ u \in Videos /\ u \in DOMAIN db.dead
    \/ u \in Listings /\ u \in DOMAIN db.next

NothingLost ==
    [][\A u \in URL : Known(u) \/ u \in db.bloom' => Known(u)']_vars

\* A cut-short script never leaves a listing PENDING without a job: nothing
\* but a job's resolution would ever take it off PENDING again.
NoStuckListing == \A u \in Listings : F!Pending(u) => F!HasJob(u)

\* The other half of the rule, how much duplicate: each aborted script costs
\* at most one extra job of a claimed or scheduled url.
JobsOf(u) == Cardinality({j \in F!Live : j.url = u})
BoundedDuplicates ==
    \A u \in Listings \cup db.bloom : JobsOf(u) <= 1 + aborts

\* Aborts leave a url with several jobs, each under an id of its own: a member in
\* a worker's hands is never one that could be leased to a second worker.
FencedDespiteAborts == F!LeaseAtMostOnce

Fairness ==
    /\ WF_vars(Tick)
    /\ WF_vars(Sweep)
    /\ WF_vars(\E t \in Reading : Reap(t))

FairSpec == Spec /\ Fairness

\* The sweeper recovers every member left in processing without a lease, also
\* from behind leased ones that fill its window: those resolve or expire.
\* Only a lease that outlives the modelled time can be in the way.
Stranded == ToSet(db.processing) \ DOMAIN db.lease
OrphanSwept ==
    Stranded # {} ~>
        (Stranded = {} \/ \E k \in DOMAIN db.lease : db.lease[k] > MaxTime)
=============================================================================
