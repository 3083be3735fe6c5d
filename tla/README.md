# TLA+ verification of lost-media-finder

lost-media-finder (Go module `gfap`) is a crawler for one video site. Worker
goroutines lease urls from a job queue kept in Redis (the *frontier*), fetch the
page, store a video in MongoDB, put the page's links on the frontier and resolve
the job. Every state change of the frontier is one Lua script. Periodic
reconcilers return expired leases, delayed retries, due listings and stranded
members to the queue. All that makes the crawler correct under crashes, lost
calls and retries lives in these scripts and in the order workers call them, so
they are what is modelled first.

Paths below are relative to `src/`.

## 1. Inventory

### Components

| Component | State | Operations | Correct when | Module |
|---|---|---|---|---|
| Frontier (`internal/storage/frontier.go`) | `ready`, `processing` lists; `lease`, `delayed`, `listing:next` zsets; `dead`, `attempts`, `strikes`, `listing:barren` hashes; `job:seq`; `bloom` | AdmitVideo, AdmitListing, SeedListing, Lease, Ack, Nack, Fail, Terminal, CompleteListing, Reap, Sweep, Promote, RunListingScheduler, Stats, Idle | a member is leased at most once; a url has at most one live job; no url is lost or stuck; nothing runs early; whatever waits comes back | `Frontier`, `Scripts`, `UrlLifecycle`; Idle in `TestRun` |
| Worker pool (`internal/crawler/worker.go`) | a leased job and how far its handling is | worker, workerTest, process, handleOutcome, enqueueChildren, resolve | Ack only after the video is stored; a page is done only after all its links are on the frontier; a stop leaves no lease behind | `Crawler`, `TestRun` |
| Reconcilers (`internal/scheduler/scheduler.go`) | tickers | scheduler, promoter, reaper, sweeper; bloom monitor, heartbeat, snapshotter | with them, work that waits comes back; a broken filter halts the crawl | `Frontier`, `Scripts`, `Crawler`, `Recovery` |
| Startup, shutdown (`cmd/crawler/main.go`, `internal/crawler/crawler.go`) | root context | filter reconciliation, seeding, signal handling | a restart goes on where the last process stopped | `Crawler`, `Recovery`, partly |
| Bloom filter (`internal/storage/redis.go`) | the filter and its shape | BloomInit, BloomVerify, BloomAddBatch, BloomReset | stored videos are claimed; the shape never degrades unnoticed | `Frontier`, `Crawler`, `Recovery` |
| MongoDB corpus (`internal/storage/mongo.go`) | documents keyed by url | Upsert, EachVideoURL, Count, FindTargets, Drop | holds every video Acked | the set `stored` of `Crawler` |
| Redis persistence | RDB snapshots | BGSAVE every six hours, restore | a restored frontier re-derives itself | `Recovery` |
| Test mode (`RunTest`, `workerTest`) | video count | Idle probe | stops when the frontier is really idle, and does stop | `TestRun` |
| Canonicalization (`canonicalize`, `extractLinks`) | none | pure | one page, one url | `Canonical`, `CrawlerPages` |
| Target matching (`internal/model/video.go`) | none | pure | | not modelled |
| Configuration, login and HTTP client, metrics, manifests, `test/multi-login.go` | none that the crawl reads back | I/O | | not modelled |

### How they interact

Workers and reconcilers share nothing in memory but the root context and the
statistics counters; they meet in Redis. One script runs at a time, so scripts
are atomic towards each other, but Redis does not roll back a script that fails
half-way. Every script that depends on time gets a clock reading taken by the
client *before* the call. `handleOutcome` is a sequence of calls (Upsert, one
admission per link, one resolution); anything may happen between two of them: the
lease may expire and the url may be leased by another worker, the context may be
cancelled, the process may die. The resolution itself runs under a context of
its own, so that a cancelled root context does not stop it. Cancellation comes
from SIGTERM or SIGINT, `POST /stop`, the bloom monitor, or a worker that got a
server-side admission error. The process stops when all goroutines returned and
is started again by the Deployment.

### What is hard to test here

The list is under `hazards` in `PROJECT.json`, each at its line: late answers of
workers whose lease was reaped, a listing admitted from a page while it has a job
or comes due, sequences of failure, quarantine and revisit that put three
structures out of step, counters keyed by url that outlive jobs, lagging clocks,
scripts cut short, writes to two databases, partial admission, SIGTERM at any
await, a full Bloom filter, a Redis that restarts from an old snapshot or from
nothing under a running crawler, a filter deleted at the wrong moment, an Idle whose
readings race with the jobs they count, one page reached under several spellings.

## 2. Modules

| Module | What it is |
|---|---|
| `FrontierConfig` | Parameters and their assumptions, zset operators, page selection, backoff, TTL and quarantine arithmetic |
| `Frontier` | The frontier with one atomic action per Lua script |
| `UrlLifecycle` | Abstract specification: what the frontier promises about a url |
| `FrontierLifecycle` | The refinement mapping from `Frontier` to `UrlLifecycle` |
| `Scripts` | The same scripts command by command on real lists, cut short after any write; refines `Frontier` when none is |
| `Crawler` | The process: worker loop, reconcilers, faults, restarts, over an instance of `Frontier` |
| `Canonical` | From an href to the url that is admitted, with the pages of the site as reference |
| `CrawlerPages` | `Crawler` whose urls are the keys `Canonical` makes of hrefs |
| `Recovery` | `Crawler` on a Redis that dies and comes back with its last dump; the life of the filter |
| `TestRun` | `Crawler` driven by `RunTest`: the count, `workerTest`, the readings of Idle |
| `FrontierProofs`, `FrontierSafety` | Theorems about `Frontier`: types; invariants and action properties |
| `LifecycleProofs` | Theorem: `Frontier` implements `UrlLifecycle` |
| `ScriptsProofs` | Theorems about `Scripts`: what holds although any script may be cut short |
| `CrawlerProofs` | Theorems about `Crawler`: types, a clean stop leaves nothing leased, Upsert before Ack, the child contract, what the frontier promises over crashes and restarts |
| `TestRunProofs` | Theorems about `TestRun`: types, overshoot, clean stop, Idle |
| `RecoveryProofs` | Theorems about `Recovery`: types, stored videos are claimed after a startup |
| `PagesProofs` | Theorems about `Canonical` and `CrawlerPages`: one page, one url |
| `MCFrontier`, `MCScripts`, `MCCrawler`, `MCCrawlerPages`, `MCRecovery`, `MCTestRun` | Values and symmetry sets for TLC |

### Frontier

Each variable is a Redis key (the comments at the declarations name it), plus
`now` (the wall clock), `holds` (the `*Job` in each worker's hands) and `acked`
(history). Each action is a whole script with the Go method around it, e.g.
`Fail(w, class, t)` is `redisFrontier.Fail` with `luaFail`, its two outcomes the
disjuncts `FailDead` and `FailDelayed`. `t` is the clock reading the client passed:
any from `now - MaxLag` to `now`. Conventions:

* A member `"<jobID>|<url>"` is a record `[id, url]`. The two lists are sets:
  every LPUSH carries an id INCRed in the same script, so the tail of `ready` is the
  member with the smallest id, and the tail of `processing` is taken as the oldest
  id, since jobs are leased in id order. `Scripts` has real lists and is checked to
  implement this.
* Counter hashes are total functions; an absent field is 0 (HDEL resets it).
* `bloom` is the set of urls whose `BF.ADD` answered 1. A false positive
  (`VideoSuppressed` for a url outside the set) is possible once anything was added.
* A full NONSCALING filter makes `BF.ADD` fail *after* the LPUSH: `VideoUnclaimed`.
* `"reason|until"` on the dead hash is `until`; the reason is never read again.
* A reconciler that finds nothing is not a step, except the sweeper, which finds
  something only after a script was cut short (`Scripts`) and is checked here to
  find nothing.
* `Drop` stands for everything that ends a worker's interest in a job without a
  resolution: a STALE answer, a lost call, a dead process.

### UrlLifecycle

The abstract specification has two variables: the stage of each url (unknown, queued,
leased, waiting, scheduled, done, dead) and the worker a leased url belongs to. There
are no ids, queues, scores or clocks. Its actions say who may move a url: a worker
takes a queued url and only the owner resolves it; a lease can expire, which takes the
owner away; the owner can vanish (`Abandon`); promotion and revisits go through the
queue; a video that is done or dead never moves again. `FrontierLifecycle` reads stage
and owner off the keyspace: a worker owns a url if its resolution would pass the
fencing test. The refinement holds while the filter has room for all videos: on a full
filter a video can have two jobs, and no single stage.

### Scripts

A script is the sequence of its write commands in source order, computed from what
it reads. `Transaction` performs the sequence, or a proper prefix when the script is
cut short. The refinement mapping is the instance `F` at the end: lists to sets,
absent counters to 0.

### Crawler

`pc[w]` is a worker's place in `worker` / `process` / `handleOutcome`; every network
call is a step. The web is the constant `Links`. A fault is an error answer of the
site (`Refused`), a lost call or answer (`LeaseUnanswered`, `StoreFails`,
`AdmitFails`, the third branch of `Resolve`), SIGTERM or another stop (`Shutdown`)
or a crash of the process (`Crash`). What the program itself decides is no fault: a
cancelled wait is Nacked (`Pace`), a cancelled request is Nacked and a cancelled body
read is a strike (`Interrupted`), a full filter stops the crawl (`NackFatal`) and the
reconciliation of the next start (`BootFails`). Calls in flight when the context is
cancelled may still reach Redis (`Lease` and the reconcilers do not test
`cancelled`).

The client of Redis repeats a call whose answer was lost (`redis.go:27`):
`AdmitRepeated` is the first of two executions, of which the worker sees the second
answer. A repeated Lease leaves the first job leased to nobody, as `LeaseUnanswered`
does; a repeated resolution answers STALE, which is `Resolve`'s second branch.

Startup and crash touch the frontier without being scripts: `Launch` writes the filter
and the schedule, `Crash` empties all hands. `FrontierSound` and `RestartAddsNothing`
are about these: the promises of `Frontier` survive them, and the reconciliation with
MongoDB at every startup (`main.go:112`), which the comment at `redis.go:130` warns of,
has nothing to add as long as Redis keeps its memory.

`visited`, `fruitful`, `misjudged` and `leaked` are history variables the properties
need; no guard reads them.

### Canonical and CrawlerPages

A string is a sequence of the pieces the code looks for: the host, `/watch?v=`, `/`,
`?`, `&`, `#`, and names between them. `extractLink` is the completion of root-relative
links in `extractLinks`, `canonicalize` the function of that name, step by step in its
order. The reference is a set of pages (home, a path, a path with a query, a video) and
the ways a link to each may be written: absolute or root-relative, with trailing
slashes, parameters after the id, fragments that may contain `/watch?v=` or `&`.
`Elsewhere` are links that lead off the site or nowhere. Among them are `PrefixHosts`, whose
host begins with the base url and goes on: `HasPrefix` accepts these and only these
(`Strays = PrefixHosts`), although the comment at `crawler.go:96` asks for the same host. `Unmerged` are links of the site the code
leaves as they come: with several parameters, whose order then counts (`/watch?t=1&v=a` is
of this form and taken for a listing), and a video link without an id (`/watch?v=&x`).

`CrawlerPages` runs the crawler on hrefs: `Found` is what stands on a page, any set of all
these, and `Links` the keys of it. `OneUrlPerPage` asks of every url the crawl ever knows
that it stands for one page, that all spellings of the page lead to it, and that it is
admitted as what it is; the keys of `PrefixHosts` and `Unmerged` (`Unpaged`) are excepted by
name. Upper-case spellings and escapes are not in `Hrefs`; `canonicalize` does not look at
them, so they are further names of a page.

### Recovery

`docker-compose.yml` runs Redis without append-only file or save points, so a crash of
Redis loses everything since the last dump. `Snapshot` is `BGSAVE` (six-hourly or `make
snapshot`); `Outage` puts the dump, or nothing, in place of the keyspace while the
crawler keeps running with the jobs in its hands and MongoDB keeps its documents. The
key `crawler:bloom` has a shape: a `BF.ADD` on a missing key creates a default one.
The model joins two deployments: the memory loss is that of the Redis of
`docker-compose.yml`, the restart of the process that of the Deployment in `k8s/`, whose
Redis runs with `--appendonly yes` and would lose far less. Beside the Redis
of `docker-compose.yml` the process is started by `make resume` or `make restart`, so the
liveness of `recovery` assumes an operator who does that.
`Start` is BloomInit, BloomVerify, the reconciliation and SeedListing in one step;
`BloomMonitor` is `runBloomMonitor`; `BloomReset` is `make reset-bloom`, timely when
BloomVerify has refused the filter, otherwise a fault.

What the runs led us to see: a filter created by an accidental `BF.ADD` makes every
later startup fail until the operator deletes it (`RefusedForGood`, excused by name).
The comment at `internal/storage/redis.go:130` asks to reconcile only when BloomInit
created the filter; `main.go` reconciles at every startup, and it is `main.go` that is
right: with the comment's rule (the mutant `StartMissingOnly`) a restored, stale filter
lets stored videos be fetched again. `StoredClaimed` says nothing once the operator has
reset the filter. Under a running crawler an outage also brings back members that are in
hands, and ids are minted a second time; that a member is leased at most once
(`frontier.go:30`) is not promised over an outage, and nothing is checked of it there: it
takes a second worker, which `recovery` does not have. What is checked is that nothing
listings link to is lost by it for good.

### TestRun

`RunTest` as a process of its own beside workers and reconcilers: the count, the loop,
and an Idle that is three readings, between any two of which other calls may run. The
readings follow the way of a job, ready before processing before delayed, so a job that is
leased or fails on its way past them is seen; `IdleMissesOnlyRequeued` states this. A job
pushed to `ready` behind the first reading is missed: a promoted or reaped one, a Nacked
one, or the child of a page that is Acked before the second reading, and `false_idle` shows
a run that ends this way (finding 4). `requeued` and `idled` record what happened during
the Idle under way. The
worker loop is that of `Crawler`, except for the test that ends it and the count.

## 3. Runs

| Run | Question | Result |
|---|---|---|
| `frontier` | Do two workers and all reconcilers, in any order, duplicate, lose, hand out twice or start early a job? Is every script a step in the life of a url? | holds |
| `lagging_batches` | The same with batches of two, two listings and clients whose clocks lag; and does abandoned, delayed and due work always come back, also when more is due than a page of the scheduler holds? | holds |
| `full_filter` | Is admission idempotent, as `worker.go:124` says? | violated |
| `scripts` | Do the scripts, command by command on lists, implement the atomic frontier until one is cut short? One cut short anywhere: is anything lost, any listing stuck, more than one job duplicated, a leased member leasable again? | holds |
| `sweeper` | Does a stranded member come back, also from behind a full sweep window? | holds |
| `crawler` | Is an Acked video always stored, a finished page's every link on the frontier, nothing left leased after a clean stop, and every url the only one of its page? Do the promises of the frontier outlive crashes and startups, and can a startup ever change the filter? | holds |
| `crawler_live` | Two faults anywhere: is the reachable video stored or dead in the end? | holds |
| `barren_miscount` | Does `listing:barren` count visits without new children, as `frontier.go:27` says? | violated |
| `recovery` | Redis falls back to its dump, or the filter is deleted, at any moment: is a stored video claimed again at startup, is a broken filter noticed, and is what listings link to found again? | holds |
| `lost_links` | Does the frontier re-derive itself after an outage, as `scheduler.go:48` says, also where only stored videos link to a video? | violated |
| `test_mode` | Does a test run end by itself, which jobs can its Idle miss, does it hand its jobs back, and by how much does it overshoot? | holds |
| `false_idle` | Does a test run without faults stop on an idle frontier only, as `crawler.go:146` says? | violated |

### Bounds

Time and ids are unbounded in the code. `MaxTime` bounds the clock, and the scaled
timeouts (lease 2, ladders <<1,2>> and <<2>>, TTL 2 or 3 capped at 3, quarantine 2) keep
the order of the real ones while leaving room for a lease to expire, a job to be
retried and to strike out, and a listing to be visited, buried and visited again
within 3 to 5 seconds; `crawler_live`, `recovery`, `lost_links` and `test_mode` scale them
further down (lease 1) and end after 2 seconds, room for one expiry and one retry.
`MaxSeq` bounds the ids minted by AdmitVideo and Nack, the two
operations that could be repeated without time passing; the others mint ids without a
bound. `MaxStrikes` 2 makes the first strike and the fatal one differ. Two workers
are the fewest that can hold the same url one after the other; workers and videos are
interchangeable, so safety runs use symmetry. Batches of one force pages to be
repeated, batches of two make positions in a page differ. In `lagging_batches`
promoter and reaper take pages of two, the scheduler takes pages of one of two listings
that may come due together. `MaxLag` 1 lets a call
act on a reading one second older than what other calls have used already.
`BloomCapacity` 1 with two videos fills the filter; elsewhere it never fills.
`sweeper` needs no second worker: a worker whose lease call is lost (`Drop`) leases a
second job, which a cut-short script strands behind the first. `crawler_live` has one
video, so that two faults and two workers fit; it is linked from the base listing and
links to nothing, as in `recovery`.
`MaxAborts` 1 and `MaxFaults` 1 or 2 bound faults, not where they strike.
`false_idle` is the instance of `test_mode` with no fault, a lease that does not expire and two
videos asked for.
`recovery` and `lost_links` have one worker: the actors whose order matters are Redis,
the operator, the process and its reconcilers, and a worker that outlived an outage
meets the jobs of the next process only through Redis. One snapshot and one outage
place the restored state anywhere; the dump is forgotten when no outage is left, and
none is taken then, because nothing would read it. `lost_links` needs a chain of two
videos. `test_mode` stops after one video of two, so that a second worker can overshoot; the test
video links to the base listing and that to the other video.
The names in `crawler` are two, so that every fragment and parameter can hold the id of
the other video.
`PendingScore` stands for 253402300799 (9999-12-31, `frontier.go:49`) and is only assumed to be later than any time.

`crawler`, `recovery`, `lost_links`, `test_mode` and `false_idle` do not check deadlock: a test run
ends; a process whose startup refuses the filter is down once time, snapshots and
outages are used up; in `crawler`, with a full filter each restart and retry spends ids, and when `MaxSeq` is used up the model, not the crawler, stops. The other runs
check it; when time has run out `LeaseNothing`, `Drop` and the idle sweeper are
still possible.

### Fairness

`Frontier` and `Scripts`: time passes and the reaper, promoter, scheduler and (in
`Scripts`) sweeper keep ticking (`everyTick` calls them for as long as the context
lives, also after an error). Nothing is assumed of workers: they may never resolve
anything. `Crawler`: goroutines are scheduled, calls end (the HTTP client and
Redis have timeouts), time passes, reconcilers tick while the context lives, and
the process is started again (`Boot`), which is what the Deployment with one replica
does. Liveness is stated up to the modelled time: what is due after `MaxTime` is
excused by name (`OutOfTime` and the bounds in the other formulas), as is a false
positive of the filter, which loses a video by design.

`Recovery` adds that the bloom monitor ticks, and assumes no operator: neither snapshots
nor a reset of the filter ever have to come. Its `RevisitOutOfTime` excuses a listing
whose next visit lies after `MaxTime`. `TestRun` assumes goroutines, time, reaper and
promoter; neither the deadline, so that the run is shown to end without it, nor the
scheduler, because Idle does not count what it waits for.

## 4. Findings

1. **Admission is not idempotent on a full filter** (`full_filter`).
   `luaAdmitVideo` pushes the job, then `BF.ADD` fails; the job stays, unclaimed.
   Every Nack and retry of the parent admits again and pushes one more. The comment at
   `internal/crawler/worker.go:124` relies on idempotence.
   `maybeFatalAdmission` stops this process, but not the jobs already queued.
2. **A productive visit can be counted barren** (`barren_miscount`). The count of new
   children lives in one attempt. When an attempt admits a child and then fails, the
   repetition sees only Suppressed links, and `CompleteListing` increments
   `listing:barren` and doubles the revisit interval, against the comment at
   `internal/storage/frontier.go:27`. TLC's trace is the shorter way to the same state: the
   client repeats an admission whose answer was lost (`redis.go:27`) and is told Suppressed.

3. **An outage of Redis can lose videos for good** (`lost_links`). The startup claims
   every stored video, so its page is not fetched again; a video that only such a page
   links to, and whose own job was lost, is never admitted again. The comment at
   `internal/scheduler/scheduler.go:48-50` says the gap between snapshots costs
   "duplicate work, not lost data". `recovery` shows the part of the claim that holds:
   what is linked from listings is found again.
4. **A test run can stop on a frontier that is not idle** (`false_idle`). `Stats` is a
   pipeline, which Redis may interleave with other calls. A worker that admits a link and
   Acks its page between the first two readings leaves all three at 0 although a job was
   queued all the time, and `RunTest` acts on one answer. The comment at
   `internal/crawler/crawler.go:146-147` says "an idle frontier".

Seen while reading, without a run: `make fresh` (`Makefile:52`, `README.md:132`)
announces that it drops the corpus and flushes Redis, but `-fresh` only seeds;
`Crawler.Clear` has no caller. `model/video.go:25` documents `IsTarget` without
`HasNonEnglishChar`, which `Match` accepts in place of `HasCJKChar`. Seeds are compared
with canonical urls as they are written, so that a listing seed with a trailing slash is
not of `ClassSeed`. A `SCHEDULER_BATCH_LIMIT` of 0 or less makes the drain loop of the
scheduler endless; `LimitAssumption` excludes it, the configuration does not.
`RunTest` runs under `context.Background()` (`crawler.go:153`), so SIGTERM, which cancels
the context of `main`, does not reach a test run; no step of `TestRun` models it.
`README.md:71` of the repository says the filter persists through "Redis AOF + RDB
snapshots"; `docker-compose.yml:19` turns both the append-only file and the automatic
save points off, and `Recovery` models that: only the dumps asked for by the
six-hourly ticker or `make snapshot`.
`canonicalize` tests the host by the prefix of a base url without a slash at its end
(`internal/config/config.go:77`), so that a link to a host whose name continues it is
admitted as a listing of the site, against the comment at `internal/crawler/crawler.go:96`;
a video link of it becomes the video of that id on the site. `StraysSkipped` proves that no
other link off the site gets a url.

## 5. Proofs

For every value of the constants that satisfies `UrlAssumption`, `TimeAssumption`
and `LimitAssumption`:

* `TypeCorrect` (`FrontierProofs`): `Spec => []TypeOK`.
* `FencingCorrect`, `ProcessingCorrect` (`FrontierSafety`): a member is leased at most
  once; `processing` and `lease` always list the same members.
* `OneJobCorrect`, `PendingCorrect`, `ClaimCorrect`, `QuarantineCorrect`,
  `FailureCorrect`: the url-level invariants of run `frontier`.
* `InvariantCorrect`: the inductive invariant all of them follow from.
* `LeaseEndsCorrect`, `NeverEarlyCorrect` (`FrontierSafety`): the action properties of
  run `frontier`, also with lagging clocks.
* `LifecycleCorrect` (`LifecycleProofs`): `RoomForAll => (Spec => ImplementsLifecycle)`,
  the refinement of `UrlLifecycle`; `RoomForAll` says that the videos are finitely many
  and fit the filter.
* `NoneStuck`, `DuplicatesBounded`, `FencedCorrect`, `NothingLostCorrect` (`ScriptsProofs`):
  the safety properties of run `scripts`, for any number of aborts, any batch sizes and any
  lists: no listing is stuck PENDING, an aborted script costs one more job at most, a member
  in hands cannot be leased again, no url is forgotten.
* `AckedStoredCorrect` (`CrawlerProofs`): `Spec => []AckedStored` of `Crawler`, from no
  assumption but the shape of the program.
* `CrawlerTypeCorrect`, `CleanStopCorrect` (`CrawlerProofs`): the types of the composed
  system; a stop without a lost call leaves nothing leased.
* `ChildContractCorrect`, `FrontierSoundCorrect`, `RestartCorrect` (`CrawlerProofs`): no
  page is done with a link unaccounted for; fencing, one job per url, PENDING with its job
  and claims with their jobs over crashes and restarts; no startup changes the filter.
  These hold for any web: `WebAssumption` only gives `Links` its type.
* `TestCleanStopCorrect`, `OvershootCorrect`, `IdleCorrect` (`TestRunProofs`): a test run
  hands its jobs back, overshoots by less than the number of workers, and its Idle misses
  only jobs pushed to `ready` while it asks. `TestAssumption` asks that the workers be finitely many.
* `RecoveryTypeCorrect`, `StoredClaimedCorrect` (`RecoveryProofs`): the types over
  outages; from a startup to the next outage every stored video is claimed.
  `OutageAssumption` asks that the videos be finitely many and fit the filter: the other
  case is a startup that fails, `BootFails` of `Crawler`.
* `OneKeyPerPage`, `StraysSkipped`, `OneUrlCorrect` (`PagesProofs`): all spellings of a
  page have one key; of the links elsewhere exactly the prefix hosts have one; and every
  url the crawl ever knows is the one url of one page, or the key of a link of `Unpaged`,
  for any set of names and any web of hrefs. `NamesAssumption` says that a name contains
  none of the marks the code looks for; `PagesAssumption` that pages carry links of `Hrefs`,
  that `Links` are their keys, that the base url is the host, and that a url is admitted as
  a video exactly if `IsVideo` holds of it, which is how `admitURL` and `classify` use it.
  What the urls are is not assumed: that nothing enters the crawl but by a link is proved.

The invariant of `Frontier` is `IInv == TypeOK /\ MemberInv /\ UrlInv`.

`MemberInv` speaks of members only. `LeaseAtMostOnce` is not inductive: that a member in
a worker's hands is not queued again needs `IdsMinted` (no live or held id is above
`job:seq`, so a fresh id differs from all of them) and `QueuesDisjoint`. One lemma,
`MemberStep`, covers every script except Lease: it takes members out, mints fresh ones
into one queue, and empties hands.

`UrlInv` speaks of urls. `OneJobPerUrl` needs `PendingIffLive` (the scheduler and
AdmitListing push only when the listing is not PENDING, hence has no job) and, for
videos, that an unclaimed video with a job exists only on a full filter
(`UnclaimedWhenFull`; otherwise claiming it would make its second job a duplicate of a
claimed one). `ClaimAccounted` needs `VideosDieForever`, so that a dead video is
Blocked at every time. `QuarantineScheduled` and `PendingIffLive` need
`TimeAssumption`'s `PendingScore` beyond every reachable due time.

The action properties use `IInv` one script at a time. `LeasesEndByOwner` needs that a
page of the lease set holds due members only (`PageMembers`) and that Release removes
one member, the worker's own. For listings `NeverEarly` goes through the PENDING mark:
in two successive states that satisfy `PendingIffLive`, a listing gets a job exactly
when it becomes PENDING, and only the scheduler and AdmitListing write that mark, each
after comparing the due time (`PendingStep`; all other scripts write a time below
`PendingScore`, `TimeRoom`).

The refinement rests on three lemmas: with room in the filter a url has one live job
(`OneJob`), so its stage is the queue of that job (`JobStage`); a script that moves no
job of a url leaves its stage (`SameStage`); and the member of a worker that passes the
fencing test is the only job of its url and that worker the only owner (`OwnedJob`).
`ResolveLife` then covers Ack, Nack, Fail, Terminal and CompleteListing; the reaper,
promoter and scheduler move a set of urls each. Without `RoomForAll` the theorem is
false, which is finding 1.

**Scripts cut short.** The four theorems follow from one invariant, `IInv` of
`ScriptsProofs`: the keyspace is in `Sound(acked, {})`. `Sound(done, extra)` is the set of
keyspaces that may lie *between* two commands of a script that started at `db`: every id
in use was minted, no member is in two places, a PENDING listing has a job, every url known
at `db` or claimed is still known, and a url has at most one job more than it may have for
each earlier abort, plus one if it is in `extra`, the urls whose copy is made and whose
original is not yet removed. Because an abort raises `aborts` by one, a prefix only has to
end in `Sound(done, URL)`, the complete script in `Sound(done, {})`. That every
push carries a fresh id is what makes `QueuesApart` inductive: a script that pushed the
member under its old id and is then cut short (the mutants `NackScriptSameId` and
`SweepScriptSameId`) would leave it in two places, one of which may be a worker's hands.

The scripts are treated as programs of a Hoare logic. `Safe(P, script, R, Q)` says that
from a keyspace of `P` the script ends in `R` and is in `Q` after every command. One lemma
per Redis command says what it does to `Sound` (`DoPush`, `DoMove`, `DoRemove`,
`DoSchedule`, ...); `OneCommand`, `Sequel` and `Weaken` compose them along the text of each
script; `Batch` does so for the loop of a reconciler over its page, with the set of members
still to come as the loop invariant. `Lands` brings a `Safe` script back to the step of
`Transaction`, complete or cut short. The order of the commands is the content of these
proofs: LREM of a member needs `Spare`, another job of its url or its outcome, which only
an earlier LPUSH, ZADD or HSET of the same script can have established.

The sequences are folds of the community modules. What they compute is proved by induction
stated of *sets* of numbers (`Least`, `Induct`, from `NatLessThanWellFounded` and
`WFMin`), which needs no theorem with an operator parameter: `IsFold` and `IsFlat` are the
equations of the function that the `CHOOSE` of the fold picks, and the set of n for which
such a function exists is all of `Nat` (`FoldExists`, `FlatExists`). `Batch` is an
induction of the same kind.

`AckedStored` needs `PastStored`: a worker past Upsert with a video in its hands has it
stored. Nobody but the worker changes its hands, so the invariant is kept by every step
of everybody else; the proof needs no types, and nothing of the frontier but what it does
to `holds` and `acked`.

**Composition.** `Crawler` has the frontier as an instance `Q` of `Frontier`;
`CrawlerProofs` takes the theorems from a second instance, `F == INSTANCE FrontierSafety`,
and shows once that a step of the one is a step of the other (`SameStep`) and that every
step of a worker or reconciler is at most one such call (`WorkIsCall`, `TickIsCall`). What
is left are the steps that are none: startup, crash, and those beside the frontier
(`Aside`).

`CleanStop` needs `LeasesHeld`: unless a call was lost, every leased member is in
somebody's hands. With `TypeOK` (hands are empty exactly in the states `stopped` and
`idle`) and `ProcessingLeased` nothing is leased once everybody stopped.

`ChildContract` needs `ContractInv`: at every place of the loop the links of the page
that are not yet covered are among those still to admit. A covered link stays covered
because the frontier forgets no url (`FrontierRemembers`), which needs
`VideosDieForever`; and an admission covers its link unless the full filter stopped the
crawl (`AdmitCovers`).

`FrontierSound` and `RestartAddsNothing` need `FrontierInv`: beside `UrlInv`, the frontier
knows every video MongoDB has and every video in a worker's hands (`VideoKnown`: it has a
job, was Acked or is dead), and the two sets are finite. What it knows it never
forgets (`KnownNext` of `FrontierSafety`). So a stored video that is not in the filter means, by
`UnclaimedWhenFull`, that the filter is full, and then the reconciliation either has
nothing to add or fails before it adds anything (`NothingToAdd`). Startup keeps
`PendingIffLive` because it schedules the base url only if it is not on the schedule.

`Overshoot` needs `AheadBound`: the count plus the number of workers that may still add to
it without another test stays below the limit plus all workers. `IdleMissesOnlyRequeued`
needs `IdleInv`: every live job whose url was not requeued during this Idle is outside
the queues already read, because a job moves only towards a later queue, or back to
`ready` with its url recorded; when the last queue is found empty no such job is left.

`StoredClaimed` needs `ClaimsInv`, which also speaks of the dump: unless the operator
deleted the filter, the jobs of a keyspace, live or dumped, are claimed in its filter; and
from a startup to the next outage so are the videos in hands and in MongoDB.

**Pages.** `canonicalize` is a composition of searches, so the proof describes each search
on a string that is already cut at the right place: `BeforeSplit` and `AfterSplit` say
what is found around the first occurrence of a piece, given that the part before it is
free of that piece; `TrimSplit` what `TrimSlashes` leaves. Each spelling is then written
as such a concatenation (`VideoCanonical`, `ListingCanonical`). This is where the order of
the steps matters: the fragment, which may hold `/watch?v=` or `&`, is removed first, so
that the other searches see a string whose parts are known to be free of them. A
root-relative link is completed to the absolute one (`RootedKey`). `OneUrlCorrect` adds
that different pages have different urls (`PageUrlApart`) and an induction over the crawl,
`OnlyLinked`: every job, claim, schedule or dead entry, document and held job is of a url some
page links to, or the base url. One lemma per script says which urls it can bring in
(`AdmitLinked`, `ResolutionLinked`, `TickLinked`, ...): only an admission brings in a new
one, and a worker admits only what it found on its page (`WorkerLinked`). `LinkNamesPage`
then reads off the href what the url stands for.

`MaxTime` and `MaxSeq` are constants of the specification the theorems are about,
arbitrary ones: the theorems hold for every bound. `TimeAssumption` asks that
`PendingScore` exceed `MaxTime` by the longest TTL and quarantine, which is what the year
9999 is for.

Model-checked only: that `Scripts` implements `Frontier` when nothing is cut short (it
relates the order of the lists to the order of the ids, which the theorems above do not
need); all liveness (`AllHarvested`, `BrokenFilterHalts`,
`ListedRecovered`, `TestEnds` and those of `Frontier` and `Scripts`), which is out of the
prover's reach.

## 6. Not modelled, and why

* Target matching (`Match`): pure, and nothing in the crawl reads its result.
* `Stats` for the metrics and the heartbeat: they change nothing; the readings RunTest
  acts on are in `TestRun`.
* `Resume`, `SaveTest`, the list of targets, the counter in production: statistics, never
  read by the crawl.
* `-fresh` seeding: `Seed` is a sequence of admissions, each an action of `Frontier`
  that may happen at any time there; in `Crawler` only `SeedListing` is at startup.
  `Clear` is dead code.
* An outage in the middle of a startup: `Start` of `Recovery` is one step.
* The false-positive rate of the filter: a probability. That there are false positives is
  modelled, and what they suppress excused (`misjudged`).
* Login, HTTP client, cookies, proxies, metrics, config parsing, manifests: I/O whose
  failures are the faults of `Crawler`.

## 7. Plan

Done: all modules of section 2 and the proofs of section 5. What is left, in order:

1. The refinement of `Frontier` by `Scripts` as a theorem: `Sound` with `aborts = 0` and
   the lists ordered by id.
2. A startup in several steps in `Recovery`, with outages between them, and the
   admissions of `Seed`.
3. Two workers in `recovery`, once the instance fits the time of a run.
4. `Match` as an operator against the comment of `video.go:25`.
