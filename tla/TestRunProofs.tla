--------------------------- MODULE TestRunProofs ----------------------------
(***************************************************************************)
(* Safety of the test mode, for every web and every value of the constants:*)
(* how far a run overshoots, what Idle may miss, and what a stopped run    *)
(* leaves leased.                                                      *)
(***************************************************************************)
EXTENDS TestRun, CrawlerProofs, FiniteSetTheorems

-----------------------------------------------------------------------------
(* The steps of a test run are those of the crawler, but for its own loop. *)

\* RunTest outside its calls: the frontier and the workers feel nothing.
Watches == Loops \/ Read \/ ReadFails \/ Deadline \/ \E w \in Workers : Pass(w) \/ LeaseNone(w)

\* These steps at most cancel the context.
LEMMA WatchesAside ==
    ASSUME TypeOK, Watches
    PROVE  Aside /\ UNCHANGED <<frontier, work, leaked>>
<1>1. CASE Loops \/ Read
  BY <1>1 DEF Loops, Read, End, Aside, frontier
<1>2. CASE ReadFails \/ Deadline
  BY <1>2 DEF ReadFails, End, Deadline, Aside, frontier
<1>3. ASSUME NEW w \in Workers, Pass(w) \/ LeaseNone(w)
      PROVE  Aside /\ UNCHANGED <<frontier, work, leaked>>
  BY <1>3 DEF Pass, LeaseNone, Aside, vars, frontier, outside
<1>4. QED
  BY <1>1, <1>2, <1>3 DEF Watches

\* The reconcilers and the clock are those of production.
LEMMA TestTicks ==
    ASSUME TickTest \/ ReapTest \/ PromoteTest \/ ScheduleTest
    PROVE  Ticks
BY DEF TickTest, Tick, ReapTest, PromoteTest, ScheduleTest, Tended, Ticks, Q!Reconcile

\* A worker's own test mode steps are steps of worker, but for the first test.
LEMMA WorkTestIsWork ==
    ASSUME NEW w \in Workers, WorkTest(w)
    PROVE  Watches \/ Leave(w) \/ Work(w)
BY DEF WorkTest, Watches, LeaseTest, Handle, Work

\* Every step, by what it asks of the crawler.
LEMMA TestStep ==
    ASSUME [NextTest]_testVars
    PROVE  \/ Begin \/ Watches \/ Ticks
           \/ \E w \in Workers : Leave(w) \/ Work(w)
           \/ UNCHANGED testVars
BY TestTicks, WorkTestIsWork DEF NextTest, RunTest, Watches

-----------------------------------------------------------------------------
(* Types.                                                                  *)

TestTypeOK ==
    /\ count \in Nat
    /\ cleared \subseteq Workers
    /\ main \in {"start", "loop", "end"}
    /\ reading \in 0..3
    /\ requeued \subseteq URL
    /\ idled \in BOOLEAN
    /\ main # "loop" => reading = 0
    /\ main = "start" => cleared = {} /\ \A w \in Workers : pc[w] = "stopped"
    /\ \A w \in cleared : pc[w] = "idle"

TestTypeInv == TypeInv /\ Q!MemberInv /\ TestTypeOK

\* The run starts empty.
LEMMA TestTypeInit == InitTest => TestTypeInv
<1> SUFFICES ASSUME InitTest PROVE TestTypeInv
  OBVIOUS
<1>1. /\ Init /\ count = 0 /\ cleared = {} /\ main = "start" /\ reading = 0
      /\ requeued = {} /\ idled = FALSE
  BY DEF InitTest
<1>2. pc = [w \in Workers |-> "stopped"]
  BY <1>1 DEF Init
<1>3. TypeInv /\ Q!MemberInv
  BY <1>1, TypeInit
<1>4. idled \in BOOLEAN
  BY <1>1, Zenon
<1>5. TestTypeOK
  BY <1>1, <1>2, <1>4 DEF TestTypeOK
<1>6. QED
  BY <1>3, <1>5 DEF TestTypeInv

\* The admission of the test url starts the workers with empty hands.
LEMMA BeginType ==
    ASSUME TypeInv, Q!MemberInv, Begin, main = "start" => \A w \in Workers : pc[w] = "stopped"
    PROVE  TypeInv' /\ Q!MemberInv'
<1>1. /\ AdmitCall(TestUrl) /\ pc' = [w \in Workers |-> "idle"]
      /\ UNCHANGED <<links, fresh, outside, history>>
      /\ \A w \in Workers : pc[w] = "stopped"
  BY DEF Begin
<1>2. (Q!Admit \/ UNCHANGED frontier) /\ holds' = holds
  BY <1>1, AdmitIsCall, TestAssumption
<1>3. Q!TypeOK' /\ Q!MemberInv'
  BY <1>2, FrontierStep DEF TypeInv, TypeOK, Q!Next
<1>4. \A w \in Workers : holds'[w] = NoJob
  BY <1>1, <1>2 DEF TypeInv, TypeOK
<1>5. TypeOK'
  BY <1>1, <1>3, <1>4 DEF TypeInv, TypeOK, Steps, outside, history
<1>6. QED
  BY <1>1, <1>3, <1>5 DEF TypeInv, StoresVideos

\* A worker that leaves its loop holds nothing.
LEMMA LeaveType ==
    ASSUME TypeInv, Q!MemberInv, NEW w \in Workers, Leave(w)
    PROVE  TypeInv' /\ Q!MemberInv' /\ UNCHANGED <<holds, processing, leaked>>
<1>1. /\ pc[w] = "idle" /\ Goto(w, "stopped")
      /\ UNCHANGED <<frontier, links, fresh, outside, history>>
  BY DEF Leave, Waiting
<1>2. Q!TypeOK' /\ Q!MemberInv' /\ holds' = holds
  BY <1>1, FrontierStep DEF TypeInv, TypeOK, frontier
<1>3. /\ pc' \in [Workers -> Steps]
      /\ \A v \in Workers : pc'[v] \in Idle <=> holds'[v] = NoJob
  BY <1>1, <1>2, HandsType DEF TypeInv, Idle, Steps
<1>4. TypeOK'
  BY <1>1, <1>2, <1>3 DEF TypeInv, TypeOK, Idle, outside, history
<1>5. StoresVideos'
  BY <1>1, <1>2 DEF TypeInv, TypeOK, StoresVideos, Goto
<1>6. QED
  BY <1>1, <1>2, <1>4, <1>5 DEF TypeInv, frontier, outside

\* Every step keeps the types of the crawler.
LEMMA TestCrawlerType ==
    ASSUME TestTypeInv, [NextTest]_testVars
    PROVE  TypeInv' /\ Q!MemberInv'
<1> USE DEF TestTypeInv
<1>1. CASE Begin
  BY <1>1, BeginType DEF TestTypeOK
<1>2. CASE Watches
  BY <1>2, WatchesAside, AsideType DEF TypeInv
<1>3. CASE Ticks
  BY <1>3, TickType, TickIsCall, FrontierStep DEF TypeInv, TypeOK
<1>4. ASSUME NEW w \in Workers, Work(w)
      PROVE  TypeInv' /\ Q!MemberInv'
  BY <1>4, WorkType, WorkStores, WorkIsCall, FrontierStep DEF TypeInv, TypeOK
<1>5. ASSUME NEW w \in Workers, Leave(w)
      PROVE  TypeInv' /\ Q!MemberInv'
  BY <1>5, LeaveType
<1>6. CASE UNCHANGED testVars
  BY <1>6, AsideType, CrawlerAside DEF TypeInv, testVars
<1>7. QED
  BY <1>1, <1>2, <1>3, <1>4, <1>5, <1>6, TestStep

\* A worker that has stopped takes no step of the loop.
LEMMA WorkNotStopped ==
    ASSUME NEW w \in Workers, Work(w)
    PROVE  pc[w] # "stopped"
BY DEF Work, Exit, Lease, LeaseUnanswered, Pace, Served, Refused, Interrupted, Store,
   StoreFails, AdmitChild, AdmitFails, AdmitRepeated, AdmitDone, Finish, Nack,
   NackStop, NackFatal, Terminal, Fail, Resolve

\* What Idle sees of a call has its type.
LEMMA ObserveType ==
    ASSUME TestTypeOK, TypeInv', Observe
    PROVE  requeued' \subseteq URL /\ idled' \in BOOLEAN
<1>1. \A j \in ready' : j.url \in URL
  BY DEF TypeInv, TypeOK, Q!TypeOK, Q!Job, Q!URL, URL
<1>2. requeued' \subseteq requeued \cup {j.url : j \in ready'}
  BY DEF Observe, watched
<1>3. requeued' \subseteq URL
  BY <1>1, <1>2 DEF TestTypeOK
<1>4. idled' = idled \/ idled' = (idled \/ Q!Live' = {})
  BY Zenon DEF Observe, watched
<1>5. idled' \in BOOLEAN
  BY <1>4, Zenon DEF TestTypeOK
<1>6. QED
  BY <1>3, <1>5

\* Every step keeps the types of the run.
LEMMA TestTypeNext ==
    ASSUME TestTypeInv, [NextTest]_testVars
    PROVE  TestTypeInv'
<1> SUFFICES TestTypeOK'
  BY TestCrawlerType DEF TestTypeInv
<1> USE DEF TestTypeInv, TestTypeOK
<1>0. /\ count \in Nat /\ count + 1 \in Nat /\ Workers = Workers
      /\ pc \in [Workers -> Steps]
  BY DEF TypeInv, TypeOK
<1>1. CASE Begin
  BY <1>1 DEF Begin, watched
<1>2. CASE Loops \/ Read \/ ReadFails
  <2>1. /\ pc' = pc /\ main = "loop" /\ UNCHANGED <<count, cleared>>
    BY <1>2 DEF Loops, Read, ReadFails, Probing, work
  <2>2. requeued' \in {requeued, {}} /\ idled' \in BOOLEAN
    <3>1. idled' \in {idled, FALSE} \/ idled' = (Q!Live = {})
      BY <1>2 DEF Loops, Read, ReadFails, End, Answer, watched
    <3>2. requeued' \in {requeued, {}}
      BY <1>2 DEF Loops, Read, ReadFails, End, Answer, watched
    <3>3. QED
      BY <3>1, <3>2, Zenon
  <2>3. main' \in {"loop", "end"} /\ reading' \in 0..3 /\ (main' # "loop" => reading' = 0)
    BY <1>2, <2>1 DEF Loops, Read, ReadFails, End, Answer, Readings
  <2>4. QED
    BY <2>1, <2>2, <2>3
<1>3. CASE Deadline \/ TickTest \/ UNCHANGED testVars
  BY <1>3 DEF Deadline, TickTest, Tick, test, watched, testVars, vars, work
<1>4. CASE ReapTest \/ PromoteTest \/ ScheduleTest
  <2>1. Observe /\ UNCHANGED <<work, count, cleared, main, reading>> /\ main # "start"
    BY <1>4 DEF ReapTest, PromoteTest, ScheduleTest, Tended
  <2>2. requeued' \subseteq URL /\ idled' \in BOOLEAN
    BY <2>1, TestCrawlerType, ObserveType
  <2>3. QED
    BY <2>1, <2>2 DEF work
<1>5. ASSUME NEW w \in Workers, Pass(w) \/ LeaseNone(w)
      PROVE  TestTypeOK'
  BY <1>5 DEF Pass, LeaseNone, Waiting, vars, work, watched
<1>6. ASSUME NEW w \in Workers, Leave(w)
      PROVE  TestTypeOK'
  BY <1>0, <1>6 DEF Leave, Waiting, Goto, test, watched
<1>7. ASSUME NEW w \in Workers, LeaseTest(w) \/ Handle(w)
      PROVE  TestTypeOK'
  <2>1. /\ UNCHANGED <<main, reading>> /\ Observe
        /\ count' \in {count, count + 1} /\ Work(w)
        /\ cleared' \subseteq cleared /\ w \notin cleared'
    BY <1>7 DEF LeaseTest, Handle, Work
  <2>2. \A v \in cleared' : pc'[v] = "idle"
    BY <2>1, WorkLocal DEF TypeInv
  <2>3. main # "start"
    BY <2>1, WorkNotStopped
  <2>4. requeued' \subseteq URL /\ idled' \in BOOLEAN
    BY <2>1, TestCrawlerType, ObserveType
  <2>5. QED
    BY <1>0, <2>1, <2>2, <2>3, <2>4
<1>8. QED
  BY <1>1, <1>2, <1>3, <1>4, <1>5, <1>6, <1>7 DEF NextTest, RunTest, WorkTest

\* Every variable of the run has its type.
THEOREM TestTypeCorrect == SpecTest => []TestTypeInv
BY TestTypeInit, TestTypeNext, PTL DEF SpecTest

-----------------------------------------------------------------------------
(* Overshoot.                                                              *)

\* The workers that may yet store a video without testing the count again.
Ahead == {w \in Workers : w \in cleared \/ pc[w] \in {"limit", "fetch", "store"}}

\* A worker that tests the count and passes had MaxTestVideos - 1 before it.
AheadBound == count + Cardinality(Ahead) <= MaxTestVideos - 1 + Cardinality(Workers)

\* The numbers are numbers.
LEMMA AheadFinite ==
    /\ IsFiniteSet(Ahead) /\ Cardinality(Ahead) \in Nat
    /\ Cardinality(Workers) \in Nat /\ Cardinality(Ahead) <= Cardinality(Workers)
<1>1. Ahead \subseteq Workers
  BY DEF Ahead
<1>2. QED
  BY <1>1, TestAssumption, FS_Subset, FS_CardinalityType

\* Fewer ahead and no more counted.
LEMMA AheadShrinks ==
    ASSUME TestTypeInv, AheadBound, count' = count, Ahead' \subseteq Ahead
    PROVE  AheadBound'
<1>1. /\ Cardinality(Ahead') \in Nat /\ Cardinality(Ahead') <= Cardinality(Ahead)
  BY AheadFinite, FS_Subset, FS_CardinalityType
<1>2. QED
  BY <1>1, AheadFinite, TestAssumption DEF AheadBound, TestTypeInv, TestTypeOK

\* A video is counted by a worker that is ahead, and then no longer is.
LEMMA OvershootNext ==
    ASSUME TestTypeInv, AheadBound, [NextTest]_testVars
    PROVE  AheadBound'
<1> USE DEF TestTypeInv
<1>1. CASE Begin
  <2>1. Ahead' = {} /\ count' = count
    BY <1>1 DEF Begin, Ahead, TestTypeOK
  <2>2. QED
    BY <2>1, AheadShrinks
<1>2. CASE Loops \/ Read \/ ReadFails \/ Deadline \/ TickTest \/ UNCHANGED testVars
  <2>1. UNCHANGED <<pc, count, cleared>>
    BY <1>2 DEF Loops, Read, ReadFails, Deadline, TickTest, Tick, test, testVars, vars, work
  <2>2. QED
    BY <2>1, AheadShrinks DEF Ahead
<1>3. CASE ReapTest \/ PromoteTest \/ ScheduleTest
  <2>1. UNCHANGED <<pc, count, cleared>>
    BY <1>3 DEF ReapTest, PromoteTest, ScheduleTest, Tended, work
  <2>2. QED
    BY <2>1, AheadShrinks DEF Ahead
<1>4. ASSUME NEW w \in Workers, Pass(w)
      PROVE  AheadBound'
  <2>1. count' = count /\ count <= MaxTestVideos - 1
    BY <1>4, TestAssumption DEF Pass, Enough, TestTypeOK
  <2>2. Cardinality(Ahead)' <= Cardinality(Workers) /\ Cardinality(Ahead)' \in Nat
    <3>1. Ahead' \subseteq Workers
      BY DEF Ahead
    <3>2. QED
      BY <3>1, TestAssumption, FS_Subset, FS_CardinalityType
  <2>3. QED
    BY <2>1, <2>2, AheadFinite, TestAssumption DEF AheadBound, TestTypeOK
<1>5. ASSUME NEW w \in Workers, LeaseNone(w)
      PROVE  AheadBound'
  <2>1. count' = count /\ Ahead' \subseteq Ahead
    BY <1>5 DEF LeaseNone, vars, work, Ahead
  <2>2. QED
    BY <2>1, AheadShrinks
<1>6. ASSUME NEW w \in Workers, Leave(w)
      PROVE  AheadBound'
  <2>1. count' = count /\ Ahead' \subseteq Ahead
    BY <1>6 DEF Leave, Goto, test, Ahead, TypeInv, TypeOK
  <2>2. QED
    BY <2>1, AheadShrinks
<1>7. ASSUME NEW w \in Workers, LeaseTest(w)
      PROVE  AheadBound'
  <2>1. count' = count /\ w \in Ahead
    BY <1>7 DEF LeaseTest, Ahead
  <2>2. Ahead' \subseteq Ahead
    <3>1. \A v \in Workers \ {w} : pc'[v] = pc[v]
      BY <1>7, WorkLocal DEF LeaseTest, Work, TypeInv
    <3>2. QED
      BY <1>7, <2>1, <3>1 DEF LeaseTest, Ahead
  <2>3. QED
    BY <2>1, <2>2, AheadShrinks
<1>8. ASSUME NEW w \in Workers, Handle(w)
      PROVE  AheadBound'
  <2>1. /\ \A v \in Workers \ {w} : pc'[v] = pc[v]
        /\ cleared' = cleared /\ w \notin cleared /\ pc \in [Workers -> Steps]
    BY <1>8, WorkLocal DEF Handle, TypeInv, TypeOK, TestTypeOK
  <2>2. CASE count' = count
    <3>1. pc'[w] \in {"limit", "fetch", "store"} => pc[w] \in {"limit", "fetch", "store"}
      BY <1>8, <2>1 DEF Handle, Work, Exit, Lease, LeaseUnanswered, Pace, Served, Refused,
         Interrupted, Store, StoreFails, AdmitChild, AdmitFails, AdmitRepeated, AdmitDone,
         Finish, Nack, NackStop, NackFatal, Terminal, Fail, Resolve, Loop, Goto, work
    <3>2. Ahead' \subseteq Ahead
      BY <2>1, <3>1 DEF Ahead
    <3>3. QED
      BY <2>2, <3>2, AheadShrinks
  <2>3. CASE count' # count
    <3>1. pc[w] = "store" /\ pc'[w] = "admit" /\ count' = count + 1
      BY <1>8, <2>3 DEF Handle
    <3>2. w \in Ahead /\ Ahead' = Ahead \ {w}
      BY <2>1, <3>1 DEF Ahead
    <3>3. Cardinality(Ahead') = Cardinality(Ahead) - 1
      BY <3>2, AheadFinite, FS_RemoveElement
    <3>4. QED
      BY <3>1, <3>3, AheadFinite, TestAssumption DEF AheadBound, TestTypeOK
  <2>4. QED
    BY <2>2, <2>3
<1>9. QED
  BY <1>1, <1>2, <1>3, <1>4, <1>5, <1>6, <1>7, <1>8 DEF NextTest, RunTest, WorkTest

\* A run stores less than maxTestVideos plus one video per worker.
THEOREM OvershootCorrect == SpecTest => []Overshoot
<1>1. InitTest => AheadBound
  <2> SUFFICES ASSUME InitTest PROVE AheadBound
    OBVIOUS
  <2>1. count = 0 /\ Ahead = {}
    BY DEF InitTest, Init, Ahead
  <2>2. QED
    BY <2>1, AheadFinite, FS_EmptySet, TestAssumption DEF AheadBound
<1>2. TestTypeInv /\ AheadBound => Overshoot
  BY AheadFinite, TestAssumption DEF AheadBound, Overshoot, TestTypeInv, TestTypeOK
<1>3. QED
  BY <1>1, <1>2, TestTypeInit, TestTypeNext, OvershootNext, PTL DEF SpecTest

-----------------------------------------------------------------------------
(* What a stopped run leaves leased.                                       *)

\* No step of the run lets go of a leased member unless a call is lost.
LEMMA TestLeasesNext ==
    ASSUME TestTypeInv, LeasesHeld, [NextTest]_testVars
    PROVE  LeasesHeld'
<1> USE DEF TestTypeInv, LeasesHeld
<1>1. CASE Begin
  <2>1. UNCHANGED <<holds, processing, leaked>>
    BY <1>1, AdmitIsCall, TestAssumption DEF Begin, outside
  <2>2. QED
    BY <2>1
<1>2. CASE Watches
  BY <1>2, WatchesAside DEF TypeInv, frontier
<1>3. CASE Ticks
  BY <1>3, TickIsCall, TickLeases DEF outside
<1>4. ASSUME NEW w \in Workers, Work(w)
      PROVE  LeasesHeld'
  BY <1>4, WorkLeases DEF TypeInv
<1>5. ASSUME NEW w \in Workers, Leave(w)
      PROVE  LeasesHeld'
  BY <1>5, LeaveType
<1>6. CASE UNCHANGED testVars
  BY <1>6 DEF testVars, vars, frontier, outside
<1>7. QED
  BY <1>1, <1>2, <1>3, <1>4, <1>5, <1>6, TestStep

\* A test run that stopped without losing a call has given every lease back.
THEOREM TestCleanStopCorrect == SpecTest => []CleanStop
<1>1. InitTest => LeasesHeld
  BY DEF InitTest, Init, Q!Init, LeasesHeld
<1>2. TestTypeInv => TypeOK /\ Q!MemberInv
  BY DEF TestTypeInv, TypeInv
<1>3. QED
  BY <1>1, <1>2, TestTypeInit, TestTypeNext, TestLeasesNext, NothingHeld, PTL DEF SpecTest

-----------------------------------------------------------------------------
(* Idle.                                                                   *)

\* Whatever comes to processing was in ready.
LEMMA WorkMoves ==
    ASSUME Q!Next \/ UNCHANGED frontier
    PROVE  processing' \subseteq processing \cup ready
<1>1. CASE Q!Tick \/ UNCHANGED frontier
  BY <1>1 DEF Q!Tick, frontier
<1>2. CASE Q!Admit
  BY <1>2 DEF Q!Admit, Q!AdmitVideo, Q!AdmitListing, Q!SeedListing
<1>3. CASE Q!Work
  BY <1>3 DEF Q!Work, Q!LeaseNothing, Q!Lease, Q!Ack, Q!Nack, Q!Drop, Q!Terminal,
     Q!Fail, Q!CompleteListing, Q!Release, Q!vars
<1>4. CASE Q!Reconcile
  BY <1>4 DEF Q!Reconcile, Q!Sweep, Q!SweepPage, Q!Reap, Q!ReapPage, Q!Promote,
     Q!PromotePage, Q!RunListingScheduler, Q!SchedulePage
<1>5. QED
  BY <1>1, <1>2, <1>3, <1>4 DEF Q!Next

\* In the queues that Idle has read, only what was pushed to ready meanwhile.
IdleInv ==
    Probing =>
        /\ reading >= 2 => \A j \in ready : j.url \in requeued
        /\ reading >= 3 => \A j \in processing : j.url \in requeued

\* A call fills ready with jobs that Idle is told of, and processing from ready.
LEMMA IdleObserved ==
    ASSUME TestTypeOK, IdleInv, Observe, reading' = reading,
           Q!Next \/ UNCHANGED frontier
    PROVE  IdleInv'
<1> SUFFICES ASSUME Probing
             PROVE  /\ reading >= 2 => \A j \in ready' : j.url \in requeued'
                    /\ reading >= 3 => \A j \in processing' : j.url \in requeued'
  BY DEF IdleInv, Probing
<1>1. requeued' = requeued \cup {j.url : j \in ready' \ ready}
  BY DEF Observe
<1>2. processing' \subseteq processing \cup ready
  BY WorkMoves
<1>3. reading >= 3 => reading >= 2
  BY DEF TestTypeOK
<1>4. QED
  BY <1>1, <1>2, <1>3 DEF IdleInv

\* What the three readings test.
LEMMA ReadingsEmpty ==
    /\ Empty(Readings[1]) <=> ready = {}
    /\ Empty(Readings[2]) <=> processing = {}
    /\ Empty(Readings[3]) <=> delayed = << >>
<1>1. Readings[1] = "ready" /\ Readings[2] = "processing" /\ Readings[3] = "delayed"
  BY DEF Readings
<1>2. QED
  BY <1>1 DEF Empty

\* Idle reads on only past an empty queue.
LEMMA IdleNext ==
    ASSUME TestTypeInv, IdleInv, [NextTest]_testVars
    PROVE  IdleInv'
<1> USE DEF TestTypeInv, Probing
<1>1. CASE Begin
  BY <1>1 DEF Begin, IdleInv, TestTypeOK
<1>2. CASE Loops
  <2>1. reading' \in {0, 1}
    BY <1>2 DEF Loops, End, Answer
  <2>2. QED
    BY <2>1 DEF IdleInv
<1>3. CASE Read
  <2>1. UNCHANGED frontier
    BY <1>3 DEF Read
  <2>2. CASE reading' = 0
    BY <2>2 DEF IdleInv
  <2>3. CASE reading' # 0
    <3>1. /\ reading < 3 /\ reading' = reading + 1 /\ requeued' = requeued
          /\ Empty(Readings[reading]) /\ reading \in 1..3
      BY <1>3, <2>3 DEF Read, End, Answer, Readings, TestTypeOK, watched
    <3>2. /\ reading = 1 => ready = {}
          /\ reading = 2 => processing = {}
      BY <3>1, ReadingsEmpty
    <3>3. QED
      BY <2>1, <3>1, <3>2 DEF IdleInv, frontier
  <2>4. QED
    BY <2>2, <2>3
<1>4. CASE ReadFails
  BY <1>4 DEF ReadFails, End, Answer, IdleInv
<1>5. CASE Deadline \/ TickTest \/ UNCHANGED testVars
  BY <1>5 DEF Deadline, TickTest, Tick, Q!Tick, test, watched, testVars, vars, frontier, IdleInv
<1>6. CASE ReapTest \/ PromoteTest \/ ScheduleTest
  <2>1. Observe /\ reading' = reading
    BY <1>6 DEF ReapTest, PromoteTest, ScheduleTest, Tended
  <2>2. QED
    BY <1>6, <2>1, TestTicks, TickIsCall, IdleObserved
<1>7. ASSUME NEW w \in Workers, Pass(w) \/ LeaseNone(w) \/ Leave(w)
      PROVE  IdleInv'
  BY <1>7 DEF Pass, LeaseNone, Leave, vars, frontier, test, watched, IdleInv
<1>8. ASSUME NEW w \in Workers, LeaseTest(w) \/ Handle(w)
      PROVE  IdleInv'
  <2>1. Work(w) /\ Observe /\ reading' = reading
    BY <1>8 DEF LeaseTest, Handle, Work
  <2>2. QED
    BY <2>1, WorkIsCall, IdleObserved DEF TypeInv, TypeOK
<1>9. QED
  BY <1>1, <1>2, <1>3, <1>4, <1>5, <1>6, <1>7, <1>8 DEF NextTest, RunTest, WorkTest

\* crawler.go:174, when Idle answers true the only jobs it can have missed were
\* pushed to ready while it was asking: no lease and no failure hides a job.
THEOREM IdleCorrect == SpecTest => IdleMissesOnlyRequeued
<1>1. InitTest => IdleInv
  BY DEF InitTest, IdleInv, Probing
<1>2. TestTypeInv /\ IdleInv /\ [NextTest]_testVars
        => [Read /\ main' = "end" => \A j \in Q!Live : j.url \in requeued]_testVars
  <2> SUFFICES ASSUME TestTypeInv, IdleInv, Read, main' = "end"
               PROVE  \A j \in Q!Live : j.url \in requeued
    OBVIOUS
  <2>1. reading \in 1..3 /\ main = "loop"
    BY DEF Read, Probing, TestTypeInv, TestTypeOK
  <2>2. /\ Empty(Readings[reading]) /\ ~(reading < Len(Readings))
    BY <2>1 DEF Read, Answer
  <2>3. reading = 3 /\ DOMAIN delayed = {}
    BY <2>1, <2>2, ReadingsEmpty DEF Readings
  <2>4. QED
    BY <2>1, <2>3 DEF IdleInv, Probing, Q!Live
<1>3. QED
  BY <1>1, <1>2, TestTypeInit, TestTypeNext, IdleNext, PTL
     DEF SpecTest, IdleMissesOnlyRequeued
=============================================================================
