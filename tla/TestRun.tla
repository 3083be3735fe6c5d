------------------------------- MODULE TestRun -------------------------------
(***************************************************************************)
(* The bounded crawl of -test: RunTest and workerTest.  The database is    *)
(* flushed, the test url admitted, and workers and reconcilers run as in   *)
(* production until RunTest has counted enough videos, finds the frontier  *)
(* idle, or its deadline passes.  Idle asks for the lengths of three       *)
(* queues in a pipeline, which Redis may interleave with other calls: each *)
(* reading is a step.                                                      *)
(***************************************************************************)
EXTENDS Crawler

CONSTANTS
    TestUrl,
    MaxTestVideos    \* the 5 of maxTestVideos

ASSUME TestAssumption ==
    /\ TestUrl \in URL
    /\ MaxTestVideos \in Nat \ {0}
    /\ IsFiniteSet(Workers)

VARIABLES
    count,     \* c.count
    cleared,   \* workers past the test of the context and the count
    main,      \* RunTest: before, in or past its loop
    reading,   \* the reading of Idle it is at, 0 outside Idle
    requeued,  \* history: the urls pushed to ready during this Idle
    idled      \* history: during this Idle no job was left at some moment

watched == <<requeued, idled>>
test == <<count, cleared, main, reading, watched>>
testVars == <<vars, test>>

\* Mutant of Readings: work is read against the way it moves.
ReadingsReversed == <<"delayed", "processing", "ready">>

\* The order of Stats.
Readings == <<"ready", "processing", "delayed">>

Empty(queue) ==
    CASE queue = "ready" -> ready = {}
      [] queue = "processing" -> processing = {}
      [] queue = "delayed" -> delayed = << >>

Probing == reading # 0

-----------------------------------------------------------------------------
InitTest ==
    /\ Init
    /\ count = 0 /\ cleared = {} /\ main = "start" /\ reading = 0
    /\ requeued = {} /\ idled = FALSE

\* Admission of the test url; workers and reconcilers start.
Begin ==
    /\ main = "start"
    /\ AdmitCall(TestUrl)
    /\ pc' = [w \in Workers |-> "idle"]
    /\ main' = "loop"
    /\ UNCHANGED <<links, fresh, outside, history, count, cleared, reading,
                   watched>>

\* Idle returns.
Answer == reading' = 0 /\ requeued' = {} /\ idled' = FALSE

\* The loop of RunTest ends: cancel().
End == main' = "end" /\ cancelled' = TRUE /\ Answer

Loops ==
    /\ main = "loop" /\ ~Probing
    /\ IF count < MaxTestVideos /\ ~cancelled
       THEN /\ reading' = 1
            /\ idled' = (Q!Live = {})
            /\ UNCHANGED <<requeued, cancelled, main>>
       ELSE End
    /\ UNCHANGED <<frontier, work, stored, faults, leaked, history, count, cleared>>

\* One reading of Idle.  A queue that is not empty settles the answer; the last
\* one that is empty makes it true.
Read ==
    /\ Probing
    /\ IF ~Empty(Readings[reading])
       THEN Answer /\ UNCHANGED <<cancelled, main>>
       ELSE IF reading < Len(Readings)
       THEN /\ reading' = reading + 1
            /\ UNCHANGED <<cancelled, main, watched>>
       ELSE End
    /\ UNCHANGED <<frontier, work, stored, faults, leaked, history, count, cleared>>

\* Idle returns an error: a lost connection, or the context is done.
ReadFails ==
    /\ Probing
    /\ Fault \/ (cancelled /\ UNCHANGED faults)
    /\ End
    /\ UNCHANGED <<frontier, work, stored, leaked, history, count, cleared>>

\* testDeadline, or the bloom monitor.
Deadline ==
    /\ main = "loop" /\ ~cancelled
    /\ cancelled' = TRUE
    /\ UNCHANGED <<frontier, work, stored, faults, leaked, history, test>>

TickTest ==
    /\ main # "start"
    /\ Tick
    /\ UNCHANGED test

\* What a call means to an Idle under way.
Observe ==
    IF Probing
    THEN /\ requeued' = requeued \cup {j.url : j \in ready' \ ready}
         /\ idled' = (idled \/ Q!Live' = {})
    ELSE UNCHANGED watched

\* The reconcilers do not depend on any worker being left.
Tended(tick) ==
    /\ main # "start"
    /\ Up \/ ~cancelled
    /\ tick
    /\ Observe
    /\ UNCHANGED <<work, outside, history, count, cleared, main, reading>>

\* Mutant of PromoteTest: no promoter in test mode.
PromoteTestOff == FALSE

ReapTest == Tended(\E t \in Q!Reading : Q!Reap(t))
PromoteTest == Tended(\E t \in Q!Reading : Q!Promote(t))
ScheduleTest == Tended(\E t \in Q!Reading : Q!RunListingScheduler(t))

-----------------------------------------------------------------------------
(* workerTest differs from worker in the test that ends its loop.          *)

\* Mutant of Enough: the count is RunTest's business alone.
EnoughNever == cancelled

Enough == cancelled \/ count >= MaxTestVideos

Waiting(w) == pc[w] = "idle" /\ w \notin cleared

Pass(w) ==
    /\ Waiting(w) /\ ~Enough
    /\ cleared' = cleared \cup {w}
    /\ UNCHANGED <<vars, count, main, reading, watched>>

Leave(w) ==
    /\ Waiting(w) /\ Enough
    /\ Goto(w, "stopped")
    /\ UNCHANGED <<frontier, links, fresh, outside, history, test>>

LeaseTest(w) ==
    /\ w \in cleared
    /\ Lease(w)
    /\ cleared' = cleared \ {w}
    /\ Observe
    /\ UNCHANGED <<count, main, reading>>

\* Lease answers nil or an error, and the loop starts over.
LeaseNone(w) ==
    /\ w \in cleared
    /\ ready = {} \/ cancelled
    /\ cleared' = cleared \ {w}
    /\ UNCHANGED <<vars, count, main, reading, watched>>

\* The rest of the loop is that of worker; recordVideo counts what was stored.
Handle(w) ==
    /\ pc[w] # "idle"
    /\ Work(w)
    /\ count' = IF pc[w] = "store" /\ pc'[w] = "admit" THEN count + 1 ELSE count
    /\ Observe
    /\ UNCHANGED <<cleared, main, reading>>

WorkTest(w) == Pass(w) \/ Leave(w) \/ LeaseTest(w) \/ LeaseNone(w) \/ Handle(w)

RunTest == Begin \/ Loops \/ Read \/ ReadFails

NextTest ==
    \/ RunTest \/ Deadline \/ TickTest
    \/ ReapTest \/ PromoteTest \/ ScheduleTest
    \/ \E w \in Workers : WorkTest(w)

SpecTest == InitTest /\ [][NextTest]_testVars

\* Goroutines are scheduled and time passes.  The deadline is not assumed to
\* come, nor is the scheduler needed: Idle does not count what it waits for.
FairnessTest ==
    /\ WF_testVars(RunTest) /\ WF_testVars(TickTest)
    /\ WF_testVars(~cancelled /\ ReapTest)
    /\ WF_testVars(~cancelled /\ PromoteTest)
    /\ \A w \in Workers : WF_testVars(WorkTest(w))

FairSpecTest == SpecTest /\ FairnessTest

-----------------------------------------------------------------------------
(* Properties.                                                             *)

\* Idle reads ready before processing before delayed, the way work moves, so a
\* job that is leased or fails on its way past the readings is counted in one of
\* them: when the answer is true, whatever job is left was pushed back to ready,
\* behind the first reading, while Idle was asking.
IdleMissesOnlyRequeued ==
    [][Read /\ main' = "end" => \A j \in Q!Live : j.url \in requeued]_testVars

\* crawler.go:146-147, RunTest stops at "maxTestVideos, an idle frontier, or
\* testDeadline - whichever comes first": when Idle ends a run whose context is
\* alive, the frontier held no job at some moment of that call.
StopsOnIdleFrontier ==
    [][Read /\ main' = "end" /\ ~cancelled => idled]_testVars

\* workerTest tests the count before it leases, not before it stores: a test
\* run overshoots maxTestVideos, by one video per other worker at most.
Overshoot == count < MaxTestVideos + Cardinality(Workers)

\* crawler.go:146-150, the reconcilers run here too so that a run finishes or goes
\* idle: every test run ends, with no need of its deadline.
TestEnds == <>(OutOfTime \/ (main = "end" /\ ~Up))
=============================================================================
