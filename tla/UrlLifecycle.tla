---------------------------- MODULE UrlLifecycle ----------------------------
(***************************************************************************)
(* What the frontier promises about a url, without queues, ids, scores or  *)
(* time: the stages it goes through and who may move it.  A url is handed  *)
(* to one worker at a time; only that worker decides what becomes of it,   *)
(* unless its lease expires; a video that is done or dead stays so, and a  *)
(* listing always comes back through the queue.                            *)
(***************************************************************************)
CONSTANTS Videos, Listings, Workers

VARIABLES
    stage,    \* of each url
    owners    \* of each url: the worker it is leased to, if that is alive to it

URL == Videos \cup Listings
Stages == {"unknown", "queued", "leased", "waiting", "scheduled", "done", "dead"}

Init ==
    /\ stage = [u \in URL |-> "unknown"]
    /\ owners = [u \in URL |-> {}]

Move(S, from, to) ==
    /\ S # {}
    /\ \A u \in S : stage[u] \in from
    /\ stage' = [u \in URL |-> IF u \in S THEN to ELSE stage[u]]

Disown(S) == owners' = [u \in URL |-> IF u \in S THEN {} ELSE owners[u]]

Discover(u) == Move({u}, {"unknown"}, "queued") /\ UNCHANGED owners

Seed(u) ==
    /\ u \in Listings
    /\ Move({u}, {"unknown"}, "scheduled")
    /\ UNCHANGED owners

Take(w, u) ==
    /\ \A x \in URL : w \notin owners[x]
    /\ Move({u}, {"queued"}, "leased")
    /\ owners' = [owners EXCEPT ![u] = {w}]

\* Retried at once, retried later, dead, or finished.
Outcomes(u) ==
    {"queued", "waiting", "dead"} \cup
    (IF u \in Videos THEN {"done"} ELSE {"scheduled"})

Resolve(w, u) ==
    /\ owners[u] = {w}
    /\ \E to \in Outcomes(u) : Move({u}, {"leased"}, to)
    /\ Disown({u})

\* The owner dies or never learns that it is the owner.
Abandon(u) ==
    /\ owners[u] # {}
    /\ Disown({u})
    /\ UNCHANGED stage

Expire(S) == Move(S, {"leased"}, "queued") /\ Disown(S)

Promote(S) == Move(S, {"waiting"}, "queued") /\ UNCHANGED owners

Revisit(S) ==
    /\ S \subseteq Listings
    /\ Move(S, {"scheduled", "dead"}, "queued")
    /\ UNCHANGED owners

Next ==
    \/ \E u \in URL : Discover(u) \/ Seed(u) \/ Abandon(u)
    \/ \E w \in Workers, u \in URL : Take(w, u) \/ Resolve(w, u)
    \/ \E S \in SUBSET URL : Expire(S) \/ Promote(S) \/ Revisit(S)

Spec == Init /\ [][Next]_<<stage, owners>>
=============================================================================
