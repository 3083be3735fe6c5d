------------------------- MODULE FrontierLifecycle --------------------------
(***************************************************************************)
(* Frontier implements UrlLifecycle while the Bloom filter has room for all *)
(* videos: the stage of a url and its owner, read off the keyspace.        *)
(***************************************************************************)
EXTENDS Frontier

RoomForAll == IsFiniteSet(Videos) /\ Cardinality(Videos) <= BloomCapacity

JobIn(u, S) == \E j \in S : j.url = u

\* The worker whose resolution of u would pass the fencing test.
OwnersOf(u) == {w \in Workers : Owns(w) /\ holds[w].url = u}

StageOf(u) ==
    IF JobIn(u, ready) THEN "queued"
    ELSE IF JobIn(u, processing) THEN "leased"
    ELSE IF JobIn(u, DOMAIN delayed) THEN "waiting"
    ELSE IF u \in DOMAIN dead THEN "dead"
    ELSE IF u \in DOMAIN listingNext THEN "scheduled"
    ELSE IF u \in acked THEN "done"
    ELSE "unknown"

L == INSTANCE UrlLifecycle WITH
        stage <- [u \in URL |-> StageOf(u)],
        owners <- [u \in URL |-> OwnersOf(u)]

\* Leases, retries, backoffs, quarantines and revisits of all scripts together
\* are the life of a url as its users see it.
ImplementsLifecycle == L!Spec
=============================================================================
