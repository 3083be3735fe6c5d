----------------------------- MODULE MCCrawler ------------------------------
(***************************************************************************)
(* Instances of Crawler for TLC.                                           *)
(***************************************************************************)
EXTENDS Crawler, SequencesExt

MCRateLimitBackoff == <<1, 2>>
MCStrikeBackoff == <<2>>

\* The base listing links to every video, a video to nothing.
MCLinks == [u \in URL |-> IF u = BaseUrl THEN SetToSeq(Videos) ELSE << >>]

MCWorkerSymmetry == Permutations(Workers)
=============================================================================
