----------------------------- MODULE MCTestRun ------------------------------
(***************************************************************************)
(* Instances of TestRun for TLC.                                           *)
(***************************************************************************)
EXTENDS TestRun, SequencesExt

MCRateLimitBackoff == <<1>>
MCStrikeBackoff == <<1>>

\* The test video links to the base listing, and that to the other videos.
MCLinks ==
    [u \in URL |->
        CASE u = TestUrl -> <<BaseUrl>>
          [] u = BaseUrl -> SetToSeq(Videos \ {TestUrl})
          [] OTHER -> << >>]
=============================================================================
