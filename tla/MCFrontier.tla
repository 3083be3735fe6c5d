----------------------------- MODULE MCFrontier -----------------------------
(***************************************************************************)
(* Instances of Frontier for TLC.                                          *)
(***************************************************************************)
EXTENDS FrontierLifecycle, TLC

\* Backoff ladders as frontierConfig passes them: strikes back off longer.
MCRateLimitBackoff == <<1, 2>>
MCStrikeBackoff == <<2>>

\* Workers are interchangeable, and so are videos: no constant names one.
MCWorkerSymmetry == Permutations(Workers)
MCVideoSymmetry == Permutations(Videos)
=============================================================================
