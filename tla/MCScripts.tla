----------------------------- MODULE MCScripts ------------------------------
(***************************************************************************)
(* Instances of Scripts for TLC.                                           *)
(***************************************************************************)
EXTENDS Scripts

MCRateLimitBackoff == <<1, 2>>
MCStrikeBackoff == <<2>>

\* Workers are interchangeable: no constant names one.
MCWorkerSymmetry == Permutations(Workers)
=============================================================================
