----------------------------- MODULE MCRecovery -----------------------------
(***************************************************************************)
(* Instances of Recovery for TLC.                                          *)
(***************************************************************************)
EXTENDS Recovery, SequencesExt

MCRateLimitBackoff == <<1>>
MCStrikeBackoff == <<1>>

\* The base listing links to every video, a video to nothing.
MCLinks == [u \in URL |-> IF u = BaseUrl THEN SetToSeq(Videos) ELSE << >>]

\* The base listing links to one video, which links to the next one.
MCChain ==
    LET chain == SetToSeq(Videos)
    IN  [u \in URL |->
            IF u = BaseUrl THEN <<chain[1]>>
            ELSE LET i == CHOOSE k \in DOMAIN chain : chain[k] = u
                 IN  IF i < Len(chain) THEN <<chain[i + 1]>> ELSE << >>]
=============================================================================
