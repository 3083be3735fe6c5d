--------------------------- MODULE MCCrawlerPages ---------------------------
(***************************************************************************)
(* Instances of CrawlerPages for TLC.                                      *)
(***************************************************************************)
EXTENDS CrawlerPages

MCRateLimitBackoff == <<1, 2>>
MCStrikeBackoff == <<2>>

MCHome == <<BasePiece>>
MCVideo(n) == <<BasePiece, VideoPiece, n>>
MCVideos == {MCVideo(n) : n \in Names}
MCListings == {MCHome}

\* The home page links to two videos and to another site, a video to the home page.
MCPage(u) ==
    IF u = MCHome
    THEN <<<<"#">>, <<VideoPiece, "a", "&", "b">>, <<"other", VideoPiece, "a">>,
           <<BasePiece, VideoPiece, "b", "#", "a", "&">>>>
    ELSE <<<<"/">>>>

MCFound == [u \in URL |-> Range(MCPage(u))]
MCLinks == [u \in URL |-> LinksOf(MCPage(u))]

MCWorkerSymmetry == Permutations(Workers)
=============================================================================
