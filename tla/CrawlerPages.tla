---------------------------- MODULE CrawlerPages ----------------------------
(***************************************************************************)
(* The crawler on pages of the site: the hrefs of a page are the constant  *)
(* Found, and its links the keys Canonical makes of them.                  *)
(***************************************************************************)
EXTENDS Crawler, Canonical

CONSTANT Found    \* the hrefs on the page of a url

\* What the urls are is not assumed, only where they come from.
ASSUME PagesAssumption ==
    /\ Found \in [URL -> SUBSET Hrefs]
    /\ \A u \in URL : Range(Links[u]) = {Key(href) : href \in Found[u]} \ {Skip}
    /\ \A u \in URL : u \in Videos <=> IsVideo(u)
    /\ BaseUrl = <<BasePiece>>

\* Whatever the crawl has a job, a claim, a time or a document for.
KnownUrls ==
    {j.url : j \in Q!Live} \cup bloom \cup DOMAIN listingNext \cup DOMAIN dead \cup stored

\* A url is the one name of one page: all spellings of that page lead to it, and
\* to that kind of admission.
NamesOnePage(u) ==
    \E page \in Pages :
        /\ {p \in Pages : u \in Keys[p]} = {page}
        /\ Keys[page] = {u}
        /\ u \in Videos <=> "video" \in DOMAIN page

\* README.md:62, canonicalization "collapses variant strings per page to a
\* single key": whatever the crawl knows, however it came to know it, is the one
\* url of one page, so no page is crawled or stored twice under two names.  The
\* links of Unpaged are excepted: nobody collapses them.  Of the links that lead
\* elsewhere only those have a url whose host begins with the base url.
OneUrlPerPage ==
    /\ \A u \in KnownUrls : NamesOnePage(u) \/ u \in Unpaged
    /\ Strays = PrefixHosts
=============================================================================
