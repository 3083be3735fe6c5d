----------------------------- MODULE Canonical ------------------------------
(***************************************************************************)
(* From the href of a page to the url the frontier is asked to admit.  One *)
(* page must be one url, or the filter, the schedule and MongoDB take it   *)
(* for several.                                                            *)
(*                                                                         *)
(* A string is the sequence of the pieces the code looks for ("host" is    *)
(* cfg.BaseUrl, "/watch?v=" cfg.VideoPattern) and of names between them.   *)
(***************************************************************************)
EXTENDS Naturals, Sequences, SequencesExt

CONSTANT Names    \* video ids, user names, parameters

BasePiece == "host"
VideoPiece == "/watch?v="
Slashes == {"/", VideoPiece}    \* pieces that start with a slash
Skip == << >>                   \* ""
Marks == {BasePiece, VideoPiece, "/", "?", "&", "#", "other"}

\* A name lies between the marks and holds none.
ASSUME NamesAssumption == Names \cap Marks = {}

\* Where piece first occurs in s, or past the end.
IndexIn(s, piece) == Min({i \in DOMAIN s : s[i] = piece} \cup {Len(s) + 1})

Before(s, piece) == SubSeq(s, 1, IndexIn(s, piece) - 1)
After(s, piece) == SubSeq(s, IndexIn(s, piece) + 1, Len(s))

TrimSlashes(s) == SubSeq(s, 1, Max({i \in DOMAIN s : s[i] # "/"} \cup {0}))

IsVideo(url) == VideoPiece \in ToSet(url)

\* The href of a root-relative link is completed, any other left alone.
extractLink(href) ==
    IF /\ href # << >> /\ href[1] \in Slashes
       /\ ~(href[1] = "/" /\ Len(href) > 1 /\ href[2] \in Slashes)
    THEN <<BasePiece>> \o href
    ELSE href

\* Mutant of canonicalize: the fragment goes last, as it does in a url, but a
\* fragment may hold what the other steps look for.
canonicalizeFragmentLast(raw) ==
    IF raw = << >> \/ raw[1] # BasePiece THEN Skip
    ELSE IF IsVideo(raw)
    THEN IF After(raw, VideoPiece) = << >> THEN Skip
         ELSE <<BasePiece, VideoPiece>>
              \o Before(Before(After(raw, VideoPiece), "&"), "#")
    ELSE TrimSlashes(Before(raw, "#"))

canonicalize(raw) ==
    LET url == Before(raw, "#")
        rest == After(url, VideoPiece)
    IN  IF url = << >> \/ url[1] # BasePiece THEN Skip
        ELSE IF ~IsVideo(url) THEN TrimSlashes(url)
        ELSE IF rest = << >> THEN Skip
        ELSE <<BasePiece, VideoPiece>> \o Before(rest, "&")

\* The url admitURL admits for a link, Skip being nothing.
Key(href) == canonicalize(extractLink(href))

\* The urls admitted for the hrefs of a page, in order.
LinksOf(hrefs) ==
    LET keys == [i \in DOMAIN hrefs |-> Key(hrefs[i])]
    IN  SelectSeq(keys, LAMBDA k : k # Skip)

-----------------------------------------------------------------------------
(* The reference: the pages of the site, and the links that lead to each.  *)

Pages ==
    {[path |-> << >>]} \cup
    {[path |-> <<"/", n>>] : n \in Names} \cup
    {[path |-> <<"/", n, "?", m>>] : n, m \in Names} \cup
    {[video |-> n] : n \in Names}

Fragments ==
    {<< >>, <<"#">>, <<"#", "/">>} \cup
    {<<"#", VideoPiece, n>> : n \in Names} \cup {<<"#", n, "&">> : n \in Names}

Parameters ==
    {<< >>, <<"&">>} \cup {<<"&", n>> : n \in Names} \cup
    {<<"&", n, "&", m>> : n, m \in Names}

\* The spellings of a page below the host.
Bodies(page) ==
    IF "video" \in DOMAIN page
    THEN {before \o <<VideoPiece, page.video>> \o after :
             before \in {<< >>, <<"/">>}, after \in Parameters}
    ELSE {page.path \o after : after \in {<< >>, <<"/">>, <<"/", "/">>}}

\* Root-relative links cannot be empty nor start with two slashes.
Rooted(body) == body # << >> /\ (Len(body) > 1 => body[2] \notin Slashes)

Spellings(page) ==
    {<<BasePiece>> \o body \o fragment : body \in Bodies(page), fragment \in Fragments}
    \cup
    {body \o fragment :
        body \in {b \in Bodies(page) : Rooted(b)}, fragment \in Fragments}

\* Links to a host whose name begins with cfg.BaseUrl, which has no slash at its
\* end: canonicalize looks at the prefix only.
HostTails ==
    {<<n>> : n \in Names} \cup {<<n, "/">> : n \in Names} \cup
    {<<n, "/", m>> : n, m \in Names} \cup {<<n, VideoPiece, m>> : n, m \in Names}

PrefixHosts == {<<BasePiece>> \o tail : tail \in HostTails}

\* Links that lead elsewhere, or nowhere.
Elsewhere ==
    PrefixHosts \cup
    {<<"other", VideoPiece, n>> : n \in Names} \cup
    {<<"/", "/", n>> : n \in Names} \cup
    {<<"/", VideoPiece, n>> : n \in Names} \cup
    {<<n>> : n \in Names} \cup Fragments

\* Links of the site that canonicalize leaves as they come: of several parameters
\* the order counts, and "/watch?t=1&v=a" is taken for a listing; a video link
\* without an id is taken for a video.
Unmerged ==
    {<<"/", n, "?", m, "&", k>> : n, m, k \in Names} \cup
    {<<VideoPiece, "&", n>> : n \in Names}

Hrefs == (UNION {Spellings(page) : page \in Pages}) \cup Elsewhere \cup Unmerged

\* The keys of a page: one, if all is well.
Keys == [page \in Pages |-> {Key(s) : s \in Spellings(page)}]

\* The links elsewhere that get a url all the same.
Strays == {href \in Elsewhere : Key(href) # Skip}

\* The urls without a page of the reference.
Unpaged == {Key(href) : href \in PrefixHosts \cup Unmerged}
=============================================================================
