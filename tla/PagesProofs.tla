----------------------------- MODULE PagesProofs -----------------------------
(***************************************************************************)
(* Canonicalization, for every set of names: all spellings of a page are   *)
(* one url and no other page's.  As nothing enters the crawl but by a      *)
(* link, so are the urls it knows.                                         *)
(***************************************************************************)
EXTENDS CrawlerPages, CrawlerProofs, SequenceTheorems

Pieces == Names \cup Marks

-----------------------------------------------------------------------------
(* The string operations on a string cut where the piece first occurs.     *)

\* The least element of a set of integers is its Min.
LEMMA MinIs ==
    ASSUME NEW M \in SUBSET Int, NEW m \in M, \A x \in M : m <= x
    PROVE  Min(M) = m
<1>1. \A x \in M : (\A y \in M : x <= y) => x = m
  OBVIOUS
<1>2. QED
  BY <1>1 DEF Min

\* The greatest element of a set of integers is its Max.
LEMMA MaxIs ==
    ASSUME NEW M \in SUBSET Int, NEW m \in M, \A x \in M : m >= x
    PROVE  Max(M) = m
<1>1. \A x \in M : (\A y \in M : x >= y) => x = m
  OBVIOUS
<1>2. QED
  BY <1>1 DEF Max

\* Strings concatenate to strings, in whatever order.
LEMMA Concatenate ==
    \A s, t, u \in Seq(Pieces) : s \o t \in Seq(Pieces) /\ (s \o t) \o u = s \o (t \o u)
BY ConcatProperties, ConcatAssociative, SMTT(30)

\* The elements of a concatenation.
LEMMA Together ==
    \A s, t \in Seq(Pieces) :
       /\ s \o t \in Seq(Pieces) /\ Len(s \o t) = Len(s) + Len(t)
       /\ \A i \in 1..Len(s) + Len(t) :
             (s \o t)[i] = IF i <= Len(s) THEN s[i] ELSE t[i - Len(s)]
BY ConcatProperties

\* A sequence is the concatenation it agrees with.
LEMMA Joined ==
    ASSUME NEW s \in Seq(Pieces), NEW t \in Seq(Pieces), NEW u \in Seq(Pieces),
           Len(u) = Len(s) + Len(t),
           \A i \in 1..Len(u) : u[i] = IF i <= Len(s) THEN s[i] ELSE t[i - Len(s)]
    PROVE  s \o t = u
<1>1. /\ s \o t \in Seq(Pieces) /\ Len(s \o t) = Len(u)
      /\ \A i \in 1..Len(u) : (s \o t)[i] = u[i]
  BY ConcatProperties
<1>2. QED
  BY <1>1, SeqEqual

\* So for small tuples.
LEMMA Tuples ==
    ASSUME NEW k \in Pieces, NEW m \in Pieces, NEW n \in Pieces
    PROVE  /\ <<k>> \o <<m>> = <<k, m>>
           /\ <<k>> \o <<m, n>> = <<k, m, n>>
           /\ <<k, m>> \o <<n>> = <<k, m, n>>
<1>1. <<k>> \o <<m>> = <<k, m>>
  <2>1. /\ <<k>> \in Seq(Pieces) /\ <<m>> \in Seq(Pieces) /\ <<k, m>> \in Seq(Pieces)
        /\ Len(<<k, m>>) = Len(<<k>>) + Len(<<m>>)
    OBVIOUS
  <2>2. \A i \in 1..Len(<<k, m>>) :
           <<k, m>>[i] = IF i <= Len(<<k>>) THEN <<k>>[i] ELSE <<m>>[i - Len(<<k>>)]
    OBVIOUS
  <2>3. QED
    BY <2>1, <2>2, Joined
<1>2. <<k>> \o <<m, n>> = <<k, m, n>>
  <2>1. /\ <<k>> \in Seq(Pieces) /\ <<m, n>> \in Seq(Pieces) /\ <<k, m, n>> \in Seq(Pieces)
        /\ Len(<<k, m, n>>) = Len(<<k>>) + Len(<<m, n>>)
    OBVIOUS
  <2>2. \A i \in 1..Len(<<k, m, n>>) :
           <<k, m, n>>[i] = IF i <= Len(<<k>>) THEN <<k>>[i] ELSE <<m, n>>[i - Len(<<k>>)]
    OBVIOUS
  <2>3. QED
    BY <2>1, <2>2, Joined
<1>3. <<k, m>> \o <<n>> = <<k, m, n>>
  <2>1. /\ <<k, m>> \in Seq(Pieces) /\ <<n>> \in Seq(Pieces) /\ <<k, m, n>> \in Seq(Pieces)
        /\ Len(<<k, m, n>>) = Len(<<k, m>>) + Len(<<n>>)
    OBVIOUS
  <2>2. \A i \in 1..Len(<<k, m, n>>) :
           <<k, m, n>>[i] = IF i <= Len(<<k, m>>) THEN <<k, m>>[i] ELSE <<n>>[i - Len(<<k, m>>)]
    OBVIOUS
  <2>3. QED
    BY <2>1, <2>2, Joined
<1>4. QED
  BY <1>1, <1>2, <1>3

\* strings.Index finds the piece right after a prefix that is free of it.
LEMMA IndexSplit ==
    ASSUME NEW s \in Seq(Pieces), NEW t \in Seq(Pieces), NEW p,
           \A i \in 1..Len(s) : s[i] # p,
           t = << >> \/ t[1] = p
    PROVE  IndexIn(s \o t, p) = Len(s) + 1
<1> DEFINE M == {i \in DOMAIN (s \o t) : (s \o t)[i] = p} \cup {Len(s \o t) + 1}
<1>1. /\ s \o t \in Seq(Pieces) /\ Len(s \o t) = Len(s) + Len(t)
      /\ DOMAIN (s \o t) = 1..Len(s) + Len(t)
      /\ \A i \in 1..Len(s) + Len(t) :
            (s \o t)[i] = IF i <= Len(s) THEN s[i] ELSE t[i - Len(s)]
      /\ Len(s) \in Nat /\ Len(t) \in Nat
  BY ConcatProperties, LenProperties
<1>2. M \in SUBSET Int
  BY <1>1
<1>3. \A i \in M : Len(s) + 1 <= i
  BY <1>1
<1>4. Len(s) + 1 \in M
  <2>1. CASE t = << >>
    BY <1>1, <2>1
  <2>2. CASE t # << >> /\ t[1] = p
    <3>1. Len(t) \in Nat \ {0}
      BY <2>2, EmptySeq
    <3>2. Len(s) + 1 \in 1..Len(s) + Len(t) /\ (s \o t)[Len(s) + 1] = p
      BY <1>1, <2>2, <3>1
    <3>3. QED
      BY <1>1, <3>2
  <2>3. QED
    BY <2>1, <2>2
<1>5. Min(M) = Len(s) + 1
  <2> HIDE DEF M
  <2>1. QED
    BY <1>2, <1>3, <1>4, MinIs
<1>6. QED
  BY <1>5 DEF IndexIn

\* What stands before the piece is that prefix.
LEMMA BeforeSplit ==
    ASSUME NEW s \in Seq(Pieces), NEW t \in Seq(Pieces), NEW p,
           \A i \in 1..Len(s) : s[i] # p,
           t = << >> \/ t[1] = p
    PROVE  Before(s \o t, p) = s
<1>1. /\ s \o t \in Seq(Pieces) /\ Len(s \o t) = Len(s) + Len(t)
      /\ \A i \in 1..Len(s) : (s \o t)[i] = s[i]
      /\ \A i \in 1..Len(s) : s[i] \in Pieces
      /\ Len(s) \in Nat /\ Len(t) \in Nat
  BY ConcatProperties, LenProperties, ElementOfSeq
<1>2. /\ SubSeq(s \o t, 1, Len(s)) \in Seq(Pieces)
      /\ Len(SubSeq(s \o t, 1, Len(s))) = Len(s)
      /\ \A i \in 1..Len(s) : SubSeq(s \o t, 1, Len(s))[i] = s[i]
  BY <1>1
<1>3. SubSeq(s \o t, 1, Len(s)) = s
  BY <1>2, SeqEqual
<1>4. IndexIn(s \o t, p) - 1 = Len(s)
  BY <1>1, IndexSplit
<1>5. QED
  BY <1>3, <1>4 DEF Before

\* Nothing stands before a piece that comes first.
LEMMA BeforeFirst ==
    ASSUME NEW t \in Seq(Pieces), NEW p, t = << >> \/ t[1] = p
    PROVE  Before(t, p) = << >>
<1>1. << >> \in Seq(Pieces) /\ \A i \in 1..Len(<< >>) : << >>[i] # p
  OBVIOUS
<1>2. Before(<< >> \o t, p) = << >>
  BY <1>1, BeforeSplit, ZenonT(60)
<1>3. QED
  BY <1>2, ConcatEmptySeq

\* A piece stands before another that comes second.
LEMMA BeforeSecond ==
    ASSUME NEW n \in Pieces, NEW t \in Seq(Pieces), NEW p, n # p, t = << >> \/ t[1] = p
    PROVE  Before(<<n>> \o t, p) = <<n>>
<1>1. <<n>> \in Seq(Pieces) /\ \A i \in 1..Len(<<n>>) : <<n>>[i] # p
  OBVIOUS
<1>2. QED
  BY <1>1, BeforeSplit, ZenonT(60)

\* What stands after the piece is what follows it.
LEMMA AfterSplit ==
    ASSUME NEW s \in Seq(Pieces), NEW p \in Pieces, NEW r \in Seq(Pieces),
           \A i \in 1..Len(s) : s[i] # p
    PROVE  After(s \o (<<p>> \o r), p) = r
<1> DEFINE t == <<p>> \o r
<1>1. /\ t \in Seq(Pieces) /\ Len(t) = Len(r) + 1 /\ t[1] = p
      /\ \A i \in 1..Len(r) : t[i + 1] = r[i]
      /\ Len(r) \in Nat /\ Len(s) \in Nat
  OBVIOUS
<1> HIDE DEF t
<1>2. /\ s \o t \in Seq(Pieces) /\ Len(s \o t) = Len(s) + Len(r) + 1
      /\ \A i \in 1..Len(r) : (s \o t)[Len(s) + 1 + i] = r[i]
  <2>1. /\ s \o t \in Seq(Pieces) /\ Len(s \o t) = Len(s) + Len(t)
        /\ \A i \in 1..Len(s) + Len(t) :
              (s \o t)[i] = IF i <= Len(s) THEN s[i] ELSE t[i - Len(s)]
    BY <1>1, ConcatProperties
  <2>2. ASSUME NEW i \in 1..Len(r)
        PROVE  (s \o t)[Len(s) + 1 + i] = t[i + 1]
    BY <1>1, <2>1, <2>2
  <2>3. QED
    BY <1>1, <2>1, <2>2
<1>3. IndexIn(s \o t, p) = Len(s) + 1
  BY <1>1, IndexSplit
<1>4. After(s \o t, p) = SubSeq(s \o t, Len(s) + 2, Len(s) + Len(r) + 1)
  <2>1. After(s \o t, p) = SubSeq(s \o t, (Len(s) + 1) + 1, Len(s \o t))
    BY <1>3, Zenon DEF After
  <2>2. (Len(s) + 1) + 1 = Len(s) + 2
    BY <1>1
  <2>3. QED
    BY <1>2, <2>1, <2>2, Zenon
<1>5. /\ SubSeq(s \o t, Len(s) + 2, Len(s) + Len(r) + 1) \in Seq(Pieces)
      /\ Len(SubSeq(s \o t, Len(s) + 2, Len(s) + Len(r) + 1)) = Len(r)
      /\ \A i \in 1..Len(r) :
            SubSeq(s \o t, Len(s) + 2, Len(s) + Len(r) + 1)[i] = r[i]
  <2>1. PICK m, n : m = Len(s) + 2 /\ n = Len(s) + Len(r) + 1
    OBVIOUS
  <2>2. m \in Int /\ n \in Int /\ n - m + 1 = Len(r) /\ (m > n => Len(r) = 0)
    BY <1>1, <2>1
  <2>3. PICK whole : whole = s \o t
    OBVIOUS
  <2>4. \A i \in m..n : whole[i] \in Pieces
    BY <1>1, <1>2, <2>1, <2>3, ElementOfSeq
  <2>5. /\ SubSeq(whole, m, n) \in Seq(Pieces)
        /\ Len(SubSeq(whole, m, n)) = IF m <= n THEN n - m + 1 ELSE 0
        /\ \A i \in 1..n - m + 1 : SubSeq(whole, m, n)[i] = whole[m + i - 1]
    BY <2>2, <2>4, SubSeqProperties
  <2>6. \A i \in 1..Len(r) : whole[m + i - 1] = r[i]
    <3>1. ASSUME NEW i \in 1..Len(r)
          PROVE  m + i - 1 = Len(s) + 1 + i
      BY <1>1, <2>1
    <3>2. QED
      BY <1>2, <2>3, <3>1, Zenon
  <2>7. /\ SubSeq(whole, m, n) \in Seq(Pieces) /\ Len(SubSeq(whole, m, n)) = Len(r)
        /\ \A i \in 1..Len(r) : SubSeq(whole, m, n)[i] = r[i]
    BY <2>2, <2>5, <2>6
  <2>8. QED
    BY <2>1, <2>3, <2>7, Zenon
<1>6. QED
  BY <1>4, <1>5, SeqEqual DEF t

\* TrimRight removes the slashes at the end and nothing before them.
LEMMA TrimSplit ==
    ASSUME NEW s \in Seq(Pieces), NEW t \in Seq(Pieces), s # << >>, s[Len(s)] # "/",
           \A i \in 1..Len(t) : t[i] = "/"
    PROVE  TrimSlashes(s \o t) = s
<1> DEFINE M == {i \in DOMAIN (s \o t) : (s \o t)[i] # "/"} \cup {0}
<1>1. /\ s \o t \in Seq(Pieces) /\ DOMAIN (s \o t) = 1..Len(s) + Len(t)
      /\ \A i \in 1..Len(s) + Len(t) :
            (s \o t)[i] = IF i <= Len(s) THEN s[i] ELSE t[i - Len(s)]
      /\ Len(s) \in Nat \ {0} /\ Len(t) \in Nat
  BY ConcatProperties, LenProperties, EmptySeq
<1>2. M \in SUBSET Int /\ Len(s) \in M
  BY <1>1
<1>3. \A i \in M : Len(s) >= i
  BY <1>1
<1>4. Max(M) = Len(s)
  <2> HIDE DEF M
  <2>1. QED
    BY <1>2, <1>3, MaxIs
<1>5. /\ SubSeq(s \o t, 1, Len(s)) \in Seq(Pieces)
      /\ Len(SubSeq(s \o t, 1, Len(s))) = Len(s)
      /\ \A i \in 1..Len(s) : SubSeq(s \o t, 1, Len(s))[i] = s[i]
  BY <1>1
<1>6. QED
  BY <1>4, <1>5, SeqEqual DEF TrimSlashes

-----------------------------------------------------------------------------
(* The spellings of a page.                                                *)

\* What canonicalize should make of every spelling of a page.
PageUrl(page) ==
    IF "video" \in DOMAIN page THEN <<BasePiece, VideoPiece, page.video>>
    ELSE <<BasePiece>> \o page.path

\* A string is made of pieces, and starts with the mark unless it is empty.
StartsWith(s, mark) == s \in Seq(Pieces) /\ (s = << >> \/ s[1] = mark)

\* The marks are distinct, and no name is one.
LEMMA NamesApart ==
    \A n \in Names : /\ n \in Pieces
                     /\ n \notin Slashes /\ n # BasePiece /\ n # "#" /\ n # "&"
BY NamesAssumption DEF Pieces, Marks, Slashes, BasePiece, VideoPiece

\* Every mark is a piece.
LEMMA MarksArePieces == Marks \subseteq Pieces
BY DEF Pieces

\* Fragments start with a hash.
LEMMA FragmentShape ==
    ASSUME NEW f \in Fragments
    PROVE  StartsWith(f, "#")
<1>1. {"#", "/", "&", VideoPiece} \subseteq Pieces
  BY DEF Pieces, Marks, VideoPiece
<1>2. \/ f = << >> \/ f = <<"#">> \/ f = <<"#", "/">>
      \/ \E n \in Names : f = <<"#", VideoPiece, n>> \/ f = <<"#", n, "&">>
  BY DEF Fragments
<1>3. CASE f = << >> \/ f = <<"#">> \/ f = <<"#", "/">>
  <2>1. << >> \in Seq(Pieces) /\ <<"#">> \in Seq(Pieces) /\ <<"#", "/">> \in Seq(Pieces)
    BY <1>1
  <2>2. <<"#">>[1] = "#" /\ <<"#", "/">>[1] = "#"
    OBVIOUS
  <2>3. QED
    BY <1>3, <2>1, <2>2 DEF StartsWith
<1>4. ASSUME NEW n \in Names, f = <<"#", VideoPiece, n>> \/ f = <<"#", n, "&">>
      PROVE  StartsWith(f, "#")
  <2>1. n \in Pieces
    BY NamesApart
  <2>2. <<"#", VideoPiece, n>> \in Seq(Pieces) /\ <<"#", n, "&">> \in Seq(Pieces)
    BY <1>1, <2>1
  <2>3. <<"#", VideoPiece, n>>[1] = "#" /\ <<"#", n, "&">>[1] = "#"
    OBVIOUS
  <2>4. QED
    BY <1>4, <2>2, <2>3 DEF StartsWith
<1>5. QED
  BY <1>2, <1>3, <1>4

\* Parameters start with an ampersand and hold no hash.
LEMMA ParameterShape ==
    ASSUME NEW a \in Parameters
    PROVE  StartsWith(a, "&") /\ \A i \in 1..Len(a) : a[i] # "#"
<1>1. "&" \in Pieces
  BY DEF Pieces, Marks
<1>2. \/ a = << >> \/ a = <<"&">>
      \/ \E n \in Names : a = <<"&", n>>
      \/ \E n, m \in Names : a = <<"&", n, "&", m>>
  BY DEF Parameters
<1>3. CASE a = << >>
  BY <1>3 DEF StartsWith
<1>4. CASE a = <<"&">>
  BY <1>1, <1>4 DEF StartsWith
<1>5. ASSUME NEW n \in Names, a = <<"&", n>>
      PROVE  StartsWith(a, "&") /\ \A i \in 1..Len(a) : a[i] # "#"
  BY <1>1, <1>5, NamesApart DEF StartsWith
<1>6. ASSUME NEW n \in Names, NEW m \in Names, a = <<"&", n, "&", m>>
      PROVE  StartsWith(a, "&") /\ \A i \in 1..Len(a) : a[i] # "#"
  BY <1>1, <1>6, NamesApart DEF StartsWith
<1>7. QED
  BY <1>2, <1>3, <1>4, <1>5, <1>6

\* The path of a listing holds no hash and no video, and ends in a name.
PathShape(path) ==
    /\ path \in Seq(Pieces)
    /\ \A i \in 1..Len(path) : path[i] # "#" /\ path[i] # VideoPiece
    /\ path # << >> => path[1] = "/" /\ path[2] \in Names /\ path[Len(path)] \in Names

\* The shape of every page.
LEMMA PageShape ==
    ASSUME NEW page \in Pages
    PROVE  \/ \E n \in Names : page = [video |-> n]
           \/ \E path : page = [path |-> path] /\ PathShape(path)
<1>1. {"/", "?"} \subseteq Pieces /\ "/" # "#" /\ "/" # VideoPiece /\ "?" # "#" /\ "?" # VideoPiece
  BY DEF Pieces, Marks, VideoPiece
<1>2. \/ page = [path |-> << >>]
      \/ \E n \in Names : page = [path |-> <<"/", n>>] \/ page = [video |-> n]
      \/ \E n, m \in Names : page = [path |-> <<"/", n, "?", m>>]
  BY DEF Pages
<1>3. PathShape(<< >>)
  BY DEF PathShape
<1>4. ASSUME NEW n \in Names
      PROVE  PathShape(<<"/", n>>)
  BY <1>1, NamesApart DEF PathShape, Slashes
<1>5. ASSUME NEW n \in Names, NEW m \in Names
      PROVE  PathShape(<<"/", n, "?", m>>)
  BY <1>1, NamesApart DEF PathShape, Slashes
<1>6. QED
  BY <1>2, <1>3, <1>4, <1>5

-----------------------------------------------------------------------------
(* From a spelling to its url.                                             *)

\* A string with the mark in front, cut at its end.
LEMMA Prefixed ==
    ASSUME NEW s \in Seq(Pieces), NEW b \in Pieces
    PROVE  /\ <<b>> \o s \in Seq(Pieces) /\ <<b>> \o s # << >>
           /\ Len(<<b>> \o s) = Len(s) + 1 /\ Len(s) \in Nat
           /\ (<<b>> \o s)[1] = b
           /\ \A i \in 1..Len(s) : (<<b>> \o s)[i + 1] = s[i]
           /\ \A i \in 2..Len(s) + 1 : (<<b>> \o s)[i] = s[i - 1]
OBVIOUS

\* The host is a piece without a slash, and canonicalize's marks are distinct.
LEMMA HostApart ==
    /\ {BasePiece, VideoPiece, "#", "&", "/"} \subseteq Pieces
    /\ BasePiece \notin Slashes /\ BasePiece # "#" /\ BasePiece # VideoPiece /\ BasePiece # "/"
    /\ VideoPiece # "#" /\ VideoPiece # "/" /\ "/" # "#"
BY DEF Pieces, Marks, Slashes, BasePiece, VideoPiece

\* The first VideoPattern counts, whatever stands between it and the base url.
LEMMA VideoCanonical ==
    ASSUME NEW n \in Names, NEW before \in Seq(Pieces), NEW after \in Parameters,
           NEW f \in Fragments,
           \A i \in 1..Len(before) : before[i] # "#" /\ before[i] # VideoPiece
    PROVE  canonicalize((<<BasePiece>> \o ((before \o <<VideoPiece, n>>) \o after)) \o f)
              = <<BasePiece, VideoPiece, n>>
<1> DEFINE body == (before \o <<VideoPiece, n>>) \o after
           url == <<BasePiece>> \o body
           host == <<BasePiece>> \o before
           rest == <<n>> \o after
<1>1. /\ after \in Seq(Pieces) /\ (after = << >> \/ after[1] = "&")
      /\ \A i \in 1..Len(after) : after[i] # "#"
      /\ f \in Seq(Pieces) /\ (f = << >> \/ f[1] = "#")
  BY ParameterShape, FragmentShape DEF StartsWith
<1>2. /\ before \in Seq(Pieces)
      /\ \A i \in 1..Len(before) : before[i] # "#" /\ before[i] # VideoPiece
  OBVIOUS
<1>3. n \in Pieces /\ n # "#" /\ n # "&"
  BY NamesApart
<1>4. /\ rest \in Seq(Pieces) /\ rest # << >>
      /\ \A i \in 1..Len(rest) : rest[i] # "#"
  BY <1>1, <1>3
<1>5. /\ host \in Seq(Pieces)
      /\ \A i \in 1..Len(host) : host[i] # "#" /\ host[i] # VideoPiece
  BY <1>2, Prefixed, HostApart
<1>6. url = host \o (<<VideoPiece>> \o rest)
  <2>1. /\ <<BasePiece>> \in Seq(Pieces) /\ <<VideoPiece, n>> \in Seq(Pieces)
        /\ <<VideoPiece>> \in Seq(Pieces) /\ <<n>> \in Seq(Pieces)
    BY <1>3, HostApart
  <2>2. <<VideoPiece, n>> = <<VideoPiece>> \o <<n>>
    OBVIOUS
  <2>3. <<VideoPiece>> \o rest = <<VideoPiece, n>> \o after
    BY <1>1, <2>1, <2>2, ConcatAssociative, SMTT(30)
  <2>4. body = before \o (<<VideoPiece, n>> \o after)
    BY <1>1, <1>2, <2>1, ConcatAssociative, SMTT(30)
  <2>5. <<VideoPiece, n>> \o after \in Seq(Pieces)
    BY <1>1, <2>1, ConcatProperties
  <2>6. url = host \o (<<VideoPiece, n>> \o after)
    BY <1>2, <2>1, <2>4, <2>5, ConcatAssociative, SMTT(30)
  <2>7. QED
    BY <2>3, <2>6
<1> HIDE DEF body, host, rest, url
<1>7. /\ <<VideoPiece>> \o rest \in Seq(Pieces)
      /\ Len(<<VideoPiece>> \o rest) = Len(rest) + 1
      /\ (<<VideoPiece>> \o rest)[1] = VideoPiece
      /\ \A i \in 2..Len(rest) + 1 : (<<VideoPiece>> \o rest)[i] = rest[i - 1]
      /\ Len(rest) \in Nat /\ Len(host) \in Nat
  BY <1>4, <1>5, Prefixed, HostApart, LenProperties
<1> DEFINE tail == <<VideoPiece>> \o rest
<1> HIDE DEF tail
<1>8. /\ url \in Seq(Pieces) /\ Len(url) = Len(host) + Len(rest) + 1
      /\ \A i \in 1..Len(url) : url[i] = IF i <= Len(host) THEN host[i]
                                         ELSE tail[i - Len(host)]
  <2>1. tail \in Seq(Pieces) /\ Len(tail) = Len(rest) + 1 /\ url = host \o tail
    BY <1>6, <1>7 DEF tail
  <2>2. /\ url \in Seq(Pieces) /\ Len(url) = Len(host) + Len(tail)
        /\ \A i \in 1..Len(host) + Len(tail) :
              url[i] = IF i <= Len(host) THEN host[i] ELSE tail[i - Len(host)]
    BY <1>5, <2>1, ConcatProperties
  <2>3. QED
    BY <1>7, <2>1, <2>2
<1>9. \A i \in 1..Len(url) : url[i] # "#"
  <2>1. \A i \in 1..Len(rest) + 1 : tail[i] # "#"
    <3>1. ASSUME NEW i \in 1..Len(rest) + 1
          PROVE  tail[i] # "#"
      <4>1. CASE i = 1
        BY <1>7, <4>1, HostApart DEF tail
      <4>2. CASE i # 1
        BY <1>4, <1>7, <4>2 DEF tail
      <4>3. QED
        BY <4>1, <4>2
    <3>2. QED
      BY <3>1
  <2>2. ASSUME NEW i \in 1..Len(url)
        PROVE  url[i] # "#"
    <3>1. CASE i <= Len(host)
      <4>1. i \in 1..Len(host) /\ url[i] = host[i]
        BY <1>7, <1>8, <3>1
      <4>2. QED
        BY <1>5, <4>1, Zenon
    <3>2. CASE ~(i <= Len(host))
      <4>1. i - Len(host) \in 1..Len(rest) + 1 /\ url[i] = tail[i - Len(host)]
        BY <1>7, <1>8, <3>2
      <4>2. QED
        BY <2>1, <4>1, Zenon
    <3>3. QED
      BY <3>1, <3>2
  <2>3. QED
    BY <2>2
<1>10. url # << >> /\ url[1] = BasePiece
  <2>1. url = <<BasePiece>> \o body /\ body \in Seq(Pieces)
    <3>1. <<VideoPiece, n>> \in Seq(Pieces)
      BY <1>3, HostApart
    <3>2. QED
      BY <1>1, <1>2, <3>1, ConcatProperties DEF body, url
  <2>2. QED
    BY <2>1, Prefixed, HostApart
<1>11. Before(url \o f, "#") = url
  BY <1>1, <1>8, <1>9, BeforeSplit
<1>12. IsVideo(url)
  <2>1. Len(host) + 1 \in DOMAIN url
    BY <1>7, <1>8, LenProperties
  <2>2. url[Len(host) + 1] = VideoPiece
    <3>1. /\ Len(host) + 1 \in 1..Len(url) /\ ~(Len(host) + 1 <= Len(host))
          /\ (Len(host) + 1) - Len(host) = 1
      BY <1>7, <1>8
    <3>2. url[Len(host) + 1] = tail[1]
      BY <1>8, <3>1, Zenon
    <3>3. QED
      BY <1>7, <3>2, Zenon DEF tail
  <2>3. QED
    BY <2>1, <2>2 DEF IsVideo, ToSet
<1>13. After(url, VideoPiece) = rest
  BY <1>4, <1>5, <1>6, HostApart, AfterSplit, SMTT(30)
<1>14. Before(rest, "&") = <<n>>
  BY <1>1, <1>3, BeforeSecond, Zenon DEF rest
<1>15. canonicalize(url \o f) = <<BasePiece, VideoPiece>> \o <<n>>
  BY <1>4, <1>10, <1>11, <1>12, <1>13, <1>14 DEF canonicalize
<1>16. <<BasePiece, VideoPiece>> \o <<n>> = <<BasePiece, VideoPiece, n>>
  BY Tuples, NamesApart, HostApart
<1>17. QED
  BY <1>15, <1>16, Zenon DEF url, body

\* Without VideoPattern all is kept but the fragment and the slashes at the end.
LEMMA ListingCanonical ==
    ASSUME NEW path \in Seq(Pieces),
           \A i \in 1..Len(path) : path[i] # "#" /\ path[i] # VideoPiece,
           path # << >> => path[Len(path)] \in Names,
           NEW after \in {<< >>, <<"/">>, <<"/", "/">>}, NEW f \in Fragments
    PROVE  canonicalize((<<BasePiece>> \o (path \o after)) \o f) = <<BasePiece>> \o path
<1> DEFINE url == <<BasePiece>> \o (path \o after)
           name == <<BasePiece>> \o path
<1>1. /\ path \in Seq(Pieces) /\ Len(path) \in Nat
      /\ \A i \in 1..Len(path) : path[i] # "#" /\ path[i] # VideoPiece
      /\ path # << >> => path[Len(path)] \in Names
      /\ f \in Seq(Pieces) /\ (f = << >> \/ f[1] = "#")
  BY FragmentShape DEF StartsWith
<1>2. after \in Seq(Pieces) /\ Len(after) \in Nat /\ \A i \in 1..Len(after) : after[i] = "/"
  <2>1. "/" \in Pieces
    BY HostApart
  <2>2. CASE after = << >>
    BY <2>2
  <2>3. CASE after = <<"/">>
    BY <2>1, <2>3
  <2>4. CASE after = <<"/", "/">>
    BY <2>1, <2>4
  <2>5. QED
    BY <2>2, <2>3, <2>4
<1>3. /\ name \in Seq(Pieces) /\ name # << >> /\ Len(name) = Len(path) + 1
      /\ name[1] = BasePiece
      /\ \A i \in 2..Len(path) + 1 : name[i] = path[i - 1]
  BY <1>1, Prefixed, HostApart
<1>4. url = name \o after
  <2>1. <<BasePiece>> \in Seq(Pieces)
    BY HostApart
  <2>2. QED
    BY <1>1, <1>2, <2>1, Concatenate, Zenon
<1> HIDE DEF url, name
<1>5. \A i \in 1..Len(name) : name[i] # "#" /\ name[i] # VideoPiece
  <2>1. ASSUME NEW i \in 1..Len(name)
        PROVE  name[i] # "#" /\ name[i] # VideoPiece
    <3>1. CASE i = 1
      BY <1>3, <3>1, HostApart
    <3>2. CASE i # 1
      BY <1>1, <1>3, <3>2, SMTT(30)
    <3>3. QED
      BY <3>1, <3>2
  <2>2. QED
    BY <2>1
<1>6. name[Len(name)] # "/"
  <2>1. CASE path = << >>
    BY <1>1, <1>3, <2>1, HostApart
  <2>2. CASE path # << >>
    <3>1. Len(path) \in Nat \ {0} /\ name[Len(name)] = path[Len(path)]
      BY <1>1, <1>3, <2>2, EmptySeq
    <3>2. QED
      BY <1>1, <2>2, <3>1, NamesApart DEF Slashes
  <2>3. QED
    BY <2>1, <2>2
<1>7. /\ url \in Seq(Pieces) /\ Len(url) = Len(name) + Len(after)
      /\ \A i \in 1..Len(name) + Len(after) :
            url[i] = IF i <= Len(name) THEN name[i] ELSE after[i - Len(name)]
  <2>1. /\ name \o after \in Seq(Pieces) /\ Len(name \o after) = Len(name) + Len(after)
        /\ \A i \in 1..Len(name) + Len(after) :
              (name \o after)[i] = IF i <= Len(name) THEN name[i] ELSE after[i - Len(name)]
    BY <1>2, <1>3, Together, ZenonT(60)
  <2>2. QED
    BY <1>4, <2>1
<1>8. \A i \in 1..Len(url) : url[i] # "#" /\ url[i] # VideoPiece
  <2>1. ASSUME NEW i \in 1..Len(url)
        PROVE  url[i] # "#" /\ url[i] # VideoPiece
    <3>1. CASE i <= Len(name)
      BY <1>1, <1>3, <1>5, <1>7, <2>1, <3>1
    <3>2. CASE ~(i <= Len(name))
      <4>1. url[i] = "/"
        BY <1>1, <1>2, <1>3, <1>7, <2>1, <3>2, SMTT(30)
      <4>2. QED
        BY <4>1, HostApart
    <3>3. QED
      BY <3>1, <3>2
  <2>2. QED
    BY <2>1
<1>9. url # << >> /\ url[1] = BasePiece
  BY <1>1, <1>2, <1>3, <1>7
<1>10. Before(url \o f, "#") = url
  BY <1>1, <1>7, <1>8, BeforeSplit
<1>11. ~IsVideo(url)
  BY <1>7, <1>8, LenProperties DEF IsVideo, ToSet
<1>12. TrimSlashes(url) = name
  BY <1>2, <1>3, <1>4, <1>6, TrimSplit
<1>13. canonicalize(url \o f) = name
  BY <1>9, <1>10, <1>11, <1>12 DEF canonicalize
<1>14. QED
  BY <1>13 DEF url, name

\* extractLink leaves an absolute link alone.
LEMMA AbsoluteLink ==
    ASSUME NEW body \in Seq(Pieces), NEW f \in Fragments
    PROVE  extractLink((<<BasePiece>> \o body) \o f) = (<<BasePiece>> \o body) \o f
<1>1. f \in Seq(Pieces)
  BY FragmentShape DEF StartsWith
<1>2. /\ <<BasePiece>> \o body \in Seq(Pieces) /\ Len(<<BasePiece>> \o body) \in Nat \ {0}
      /\ (<<BasePiece>> \o body)[1] = BasePiece
  BY Prefixed, HostApart
<1>3. ((<<BasePiece>> \o body) \o f)[1] = BasePiece
  BY <1>1, <1>2, ConcatProperties
<1>4. QED
  BY <1>3, HostApart DEF extractLink

\* extractLink completes a root-relative link.
LEMMA RelativeLink ==
    ASSUME NEW body \in Seq(Pieces), Rooted(body), body[1] \in Slashes, NEW f \in Fragments
    PROVE  extractLink(body \o f) = (<<BasePiece>> \o body) \o f
<1>1. f \in Seq(Pieces) /\ (f = << >> \/ f[1] = "#") /\ "#" \notin Slashes
  BY FragmentShape DEF StartsWith, Slashes, VideoPiece
<1>2. Len(body) \in Nat \ {0} /\ Len(f) \in Nat
  BY <1>1, EmptySeq, LenProperties DEF Rooted
<1>3. /\ body \o f \in Seq(Pieces) /\ Len(body \o f) = Len(body) + Len(f)
      /\ \A i \in 1..Len(body) + Len(f) :
            (body \o f)[i] = IF i <= Len(body) THEN body[i] ELSE f[i - Len(body)]
  BY <1>1, ConcatProperties
<1>4. body \o f # << >> /\ (body \o f)[1] = body[1]
  BY <1>2, <1>3
<1>5. Len(body \o f) > 1 => (body \o f)[2] \notin Slashes
  <2>1. CASE Len(body) > 1
    BY <1>2, <1>3, <2>1 DEF Rooted
  <2>2. CASE Len(body) = 1
    <3>1. SUFFICES ASSUME Len(body \o f) > 1
                   PROVE  (body \o f)[2] \notin Slashes
      OBVIOUS
    <3>2. Len(f) > 0 /\ (body \o f)[2] = f[1]
      BY <1>2, <1>3, <2>2, <3>1
    <3>3. f # << >>
      BY <3>2
    <3>4. QED
      BY <1>1, <3>2, <3>3
  <2>3. Len(body) > 1 \/ Len(body) = 1
    <3>1. \A k \in Nat \ {0} : k > 1 \/ k = 1
      OBVIOUS
    <3>2. QED
      BY <1>2, <3>1, Zenon
  <2>4. QED
    BY <2>1, <2>2, <2>3
<1>6. extractLink(body \o f) = <<BasePiece>> \o (body \o f)
  BY <1>4, <1>5 DEF extractLink
<1>7. <<BasePiece>> \in Seq(Pieces)
  BY HostApart
<1>8. QED
  BY <1>1, <1>6, <1>7, Concatenate, Zenon

-----------------------------------------------------------------------------
(* One page, one url.                                                      *)

\* Set comprehensions over two strings around one.
LEMMA Around ==
    ASSUME NEW m, NEW S, NEW T, NEW x
    PROVE  x \in {s \o m \o t : s \in S, t \in T} <=>
              \E s \in S, t \in T : x = (s \o m) \o t
OBVIOUS

\* The bodies of a video's links.
LEMMA VideoBody ==
    ASSUME NEW n \in Names, NEW before \in {<< >>, <<"/">>}, NEW after \in Parameters
    PROVE  /\ (before \o <<VideoPiece, n>>) \o after \in Seq(Pieces)
           /\ ((before \o <<VideoPiece, n>>) \o after)[1] \in Slashes
<1>1. /\ <<VideoPiece, n>> \in Seq(Pieces) /\ after \in Seq(Pieces)
      /\ <<"/">> \in Seq(Pieces) /\ << >> \in Seq(Pieces)
  BY HostApart, NamesApart, ParameterShape DEF StartsWith
<1> DEFINE front == before \o <<VideoPiece, n>>
<1>2. front \in Seq(Pieces) /\ Len(front) \in Nat \ {0} /\ front[1] \in Slashes
  <2>1. CASE before = << >>
    <3>1. front = <<VideoPiece, n>>
      BY <1>1, <2>1, ConcatEmptySeq
    <3>2. <<VideoPiece, n>>[1] \in Slashes /\ Len(<<VideoPiece, n>>) \in Nat \ {0}
      BY DEF Slashes
    <3> HIDE DEF front
    <3>3. QED
      BY <1>1, <3>1, <3>2
  <2>2. CASE before = <<"/">>
    <3>1. front \in Seq(Pieces) /\ Len(front) = 3 /\ front[1] = "/"
      BY <1>1, <2>2
    <3>2. QED
      BY <3>1 DEF Slashes
  <2>3. QED
    BY <2>1, <2>2
<1> HIDE DEF front
<1>3. front \o after \in Seq(Pieces) /\ (front \o after)[1] = front[1]
  <2>1. Len(after) \in Nat
    BY <1>1, LenProperties
  <2>2. 1 \in 1..Len(front) + Len(after) /\ 1 <= Len(front)
    BY <1>2, <2>1
  <2>3. QED
    BY <1>1, <1>2, <2>2, ConcatProperties
<1>4. QED
  BY <1>2, <1>3 DEF front

\* The bodies of a listing's links.
LEMMA ListingBody ==
    ASSUME NEW path, PathShape(path), NEW after \in {<< >>, <<"/">>, <<"/", "/">>}
    PROVE  /\ path \o after \in Seq(Pieces)
           /\ Rooted(path \o after) => (path \o after)[1] \in Slashes
<1>1. path \in Seq(Pieces) /\ (path # << >> => path[1] = "/")
  BY DEF PathShape
<1>2. after \in Seq(Pieces) /\ (after # << >> => after[1] = "/")
  <2>1. "/" \in Pieces
    BY HostApart
  <2>2. CASE after = << >>
    BY <2>2
  <2>3. CASE after = <<"/">>
    BY <2>1, <2>3
  <2>4. CASE after = <<"/", "/">>
    BY <2>1, <2>4
  <2>5. QED
    BY <2>2, <2>3, <2>4
<1>3. CASE path = << >>
  <2>1. path \o after = after
    BY <1>2, <1>3, ConcatEmptySeq
  <2>2. QED
    BY <1>2, <2>1 DEF Rooted, Slashes
<1>4. CASE path # << >>
  <2>1. Len(path) \in Nat \ {0} /\ Len(after) \in Nat
    BY <1>1, <1>2, <1>4, EmptySeq, LenProperties
  <2>2. 1 \in 1..Len(path) + Len(after) /\ 1 <= Len(path)
    BY <2>1
  <2>3. path \o after \in Seq(Pieces) /\ (path \o after)[1] = path[1]
    BY <1>1, <1>2, <2>2, ConcatProperties
  <2>4. QED
    BY <1>1, <1>4, <2>3 DEF Slashes
<1>5. QED
  BY <1>3, <1>4

\* Whatever the body, with the host in front canonicalize makes it the url.
LEMMA BodyCanonical ==
    ASSUME NEW page \in Pages, NEW body \in Bodies(page)
    PROVE  /\ body \in Seq(Pieces)
           /\ Rooted(body) => body[1] \in Slashes
           /\ \A f \in Fragments : canonicalize((<<BasePiece>> \o body) \o f) = PageUrl(page)
<1>1. ASSUME NEW n \in Names, page = [video |-> n]
      PROVE  /\ body \in Seq(Pieces) /\ body[1] \in Slashes
             /\ \A f \in Fragments :
                   canonicalize((<<BasePiece>> \o body) \o f) = PageUrl(page)
  <2>1. "video" \in DOMAIN page /\ page.video = n
    BY <1>1
  <2>2. PICK before \in {<< >>, <<"/">>}, after \in Parameters :
           body = (before \o <<VideoPiece, n>>) \o after
    <3>1. PICK m, S : m = <<VideoPiece, n>> /\ S = {<< >>, <<"/">>}
      OBVIOUS
    <3>2. Bodies(page) = {s \o m \o t : s \in S, t \in Parameters}
      BY <2>1, <3>1 DEF Bodies
    <3>3. \E s \in S, t \in Parameters : body = (s \o m) \o t
      BY <3>2, Around, SMTT(30)
    <3>4. QED
      BY <3>1, <3>3
  <2>3. PageUrl(page) = <<BasePiece, VideoPiece, n>>
    BY <2>1 DEF PageUrl
  <2>4. QED
    <3>1. /\ before \in Seq(Pieces)
          /\ \A i \in 1..Len(before) : before[i] # "#" /\ before[i] # VideoPiece
      <4>1. "/" \in Pieces /\ "/" # "#" /\ "/" # VideoPiece
        BY HostApart
      <4>2. CASE before = << >>
        BY <4>2
      <4>3. CASE before = <<"/">>
        BY <4>1, <4>3
      <4>4. QED
        BY <2>2, <4>2, <4>3
    <3>2. QED
      BY <2>2, <2>3, <3>1, VideoBody, VideoCanonical
<1>2. ASSUME NEW path, page = [path |-> path], PathShape(path)
      PROVE  /\ body \in Seq(Pieces)
             /\ Rooted(body) => body[1] \in Slashes
             /\ \A f \in Fragments :
                   canonicalize((<<BasePiece>> \o body) \o f) = PageUrl(page)
  <2>1. "video" \notin DOMAIN page /\ page.path = path
    BY <1>2
  <2>2. PICK after \in {<< >>, <<"/">>, <<"/", "/">>} : body = path \o after
    BY <2>1 DEF Bodies
  <2>3. PageUrl(page) = <<BasePiece>> \o path
    BY <2>1 DEF PageUrl
  <2>4. QED
    <3>1. /\ path \in Seq(Pieces)
          /\ \A i \in 1..Len(path) : path[i] # "#" /\ path[i] # VideoPiece
          /\ path # << >> => path[Len(path)] \in Names
      BY <1>2 DEF PathShape
    <3>2. QED
      BY <1>2, <2>2, <2>3, <3>1, ListingBody, ListingCanonical
<1>3. QED
  BY <1>1, <1>2, PageShape

\* worker.go, admitURL: every spelling of a page, absolute or root-relative,
\* with or without a fragment, further parameters or slashes at its end, leads
\* to one url.
THEOREM OneKeyPerPage ==
    \A page \in Pages : Keys[page] = {PageUrl(page)}
<1> SUFFICES ASSUME NEW page \in Pages
             PROVE  Keys[page] = {PageUrl(page)}
  OBVIOUS
<1>1. ASSUME NEW s \in Spellings(page)
      PROVE  Key(s) = PageUrl(page)
  <2>1. ASSUME NEW body \in Bodies(page), NEW f \in Fragments,
               s = (<<BasePiece>> \o body) \o f
        PROVE  Key(s) = PageUrl(page)
    <3>1. extractLink((<<BasePiece>> \o body) \o f) = (<<BasePiece>> \o body) \o f
      BY BodyCanonical, AbsoluteLink
    <3>2. QED
      BY <2>1, <3>1, BodyCanonical DEF Key
  <2>2. ASSUME NEW body \in Bodies(page), Rooted(body), NEW f \in Fragments, s = body \o f
        PROVE  Key(s) = PageUrl(page)
    <3>1. extractLink(body \o f) = (<<BasePiece>> \o body) \o f
      BY <2>2, BodyCanonical, RelativeLink
    <3>2. QED
      BY <2>2, <3>1, BodyCanonical DEF Key
  <2>3. CASE s \in {<<BasePiece>> \o body \o f : body \in Bodies(page), f \in Fragments}
    BY <2>1, <2>3, SMTT(30)
  <2>4. CASE s \in {body \o f : body \in {b \in Bodies(page) : Rooted(b)}, f \in Fragments}
    BY <2>2, <2>4
  <2>5. QED
    BY <2>3, <2>4, SMTT(30) DEF Spellings
<1>2. Spellings(page) # {}
  <2>1. << >> \in Fragments /\ << >> \in Parameters
    BY DEF Fragments, Parameters
  <2>2. PICK body : body \in Bodies(page)
    <3>1. CASE "video" \in DOMAIN page
      <4>1. PICK m, S : m = <<VideoPiece, page.video>> /\ S = {<< >>, <<"/">>}
        OBVIOUS
      <4>2. Bodies(page) = {s \o m \o t : s \in S, t \in Parameters} /\ << >> \in S
        BY <3>1, <4>1 DEF Bodies
      <4>3. ASSUME NEW s \in S, NEW t \in Parameters
            PROVE  (s \o m) \o t \in Bodies(page)
        BY <4>2, <4>3
      <4>4. QED
        BY <2>1, <4>2, <4>3
    <3>2. CASE "video" \notin DOMAIN page
      <4>1. page.path \o << >> \in Bodies(page)
        BY <3>2 DEF Bodies
      <4>2. QED
        BY <4>1
    <3>3. QED
      BY <3>1, <3>2
  <2>3. (<<BasePiece>> \o body) \o << >> \in Spellings(page)
    BY <2>1, <2>2 DEF Spellings
  <2>4. QED
    BY <2>3
<1>3. Keys[page] = {Key(s) : s \in Spellings(page)}
  BY DEF Keys
<1>4. QED
  BY <1>1, <1>2, <1>3

\* No two pages share a url, and canonicalize tells videos and listings apart.
LEMMA PageUrlApart ==
    ASSUME NEW p \in Pages, NEW q \in Pages, PageUrl(p) = PageUrl(q)
    PROVE  p = q
<1>1. ASSUME NEW n \in Names, NEW m \in Names, p = [video |-> n], q = [video |-> m]
      PROVE  p = q
  <2>1. PageUrl(p) = <<BasePiece, VideoPiece, n>> /\ PageUrl(q) = <<BasePiece, VideoPiece, m>>
    BY <1>1 DEF PageUrl
  <2>2. <<BasePiece, VideoPiece, n>>[3] = n /\ <<BasePiece, VideoPiece, m>>[3] = m
    OBVIOUS
  <2>3. n = m
    BY <2>1, <2>2, Zenon
  <2>4. QED
    BY <1>1, <2>3
<1>2. ASSUME NEW n \in Names, NEW path, PathShape(path)
      PROVE  PageUrl([video |-> n]) # PageUrl([path |-> path])
  <2>1. PageUrl([video |-> n]) = <<BasePiece, VideoPiece, n>>
    BY DEF PageUrl
  <2>2. PageUrl([path |-> path]) = <<BasePiece>> \o path
    BY DEF PageUrl
  <2>3. path \in Seq(Pieces) /\ \A i \in 1..Len(path) : path[i] # VideoPiece
    BY <1>2 DEF PathShape
  <2>4. SUFFICES ASSUME <<BasePiece>> \o path = <<BasePiece, VideoPiece, n>>
                 PROVE  FALSE
    BY <2>1, <2>2
  <2>5. /\ Len(<<BasePiece>> \o path) = Len(path) + 1 /\ Len(path) \in Nat
        /\ \A i \in 1..Len(path) : (<<BasePiece>> \o path)[i + 1] = path[i]
    BY <2>3, Prefixed, HostApart
  <2>6. Len(<<BasePiece, VideoPiece, n>>) = 3 /\ <<BasePiece, VideoPiece, n>>[2] = VideoPiece
    OBVIOUS
  <2> DEFINE url == <<BasePiece>> \o path
  <2>7. Len(url) = 3 /\ url[2] = VideoPiece
    BY <2>4, <2>6, Zenon
  <2>8. 1 \in 1..Len(path) /\ url[1 + 1] = path[1]
    <3>1. Len(path) + 1 = 3
      BY <2>5, <2>7, Zenon
    <3>2. 1 \in 1..Len(path)
      BY <2>5, <3>1
    <3>3. QED
      BY <2>5, <3>2
  <2>9. path[1] = VideoPiece
    BY <2>7, <2>8
  <2>10. QED
    BY <2>3, <2>8, <2>9
<1>3. ASSUME NEW path, NEW road, PathShape(path), PathShape(road),
             p = [path |-> path], q = [path |-> road]
      PROVE  p = q
  <2>1. PageUrl(p) = <<BasePiece>> \o path /\ PageUrl(q) = <<BasePiece>> \o road
    BY <1>3 DEF PageUrl
  <2>2. path \in Seq(Pieces) /\ road \in Seq(Pieces) /\ <<BasePiece>> \in Seq(Pieces)
    BY <1>3, HostApart DEF PathShape
  <2>3. path = road
    BY <2>1, <2>2, ConcatSimplifications
  <2>4. QED
    BY <1>3, <2>3
<1>4. QED
  BY <1>1, <1>2, <1>3, PageShape

\* The url of a page holds VideoPattern just when the page is a video.
LEMMA VideoUrls ==
    ASSUME NEW page \in Pages
    PROVE  IsVideo(PageUrl(page)) <=> "video" \in DOMAIN page
<1>1. ASSUME NEW n \in Names, page = [video |-> n]
      PROVE  IsVideo(PageUrl(page)) /\ "video" \in DOMAIN page
  <2>1. PageUrl(page) = <<BasePiece, VideoPiece, n>> /\ "video" \in DOMAIN page
    BY <1>1 DEF PageUrl
  <2>2. 2 \in DOMAIN <<BasePiece, VideoPiece, n>> /\ <<BasePiece, VideoPiece, n>>[2] = VideoPiece
    OBVIOUS
  <2>3. QED
    BY <2>1, <2>2 DEF IsVideo, ToSet
<1>2. ASSUME NEW path, page = [path |-> path], PathShape(path)
      PROVE  ~IsVideo(PageUrl(page)) /\ "video" \notin DOMAIN page
  <2>1. PageUrl(page) = <<BasePiece>> \o path /\ "video" \notin DOMAIN page
    BY <1>2 DEF PageUrl
  <2>2. path \in Seq(Pieces) /\ \A i \in 1..Len(path) : path[i] # VideoPiece
    BY <1>2 DEF PathShape
  <2>3. /\ <<BasePiece>> \o path \in Seq(Pieces)
        /\ Len(<<BasePiece>> \o path) = Len(path) + 1 /\ Len(path) \in Nat
        /\ (<<BasePiece>> \o path)[1] = BasePiece
        /\ \A i \in 2..Len(path) + 1 : (<<BasePiece>> \o path)[i] = path[i - 1]
    BY <2>2, Prefixed, HostApart
  <2>4. ASSUME NEW i \in 1..Len(path) + 1
        PROVE  (<<BasePiece>> \o path)[i] # VideoPiece
    <3>1. CASE i = 1
      BY <2>3, <3>1, HostApart
    <3>2. CASE i # 1
      BY <2>2, <2>3, <3>2
    <3>3. QED
      BY <3>1, <3>2
  <2>5. DOMAIN (<<BasePiece>> \o path) = 1..Len(path) + 1
    BY <2>3, LenProperties
  <2>6. QED
    BY <2>1, <2>4, <2>5 DEF IsVideo, ToSet
<1>3. QED
  BY <1>1, <1>2, PageShape

\* A link without a hash that does not start with the host has no url.
LEMMA StrayKey ==
    ASSUME NEW s \in Seq(Pieces), s # << >>, s[1] # BasePiece,
           \A i \in 1..Len(s) : s[i] # "#"
    PROVE  canonicalize(s) = Skip
<1>1. << >> \in Seq(Pieces) /\ s \o << >> = s
  BY ConcatEmptySeq
<1>2. Before(s \o << >>, "#") = s
  BY <1>1, BeforeSplit, ZenonT(60)
<1>3. QED
  BY <1>1, <1>2 DEF canonicalize

\* Neither has a fragment.
LEMMA FragmentKey ==
    ASSUME NEW f \in Fragments
    PROVE  Key(f) = Skip
<1>1. f \in Seq(Pieces) /\ (f = << >> \/ f[1] = "#") /\ "#" \notin Slashes
  BY FragmentShape DEF StartsWith, Slashes, VideoPiece
<1>2. extractLink(f) = f
  BY <1>1 DEF extractLink
<1>3. Before(f, "#") = << >>
  BY <1>1, BeforeFirst
<1>4. canonicalize(f) = Skip
  BY <1>3 DEF canonicalize
<1>5. QED
  BY <1>2, <1>4 DEF Key

\* The key of an absolute link, the link being put together as canonicalize
\* takes it apart.
LEMMA AbsoluteKey ==
    ASSUME NEW body \in Seq(Pieces)
    PROVE  Key(<<BasePiece>> \o body) = canonicalize((<<BasePiece>> \o body) \o << >>)
<1>1. << >> \in Fragments
  BY DEF Fragments
<1>2. <<BasePiece>> \o body \in Seq(Pieces)
  BY HostApart, Prefixed
<1>3. (<<BasePiece>> \o body) \o << >> = <<BasePiece>> \o body
  BY <1>2, ConcatEmptySeq
<1>4. QED
  BY <1>1, <1>3, AbsoluteLink DEF Key

\* A host that begins with the base url passes for it.
LEMMA PrefixHostKey ==
    ASSUME NEW tail \in HostTails
    PROVE  Key(<<BasePiece>> \o tail) # Skip
<1>1. << >> \in Fragments /\ << >> \in Parameters
  BY DEF Fragments, Parameters
<1>2. ASSUME NEW path \in Seq(Pieces),
             \A i \in 1..Len(path) : path[i] # "#" /\ path[i] # VideoPiece,
             path # << >>, path[Len(path)] \in Names,
             NEW after \in {<< >>, <<"/">>}, tail = path \o after
      PROVE  Key(<<BasePiece>> \o tail) # Skip
  <2>1. after \in Seq(Pieces) /\ after \in {<< >>, <<"/">>, <<"/", "/">>}
    <3>1. << >> \in Seq(Pieces) /\ <<"/">> \in Seq(Pieces)
      BY HostApart
    <3>2. after = << >> \/ after = <<"/">>
      BY <1>2
    <3>3. QED
      BY <3>1, <3>2, Zenon
  <2>2. path \o after \in Seq(Pieces)
    BY <2>1, ConcatProperties, Zenon
  <2>3. canonicalize((<<BasePiece>> \o (path \o after)) \o << >>) = <<BasePiece>> \o path
    BY <1>1, <1>2, <2>1, ListingCanonical, Zenon
  <2>4. Key(<<BasePiece>> \o tail) = <<BasePiece>> \o path
    BY <1>2, <2>2, <2>3, AbsoluteKey, Zenon
  <2>5. <<BasePiece>> \o path # << >>
    BY Prefixed, HostApart
  <2>6. QED
    BY <2>4, <2>5, Zenon DEF Skip
<1>3. ASSUME NEW n \in Names, tail = <<n>> \/ tail = <<n, "/">>
      PROVE  Key(<<BasePiece>> \o tail) # Skip
  <2>1. /\ n \in Pieces /\ n # "#" /\ n # VideoPiece
        /\ <<n>> \in Seq(Pieces)
    BY NamesApart DEF Slashes
  <2>2. tail = <<n>> \o << >> \/ tail = <<n>> \o <<"/">>
    BY <1>3, <2>1, Tuples, HostApart, ConcatEmptySeq
  <2>3. /\ \A i \in 1..Len(<<n>>) : <<n>>[i] # "#" /\ <<n>>[i] # VideoPiece
        /\ <<n>> # << >> /\ <<n>>[Len(<<n>>)] \in Names
    BY <2>1
  <2>4. QED
    BY <1>2, <2>1, <2>2, <2>3, Zenon
<1>4. ASSUME NEW n \in Names, NEW m \in Names, tail = <<n, "/", m>>
      PROVE  Key(<<BasePiece>> \o tail) # Skip
  <2>1. /\ n \in Pieces /\ n # "#" /\ n # VideoPiece
        /\ m \in Pieces /\ m # "#" /\ m # VideoPiece
        /\ "/" \in Pieces /\ "/" # "#" /\ "/" # VideoPiece
    BY NamesApart, HostApart DEF Slashes
  <2>2. tail \in Seq(Pieces) /\ Len(tail) = 3 /\ tail # << >>
        /\ tail[1] = n /\ tail[2] = "/" /\ tail[3] = m
    BY <1>4, <2>1
  <2>3. \A i \in 1..Len(tail) : tail[i] # "#" /\ tail[i] # VideoPiece
    BY <2>1, <2>2
  <2>4. tail = tail \o << >>
    BY <2>2, ConcatEmptySeq
  <2>5. QED
    BY <1>2, <2>2, <2>3, <2>4, Zenon
<1>5. ASSUME NEW n \in Names, NEW m \in Names, tail = <<n, VideoPiece, m>>
      PROVE  Key(<<BasePiece>> \o tail) # Skip
  <2>1. /\ n \in Pieces /\ m \in Pieces /\ n # "#" /\ n # VideoPiece
        /\ VideoPiece \in Pieces
    BY NamesApart, HostApart DEF Slashes
  <2>2. <<n>> \in Seq(Pieces) /\ tail \in Seq(Pieces)
    BY <1>5, <2>1
  <2>3. \A i \in 1..Len(<<n>>) : <<n>>[i] # "#" /\ <<n>>[i] # VideoPiece
    BY <2>1
  <2>4. (<<n>> \o <<VideoPiece, m>>) \o << >> = tail
    BY <1>5, <2>1, <2>2, Tuples, ConcatEmptySeq
  <2>5. canonicalize((<<BasePiece>> \o tail) \o << >>) = <<BasePiece, VideoPiece, m>>
    BY <1>1, <2>2, <2>3, <2>4, VideoCanonical, Zenon
  <2>6. Key(<<BasePiece>> \o tail) = <<BasePiece, VideoPiece, m>>
    BY <2>2, <2>5, AbsoluteKey, Zenon
  <2>7. <<BasePiece, VideoPiece, m>> # << >>
    OBVIOUS
  <2>8. QED
    BY <2>6, <2>7, Zenon DEF Skip
<1>6. QED
  BY <1>3, <1>4, <1>5 DEF HostTails

\* crawler.go:97, of the links that leave the site or lead nowhere exactly those
\* have a url whose host begins with the base url: HasPrefix tells no more.
THEOREM StraysSkipped == Strays = PrefixHosts
<1>1. {"other", "/", VideoPiece} \subseteq Pieces \ {"#", BasePiece} /\ "other" \notin Slashes
  BY DEF Pieces, Marks, BasePiece, VideoPiece, Slashes
<1>2. ASSUME NEW n \in Names
      PROVE  Key(<<"other", VideoPiece, n>>) = Skip
  <2>1. extractLink(<<"other", VideoPiece, n>>) = <<"other", VideoPiece, n>>
    BY <1>1 DEF extractLink
  <2>2. canonicalize(<<"other", VideoPiece, n>>) = Skip
    <3>1. <<"other", VideoPiece, n>> \in Seq(Pieces) /\ <<"other", VideoPiece, n>> # << >>
      BY <1>1, NamesApart
    <3>2. /\ <<"other", VideoPiece, n>>[1] # BasePiece
          /\ \A i \in 1..Len(<<"other", VideoPiece, n>>) : <<"other", VideoPiece, n>>[i] # "#"
      BY <1>1, NamesApart
    <3>3. QED
      BY <3>1, <3>2, StrayKey
  <2>3. QED
    BY <2>1, <2>2 DEF Key
<1>3. ASSUME NEW n \in Names, NEW second \in Slashes
      PROVE  Key(<<"/", second, n>>) = Skip
  <2>1. second \in Pieces /\ second # "#" /\ "/" # BasePiece
    BY <1>1, HostApart DEF Slashes
  <2>2. extractLink(<<"/", second, n>>) = <<"/", second, n>>
    BY DEF extractLink
  <2>3. canonicalize(<<"/", second, n>>) = Skip
    <3>1. <<"/", second, n>> \in Seq(Pieces) /\ <<"/", second, n>> # << >>
      BY <1>1, <2>1, NamesApart
    <3>2. /\ <<"/", second, n>>[1] # BasePiece
          /\ \A i \in 1..Len(<<"/", second, n>>) : <<"/", second, n>>[i] # "#"
      BY <1>1, <2>1, NamesApart
    <3>3. QED
      BY <3>1, <3>2, StrayKey
  <2>4. QED
    BY <2>2, <2>3 DEF Key
<1>4. ASSUME NEW n \in Names
      PROVE  Key(<<n>>) = Skip
  <2>1. extractLink(<<n>>) = <<n>>
    BY NamesApart DEF extractLink
  <2>2. canonicalize(<<n>>) = Skip
    <3>1. <<n>> \in Seq(Pieces) /\ <<n>> # << >>
      BY NamesApart
    <3>2. /\ <<n>>[1] # BasePiece
          /\ \A i \in 1..Len(<<n>>) : <<n>>[i] # "#"
      BY NamesApart
    <3>3. QED
      BY <3>1, <3>2, StrayKey
  <2>3. QED
    BY <2>1, <2>2 DEF Key
<1>5. ASSUME NEW s \in Elsewhere, s \notin PrefixHosts
      PROVE  Key(s) = Skip
  <2>1. \/ \E n \in Names : \/ s = <<"other", VideoPiece, n>> \/ s = <<n>>
                            \/ \E second \in Slashes : s = <<"/", second, n>>
        \/ s \in Fragments
    BY <1>5 DEF Elsewhere, Slashes
  <2>2. QED
    BY <1>2, <1>3, <1>4, <2>1, FragmentKey
<1>6. PrefixHosts \subseteq Elsewhere
  BY DEF Elsewhere
<1>7. ASSUME NEW s \in PrefixHosts
      PROVE  Key(s) # Skip
  BY PrefixHostKey DEF PrefixHosts
<1>8. QED
  BY <1>5, <1>6, <1>7 DEF Strays

-----------------------------------------------------------------------------
(* Nothing enters the crawl but by a link, or as the base url.             *)

LinkedUrls == {BaseUrl} \cup UNION {Range(Links[u]) : u \in URL}

FrontierLinked ==
    /\ \A j \in ready : j.url \in LinkedUrls
    /\ \A j \in processing : j.url \in LinkedUrls
    /\ \A j \in DOMAIN delayed : j.url \in LinkedUrls
    /\ \A j \in DOMAIN lease : j.url \in LinkedUrls
    /\ \A w \in Workers : holds[w] # NoJob => holds[w].url \in LinkedUrls
    /\ bloom \cup DOMAIN listingNext \cup DOMAIN dead \subseteq LinkedUrls

OnlyLinked ==
    /\ FrontierLinked
    /\ stored \subseteq LinkedUrls
    /\ \A w \in Workers : Range(links[w]) \subseteq LinkedUrls

\* A sorted set holds what is added to it, and no more than it held otherwise.
LEMMA Added ==
    ASSUME NEW z, NEW e, NEW score
    PROVE  DOMAIN Q!ZAdd(z, e, score) = DOMAIN z \cup {e}
BY DEF Q!ZAdd

\* The other way about.
LEMMA Removed ==
    ASSUME NEW z, NEW S
    PROVE  DOMAIN Q!ZRem(z, S) \subseteq DOMAIN z
BY DEF Q!ZRem, Q!Restrict

\* Members requeued from a page are of the urls of its members.
LEMMA RequeuedUrls ==
    ASSUME NEW S, NEW n, NEW b, \A i \in 1..n : b[i] \in S,
           ready' = ready \cup Q!Minted([i \in 1..n |-> b[i].url], n)
    PROVE  \A j \in ready' : j \in ready \/ \E k \in S : j.url = k.url
BY DEF Q!Minted

\* An admission brings in its own url.
LEMMA AdmitLinked ==
    ASSUME FrontierLinked, NEW u \in LinkedUrls, AdmitCall(u)
    PROVE  FrontierLinked'
<1>1. CASE UNCHANGED frontier
  BY <1>1 DEF FrontierLinked, frontier
<1>2. ASSUME NEW t, Q!AdmitVideo(u, t)
      PROVE  FrontierLinked'
  <2>1. /\ ready' \subseteq ready \cup {Q!Mint(u)} /\ bloom' \subseteq bloom \cup {u}
        /\ DOMAIN dead' \subseteq DOMAIN dead
        /\ UNCHANGED <<processing, lease, delayed, listingNext, holds>>
    BY <1>2, Removed DEF Q!AdmitVideo, Q!VideoSuppressed, Q!VideoNew, Q!VideoUnclaimed
  <2>2. QED
    BY <2>1 DEF FrontierLinked, Q!Mint
<1>3. ASSUME NEW t, Q!AdmitListing(u, t)
      PROVE  FrontierLinked'
  <2>1. /\ ready' \subseteq ready \cup {Q!Mint(u)}
        /\ DOMAIN dead' \subseteq DOMAIN dead
        /\ DOMAIN listingNext' \subseteq DOMAIN listingNext \cup {u}
        /\ UNCHANGED <<processing, lease, delayed, bloom, holds>>
    <3>1. /\ dead' = Q!ZRem(dead, {u})
          /\ \/ /\ ready' = ready \cup {Q!Mint(u)}
                /\ listingNext' = Q!ZAdd(listingNext, u, PendingScore)
             \/ ready' = ready /\ listingNext' = listingNext
          /\ UNCHANGED <<processing, lease, delayed, bloom, holds>>
      BY <1>3 DEF Q!AdmitListing
    <3>2. DOMAIN Q!ZAdd(listingNext, u, PendingScore) = DOMAIN listingNext \cup {u}
      BY Added
    <3>3. DOMAIN Q!ZRem(dead, {u}) \subseteq DOMAIN dead
      BY Removed
    <3>4. QED
      BY <3>1, <3>2, <3>3
  <2>2. QED
    BY <2>1 DEF FrontierLinked, Q!Mint
<1>4. QED
  BY <1>1, <1>2, <1>3 DEF AdmitCall

\* A resolution moves the url of the job it ends.
LEMMA ResolutionLinked ==
    ASSUME Q!TypeOK, FrontierLinked, NEW w \in Workers, Q!Owns(w), Q!Release(w),
           \A j \in ready' : j \in ready \/ j.url = holds[w].url,
           \A j \in DOMAIN delayed' : j \in DOMAIN delayed \/ j.url = holds[w].url,
           DOMAIN listingNext' \subseteq DOMAIN listingNext \cup {holds[w].url},
           DOMAIN dead' \subseteq DOMAIN dead \cup {holds[w].url},
           bloom' = bloom
    PROVE  FrontierLinked'
<1>1. holds[w].url \in LinkedUrls
  BY DEF Q!Owns, FrontierLinked
<1>2. /\ DOMAIN lease' \subseteq DOMAIN lease /\ processing' \subseteq processing
      /\ \A v \in Workers : holds'[v] # NoJob => holds'[v] = holds[v]
  BY Removed DEF Q!Release, Q!TypeOK
<1>3. /\ \A j \in ready' : j.url \in LinkedUrls
      /\ \A j \in DOMAIN delayed' : j.url \in LinkedUrls
  BY <1>1 DEF FrontierLinked
<1>4. QED
  BY <1>1, <1>2, <1>3 DEF FrontierLinked

\* Death writes under the url of the job.
LEMMA Buried ==
    ASSUME NEW u, NEW until, Q!Bury(u, until)
    PROVE  /\ DOMAIN listingNext' \subseteq DOMAIN listingNext \cup {u}
           /\ DOMAIN dead' \subseteq DOMAIN dead \cup {u}
BY Added DEF Q!Bury

\* So no call of a worker about its job brings in a url.
LEMMA WorkLinked ==
    ASSUME Q!TypeOK, FrontierLinked, Q!Work
    PROVE  FrontierLinked'
<1>1. ASSUME NEW w \in Workers, Q!LeaseNothing(w) \/ Q!Drop(w)
      PROVE  FrontierLinked'
  BY <1>1 DEF Q!LeaseNothing, Q!Drop, Q!vars, Q!TypeOK, FrontierLinked
<1>2. ASSUME NEW w \in Workers, NEW t, Q!Lease(w, t)
      PROVE  FrontierLinked'
  <2>1. PICK j \in ready :
           /\ ready' = ready \ {j} /\ processing' = processing \cup {j}
           /\ lease' = Q!ZAdd(lease, j, t + LeaseTimeout)
           /\ holds' = [holds EXCEPT ![w] = j]
           /\ UNCHANGED <<delayed, dead, listingNext, bloom>>
    BY <1>2 DEF Q!Lease
  <2>0. DOMAIN lease' = DOMAIN lease \cup {j}
    BY <2>1, Added
  <2>2. \A v \in Workers : holds'[v] = holds[v] \/ holds'[v] = j
    BY <2>1 DEF Q!TypeOK
  <2>3. QED
    BY <2>0, <2>1, <2>2 DEF FrontierLinked
<1>3. ASSUME NEW w \in Workers, Q!Ack(w) \/ Q!Nack(w)
      PROVE  FrontierLinked'
  <2>1. /\ Q!Owns(w) /\ Q!Release(w)
        /\ \A j \in ready' : j \in ready \/ j.url = holds[w].url
        /\ UNCHANGED <<delayed, dead, listingNext, bloom>>
    BY <1>3 DEF Q!Ack, Q!Nack, Q!Mint
  <2>2. QED
    BY <2>1, ResolutionLinked
<1>4. ASSUME NEW w \in Workers, NEW t, Q!Terminal(w, t)
      PROVE  FrontierLinked'
  <2>1. /\ Q!Owns(w) /\ Q!Release(w) /\ UNCHANGED <<ready, delayed, bloom>>
        /\ Q!Bury(holds[w].url, Q!QuarantineUntil(holds[w].url, t))
    BY <1>4 DEF Q!Terminal
  <2>2. QED
    BY <2>1, Buried, ResolutionLinked
<1>5. ASSUME NEW w \in Workers, NEW t, NEW class, Q!Fail(w, class, t)
      PROVE  FrontierLinked'
  <2>1. CASE Q!FailDead(w, class, t)
    <3>1. /\ Q!Owns(w) /\ Q!Release(w) /\ UNCHANGED <<ready, delayed, bloom>>
          /\ Q!Bury(holds[w].url, Q!QuarantineUntil(holds[w].url, t))
      BY <1>5, <2>1 DEF Q!Fail, Q!FailDead
    <3>2. QED
      BY <3>1, Buried, ResolutionLinked
  <2>2. CASE Q!FailDelayed(w, class, t)
    <3>1. /\ Q!Owns(w) /\ Q!Release(w) /\ UNCHANGED <<ready, dead, listingNext, bloom>>
          /\ DOMAIN delayed' = DOMAIN delayed \cup {Q!Mint(holds[w].url)}
      BY <1>5, <2>2, Added DEF Q!Fail, Q!FailDelayed
    <3>2. \A j \in DOMAIN delayed' : j \in DOMAIN delayed \/ j.url = holds[w].url
      BY <3>1 DEF Q!Mint
    <3>3. QED
      BY <3>1, <3>2, ResolutionLinked
  <2>3. QED
    BY <1>5, <2>1, <2>2 DEF Q!Fail
<1>6. ASSUME NEW w \in Workers, NEW t, NEW found, Q!CompleteListing(w, found, t)
      PROVE  FrontierLinked'
  <2>1. /\ Q!Owns(w) /\ Q!Release(w) /\ UNCHANGED <<ready, delayed, bloom>>
        /\ DOMAIN listingNext' = DOMAIN listingNext \cup {holds[w].url}
        /\ DOMAIN dead' \subseteq DOMAIN dead
    BY <1>6, Added, Removed DEF Q!CompleteListing
  <2>2. QED
    BY <2>1, ResolutionLinked
<1>7. QED
  BY <1>1, <1>2, <1>3, <1>4, <1>5, <1>6 DEF Q!Work

\* The clock and the reconcilers bring in none.
LEMMA TickLinked ==
    ASSUME FrontierLinked, Q!Tick \/ Q!Reconcile
    PROVE  FrontierLinked'
<1>1. CASE Q!Tick
  BY <1>1 DEF Q!Tick, FrontierLinked
<1>2. CASE Q!Sweep
  <2>1. PICK n, b : /\ b \in [1..n -> Q!Orphans]
                    /\ Q!SweepPage(n, b)
    BY <1>2 DEF Q!Sweep
  <2>2. \A i \in 1..n : b[i] \in processing
    BY <2>1 DEF Q!Orphans, Q!SweepWindow
  <2>3. /\ ready' = ready \cup Q!Minted([i \in 1..n |-> b[i].url], n)
        /\ processing' \subseteq processing
        /\ UNCHANGED <<lease, delayed, dead, listingNext, bloom, holds>>
    BY <2>1 DEF Q!SweepPage
  <2>4. \A j \in ready' : j \in ready \/ \E k \in processing : j.url = k.url
    BY <2>2, <2>3, RequeuedUrls
  <2>5. QED
    BY <2>3, <2>4 DEF FrontierLinked
<1>3. ASSUME NEW t, Q!Reap(t)
      PROVE  FrontierLinked'
  <2>1. PICK n, b : b \in Q!Page(lease, t, ReapBatchLimit, n) /\ Q!ReapPage(n, b)
    BY <1>3 DEF Q!Reap
  <2>2. \A i \in 1..n : b[i] \in DOMAIN lease
    BY <2>1 DEF Q!Page, Q!Due
  <2>3. /\ ready' = ready \cup Q!Minted([i \in 1..n |-> b[i].url], n)
        /\ processing' \subseteq processing /\ DOMAIN lease' \subseteq DOMAIN lease
        /\ UNCHANGED <<delayed, dead, listingNext, bloom, holds>>
    BY <2>1, Removed DEF Q!ReapPage
  <2>4. \A j \in ready' : j \in ready \/ \E k \in DOMAIN lease : j.url = k.url
    BY <2>2, <2>3, RequeuedUrls
  <2>5. QED
    BY <2>3, <2>4 DEF FrontierLinked
<1>4. ASSUME NEW t, Q!Promote(t)
      PROVE  FrontierLinked'
  <2>1. PICK n, b : b \in Q!Page(delayed, t, PromoteBatchLimit, n) /\ Q!PromotePage(n, b)
    BY <1>4 DEF Q!Promote
  <2>2. \A i \in 1..n : b[i] \in DOMAIN delayed
    BY <2>1 DEF Q!Page, Q!Due
  <2>3. /\ ready' = ready \cup Q!Minted([i \in 1..n |-> b[i].url], n)
        /\ DOMAIN delayed' \subseteq DOMAIN delayed
        /\ UNCHANGED <<processing, lease, dead, listingNext, bloom, holds>>
    BY <2>1, Removed DEF Q!PromotePage
  <2>4. \A j \in ready' : j \in ready \/ \E k \in DOMAIN delayed : j.url = k.url
    BY <2>2, <2>3, RequeuedUrls
  <2>5. QED
    BY <2>3, <2>4 DEF FrontierLinked
<1>5. ASSUME NEW t, Q!RunListingScheduler(t)
      PROVE  FrontierLinked'
  <2>1. PICK n, b : /\ b \in Q!Page(listingNext, t, SchedulerBatchLimit, n)
                    /\ Q!SchedulePage(t, n, b)
    BY <1>5 DEF Q!RunListingScheduler
  <2>2. \A i \in 1..n : b[i] \in DOMAIN listingNext
    BY <2>1 DEF Q!Page, Q!Due
  <2>3. /\ \A j \in ready' : j \in ready \/ \E i \in 1..n : j.url = b[i]
        /\ DOMAIN listingNext' \subseteq DOMAIN listingNext
        /\ DOMAIN dead' \subseteq DOMAIN dead
        /\ UNCHANGED <<processing, lease, delayed, bloom, holds>>
    <3>1. \A j \in ready' : j \in ready \/ \E i \in 1..n : j.url = b[i]
      <4> DEFINE admitted == {i \in 1..n : b[i] \notin {u \in Q!Range(b) : Q!Blocked(u, t)}}
                 Rank(i) == Q!Cardinality({k \in admitted : k <= i})
      <4>1. ready' = ready \cup {[id |-> seq + Rank(i), url |-> b[i]] : i \in admitted}
        BY <2>1 DEF Q!SchedulePage
      <4> HIDE DEF Rank
      <4>2. QED
        BY <4>1
    <3>2. DOMAIN listingNext' \subseteq DOMAIN listingNext
      BY <2>1 DEF Q!SchedulePage
    <3>3. /\ DOMAIN dead' \subseteq DOMAIN dead
          /\ UNCHANGED <<processing, lease, delayed, bloom, holds>>
      BY <2>1, Removed DEF Q!SchedulePage
    <3>4. QED
      BY <3>1, <3>2, <3>3
  <2>4. QED
    BY <2>2, <2>3 DEF FrontierLinked
<1>6. QED
  BY <1>1, <1>2, <1>3, <1>4, <1>5 DEF Q!Reconcile

\* The steps of a worker: it stores, fetches and admits what it was linked to.
LEMMA WorkerLinked ==
    ASSUME TypeOK, OnlyLinked, NEW w \in Workers, Work(w)
    PROVE  OnlyLinked'
<1>1. Q!TypeOK /\ FrontierLinked /\ links[w] \in Seq(URL) /\ fresh[w] \in BOOLEAN
  BY DEF TypeOK, OnlyLinked
<1>2. pc[w] \notin {"stopped", "idle"} => holds[w] # NoJob
  BY DEF TypeOK
<1>3. links[w] # << >> => Head(links[w]) \in LinkedUrls /\ Range(Tail(links[w])) \subseteq LinkedUrls
  <2>1. Range(links[w]) \subseteq LinkedUrls
    BY DEF OnlyLinked
  <2>2. QED
    BY <1>1, <2>1 DEF Range
<1>4. FrontierLinked'
  <2>1. CASE \/ Exit(w) \/ Pace(w) \/ Served(w) \/ Refused(w) \/ Interrupted(w)
             \/ Store(w) \/ StoreFails(w) \/ AdmitDone(w)
    <3>1. UNCHANGED frontier
      BY <2>1 DEF Exit, Pace, Served, Refused, Interrupted, Store, StoreFails, AdmitDone
    <3>2. QED
      BY <1>1, <3>1 DEF FrontierLinked, frontier
  <2>2. CASE Lease(w) \/ LeaseUnanswered(w) \/ Resolving(w)
    <3>1. Q!Work
      BY <1>1, <2>2, ResolveCall DEF Lease, LeaseUnanswered, Q!Work
    <3>2. QED
      BY <1>1, <3>1, WorkLinked
  <2>3. CASE AdmitChild(w) \/ AdmitFails(w) \/ AdmitRepeated(w)
    <3>1. links[w] # << >> /\ (AdmitCall(Head(links[w])) \/ UNCHANGED frontier)
      BY <2>3 DEF AdmitChild, AdmitFails, AdmitRepeated
    <3>2. CASE AdmitCall(Head(links[w]))
      BY <1>1, <1>3, <3>1, <3>2, AdmitLinked
    <3>3. CASE UNCHANGED frontier
      BY <1>1, <3>3 DEF FrontierLinked, frontier
    <3>4. QED
      BY <3>1, <3>2, <3>3
  <2>4. QED
    BY <2>1, <2>2, <2>3 DEF Work, Resolving
<1>5. stored' \subseteq LinkedUrls
  <2>1. CASE Store(w) \/ StoreFails(w)
    <3>1. pc[w] = "store" /\ stored' \subseteq stored \cup {holds[w].url}
      BY <2>1 DEF Store, StoreFails
    <3>2. holds[w].url \in LinkedUrls
      BY <1>1, <1>2, <3>1 DEF FrontierLinked
    <3>3. QED
      BY <3>1, <3>2 DEF OnlyLinked
  <2>2. CASE ~(Store(w) \/ StoreFails(w))
    <3>1. stored' = stored
      BY <2>2 DEF Work, Exit, Lease, LeaseUnanswered, Pace, Served, Refused, Interrupted,
         AdmitChild, AdmitFails, AdmitRepeated, AdmitDone, Finish, Nack, NackStop,
         NackFatal, Terminal, Fail, Resolve, outside
    <3>2. QED
      BY <3>1 DEF OnlyLinked
  <2>3. QED
    BY <2>1, <2>2
<1>6. ASSUME NEW v \in Workers
      PROVE  Range(links'[v]) \subseteq LinkedUrls
  <2>1. CASE v # w
    BY <2>1, WorkLocal DEF OnlyLinked
  <2>2. CASE v = w /\ Served(w)
    <3>1. pc[w] = "fetch" /\ links'[w] = Links[holds[w].url]
      BY <2>2 DEF Served, TypeOK
    <3>2. holds[w].url \in URL
      BY <1>2, <3>1 DEF TypeOK, Q!TypeOK, Q!Job, Q!URL, URL
    <3>3. QED
      BY <2>2, <3>1, <3>2 DEF LinkedUrls
  <2>3. CASE v = w /\ ~Served(w)
    <3>1. \/ links'[w] = links[w]
          \/ links[w] # << >> /\ links'[w] = Tail(links[w])
      BY <2>3 DEF Work, Exit, Lease, LeaseUnanswered, Pace, Refused, Interrupted, Store,
         StoreFails, AdmitChild, AdmitFails, AdmitRepeated, AdmitDone, Finish, Nack,
         NackStop, NackFatal, Terminal, Fail, Resolve, work, TypeOK
    <3>2. QED
      BY <1>3, <2>3, <3>1 DEF OnlyLinked
  <2>4. QED
    BY <2>1, <2>2, <2>3
<1>7. QED
  BY <1>4, <1>5, <1>6 DEF OnlyLinked

\* Nor does any other step bring in a url; startup, the base url.
LEMMA LinkedNext ==
    ASSUME TypeOK, OnlyLinked, Next \/ UNCHANGED vars
    PROVE  OnlyLinked'
<1>1. CASE Boot
  <2>1. /\ bloom' = bloom \cup stored
        /\ DOMAIN listingNext' \subseteq DOMAIN listingNext \cup {BaseUrl}
        /\ UNCHANGED <<ready, processing, lease, delayed, dead, holds, links, stored>>
    BY <1>1 DEF Boot, Launch, ZAdd
  <2>2. BaseUrl \in LinkedUrls
    BY DEF LinkedUrls
  <2>3. QED
    BY <2>1, <2>2 DEF OnlyLinked, FrontierLinked
<1>2. CASE BootFails
  <2>1. /\ bloom' \subseteq bloom \cup stored
        /\ UNCHANGED <<ready, processing, lease, delayed, listingNext, dead, holds,
                       links, stored>>
    BY <1>2 DEF BootFails, work, outside
  <2>2. QED
    BY <2>1 DEF OnlyLinked, FrontierLinked
<1>3. CASE Shutdown \/ UNCHANGED vars
  <2>1. UNCHANGED <<frontier, links, stored>>
    BY <1>3 DEF Shutdown, vars, work, outside
  <2>2. QED
    BY <2>1 DEF OnlyLinked, FrontierLinked, frontier
<1>4. CASE Crash
  <2>1. /\ \A w \in Workers : holds'[w] = NoJob
        /\ UNCHANGED <<ready, processing, lease, delayed, listingNext, dead, bloom,
                       links, stored>>
    BY <1>4 DEF Crash
  <2>2. QED
    BY <2>1 DEF OnlyLinked, FrontierLinked
<1>5. CASE Tick \/ Reap \/ Promote \/ RunListingScheduler \/ Sweep
  <2>1. (Q!Tick \/ Q!Reconcile) /\ UNCHANGED <<links, stored>>
    BY <1>5, CrawlerTicks DEF Ticks, work, outside
  <2>2. FrontierLinked'
    BY <2>1, TickLinked DEF OnlyLinked
  <2>3. QED
    BY <2>1, <2>2 DEF OnlyLinked
<1>6. ASSUME NEW w \in Workers, Work(w)
      PROVE  OnlyLinked'
  BY <1>6, WorkerLinked
<1>7. QED
  BY <1>1, <1>2, <1>3, <1>4, <1>5, <1>6 DEF Next

\* Nothing is known before the first startup.
LEMMA LinkedInit == Init => OnlyLinked
BY DEF Init, Q!Init, OnlyLinked, FrontierLinked, Range

\* Wherever a link comes from, its url names one page or is excepted by name.
LEMMA LinkNamesPage ==
    ASSUME NEW u \in LinkedUrls
    PROVE  NamesOnePage(u) \/ u \in Unpaged
<1>1. ASSUME NEW page \in Pages, u \in URL, u \in Keys[page]
      PROVE  NamesOnePage(u)
  <2>1. Keys[page] = {u} /\ u = PageUrl(page)
    BY <1>1, OneKeyPerPage
  <2>2. \A p \in Pages : u \in Keys[p] => p = page
    BY <2>1, OneKeyPerPage, PageUrlApart
  <2>3. u \in Videos <=> "video" \in DOMAIN page
    BY <1>1, <2>1, VideoUrls, PagesAssumption
  <2>4. QED
    BY <1>1, <2>1, <2>2, <2>3 DEF NamesOnePage
<1>2. CASE u = BaseUrl
  <2>1. u \in URL
    BY <1>2, UrlAssumption DEF URL
  <2>2. PICK home : home = [path |-> << >>]
    OBVIOUS
  <2>3. home \in Pages /\ PageUrl(home) = <<BasePiece>>
    BY <2>2 DEF Pages, PageUrl
  <2>4. u \in Keys[home]
    BY <1>2, <2>3, OneKeyPerPage, PagesAssumption
  <2>5. QED
    BY <1>1, <2>1, <2>3, <2>4
<1>3. ASSUME NEW p \in URL, u \in Range(Links[p])
      PROVE  NamesOnePage(u) \/ u \in Unpaged
  <2>1. u \in URL
    BY <1>3, WebAssumption DEF Range
  <2>2. PICK href \in Hrefs : u = Key(href) /\ u # Skip
    BY <1>3, PagesAssumption
  <2>3. CASE \E page \in Pages : href \in Spellings(page)
    BY <1>1, <2>1, <2>2, <2>3 DEF Keys
  <2>4. CASE href \in Elsewhere
    BY <2>2, <2>4, StraysSkipped DEF Strays, Unpaged
  <2>5. CASE href \in Unmerged
    BY <2>2, <2>5 DEF Unpaged
  <2>6. QED
    BY <2>2, <2>3, <2>4, <2>5 DEF Hrefs
<1>4. QED
  BY <1>2, <1>3 DEF LinkedUrls

\* README.md:62, one key per page: over crashes, restarts, failures and repeated
\* calls nothing enters the crawl but by a link, and so whatever it has a job, a
\* claim, a time or a document for is the one url of one page, or of Unpaged.
THEOREM OneUrlCorrect == Spec => []OneUrlPerPage
<1>1. OnlyLinked => KnownUrls \subseteq LinkedUrls
  BY DEF OnlyLinked, FrontierLinked, KnownUrls, Q!Live
<1>2. OnlyLinked => OneUrlPerPage
  BY <1>1, LinkNamesPage, StraysSkipped DEF OneUrlPerPage
<1>3. TypeOK /\ OnlyLinked /\ [Next]_vars => OnlyLinked'
  BY LinkedNext
<1>4. QED
  BY <1>2, <1>3, LinkedInit, CrawlerTypeCorrect, PTL DEF Spec
=============================================================================
