---------------------------- MODULE ScriptsProofs ----------------------------
(***************************************************************************)
(* The invariants of Scripts, for every value of its constants: what the   *)
(* frontier promises although any script may be cut short after any of its *)
(* writes.                                                                 *)
(*                                                                         *)
(* The proof treats scripts as programs of a Hoare logic: Safe says what a *)
(* script does to a set of keyspaces, command by command.                  *)
(***************************************************************************)
EXTENDS Scripts, FiniteSetTheorems, SequenceTheorems, TLAPS

-----------------------------------------------------------------------------
(* Induction.                                                              *)

\* A set of natural numbers has a least element.
LEMMA Least ==
    ASSUME NEW T \in SUBSET Nat, T # {}
    PROVE  \E m \in T : \A n \in T : m <= n
<1> DEFINE R == OpToRel(<, Nat)
<1>1. \A n, m \in Nat : <<n, m>> \in R <=> n < m
  BY DEF OpToRel
<1>2. IsWellFoundedOn(R, Nat)
  BY NatLessThanWellFounded
<1> HIDE DEF R
<1>3. \E m \in T : \A n \in T : ~(<<n, m>> \in R)
  BY <1>2, WFMin, Zenon
<1>4. PICK m \in T : \A n \in T : ~(n < m)
  BY <1>1, <1>3, Zenon
<1>5. QED
  BY <1>4

\* Induction on the natural numbers, stated of a set.
LEMMA Induct ==
    ASSUME NEW S \in SUBSET Nat, 0 \in S, \A n \in S : n + 1 \in S
    PROVE  S = Nat
<1> DEFINE T == Nat \ S
<1>1. SUFFICES ASSUME T # {}
               PROVE  FALSE
  OBVIOUS
<1>2. PICK m \in T : \A n \in T : m <= n
  BY <1>1, Least, Zenon
<1>3. m - 1 \in Nat /\ m - 1 \notin T
  BY <1>2
<1>4. QED
  BY <1>3

\* The least element of a set of integers is its Min.
LEMMA MinIs ==
    ASSUME NEW M \in SUBSET Int, NEW m \in M, \A x \in M : m <= x
    PROVE  Min(M) = m
<1>1. \A x \in M : (\A y \in M : x <= y) => x = m
  OBVIOUS
<1>2. QED
  BY <1>1 DEF Min

\* The greatest element of a set of integers is its Max.
LEMMA MaxIs ==
    ASSUME NEW M \in SUBSET Int, NEW m \in M, \A x \in M : m >= x
    PROVE  Max(M) = m
<1>1. \A x \in M : (\A y \in M : x >= y) => x = m
  OBVIOUS
<1>2. QED
  BY <1>1 DEF Max

-----------------------------------------------------------------------------
(* A script cut short is a run of its first commands.                      *)

\* The function a fold over the first n elements of seq computes.
IsFold(g, base, seq, n) ==
    g = [S \in SUBSET (1..n) |->
            IF S = {} THEN base ELSE Execute(g[S \ {Max(S)}], seq[Max(S)])]

\* There is such a function: each element extends it to the sets that hold it.
LEMMA FoldExists ==
    ASSUME NEW seq, NEW base, NEW n \in Nat
    PROVE  \E g : IsFold(g, base, seq, n)
<1> DEFINE Is(g, m) == IsFold(g, base, seq, m)
           T == {m \in Nat : \E g : Is(g, m)}
<1>1. 0 \in T
  <2>1. Is([S \in SUBSET (1..0) |-> base], 0)
    <3>1. 1..0 = {}
      OBVIOUS
    <3>2. QED
      BY <3>1, Zenon DEF IsFold
  <2>2. QED
    BY <2>1
<1>2. ASSUME NEW m \in T
      PROVE  m + 1 \in T
  <2>1. PICK g : Is(g, m)
    OBVIOUS
  <2> DEFINE h == [S \in SUBSET (1..m + 1) |->
                     IF m + 1 \in S THEN Execute(g[S \ {m + 1}], seq[m + 1]) ELSE g[S]]
  <2>2. ASSUME NEW S \in SUBSET (1..m + 1)
        PROVE  h[S] = IF S = {} THEN base ELSE Execute(h[S \ {Max(S)}], seq[Max(S)])
    <3>1. CASE m + 1 \in S
      <4>1. Max(S) = m + 1
        BY <3>1, MaxIs
      <4>2. S \ {m + 1} \in SUBSET (1..m + 1) /\ m + 1 \notin S \ {m + 1}
        OBVIOUS
      <4>3. h[S \ {m + 1}] = g[S \ {m + 1}]
        BY <4>2
      <4>4. QED
        BY <3>1, <4>1, <4>3
    <3>2. CASE m + 1 \notin S
      <4>1. S \in SUBSET (1..m) /\ h[S] = g[S]
        BY <3>2
      <4>2. g[S] = IF S = {} THEN base ELSE Execute(g[S \ {Max(S)}], seq[Max(S)])
        BY <2>1, <4>1 DEF IsFold
      <4>3. \A x : S \ {x} \in SUBSET (1..m + 1) /\ m + 1 \notin S \ {x}
        BY <3>2
      <4>4. h[S \ {Max(S)}] = g[S \ {Max(S)}]
        BY <4>3
      <4>5. QED
        BY <4>1, <4>2, <4>4
    <3>3. QED
      BY <3>1, <3>2
  <2>3. Is(h, m + 1)
    BY <2>2, Zenon DEF IsFold
  <2>4. m + 1 \in Nat
    OBVIOUS
  <2> HIDE DEF Is, h
  <2>5. QED
    BY <2>3, <2>4, Zenon
<1>3. T = Nat
  <2> HIDE DEF T
  <2>1. T \in SUBSET Nat
    BY DEF T
  <2>2. QED
    BY <1>1, <1>2, <2>1, Induct, Zenon
<1>4. QED
  BY <1>3

\* What Run computes by a fold is the end of a run of the first k commands.
LEMMA Trace ==
    ASSUME NEW S, NEW script \in Seq(S), NEW k \in 0..Len(script)
    PROVE  \E f : /\ f[0] = db /\ f[k] = Run(script, k)
                  /\ \A n \in 1..k : f[n] = Execute(f[n - 1], script[n])
<1> DEFINE part == SubSeq(script, 1, k)
           iter == CHOOSE g : IsFold(g, db, part, k)
           f == [n \in 0..k |-> iter[1..n]]
<1>1. /\ k \in Nat /\ DOMAIN part = 1..k
      /\ \A i \in 1..k : part[i] = script[i]
  OBVIOUS
<1>2. Run(script, k) = iter[1..k]
  BY <1>1 DEF Run, FoldLeft, MapThenFoldSet, IsFold
<1> HIDE DEF part
<1>3. \E g : IsFold(g, db, part, k)
  BY <1>1, FoldExists, Zenon
<1>4. IsFold(iter, db, part, k)
  BY <1>3, Zenon
<1> HIDE DEF iter
<1>5. \A T \in SUBSET (1..k) :
        iter[T] = IF T = {} THEN db ELSE Execute(iter[T \ {Max(T)}], part[Max(T)])
  BY <1>4, Zenon DEF IsFold
<1>6. f[0] = db
  <2>1. 1..0 = {} /\ 0 \in 0..k
    BY <1>1
  <2>2. {} \in SUBSET (1..k)
    OBVIOUS
  <2>3. QED
    BY <1>5, <2>1, <2>2, Zenon
<1>7. ASSUME NEW n \in 1..k
      PROVE  f[n] = Execute(f[n - 1], script[n])
  <2>1. /\ n \in 0..k /\ n - 1 \in 0..k
        /\ 1..n \in SUBSET (1..k) /\ 1..n # {} /\ (1..n) \ {n} = 1..(n - 1)
    <3>1. k \in Nat
      BY <1>1
    <3>2. n \in 0..k /\ n - 1 \in 0..k /\ 1..n \in SUBSET (1..k) /\ 1..n # {}
      BY <3>1
    <3>3. (1..n) \ {n} = 1..(n - 1)
      BY <3>1
    <3>4. QED
      BY <3>2, <3>3
  <2>2. Max(1..n) = n
    <3>1. 1..n \in SUBSET Int /\ n \in 1..n /\ \A x \in 1..n : n >= x
      BY <1>1
    <3>2. QED
      BY <3>1, MaxIs, Zenon
  <2>3. f[n] = iter[1..n] /\ f[n - 1] = iter[1..(n - 1)]
    BY <2>1, Zenon
  <2>4. iter[1..n] = Execute(iter[1..(n - 1)], part[n])
    BY <1>5, <2>1, <2>2, Zenon
  <2>5. QED
    BY <1>1, <2>3, <2>4, Zenon
<1>8. f[k] = Run(script, k)
  BY <1>1, <1>2
<1> HIDE DEF f
<1>9. QED
  BY <1>6, <1>7, <1>8, Zenon

\* The function FlattenSeq computes of the first n sequences.
IsFlat(g, seqs, n) ==
    g = [i \in 1..n |-> IF i = 1 THEN seqs[i] ELSE g[i - 1] \o seqs[i]]

\* There is such a function.
LEMMA FlatExists ==
    ASSUME NEW seqs, NEW n \in Nat
    PROVE  \E g : IsFlat(g, seqs, n)
<1> DEFINE T == {m \in Nat : \E g : IsFlat(g, seqs, m)}
<1>1. 0 \in T
  <2>1. IsFlat([i \in 1..0 |-> << >>], seqs, 0)
    BY DEF IsFlat
  <2>2. QED
    BY <2>1
<1>2. ASSUME NEW m \in T
      PROVE  m + 1 \in T
  <2>1. PICK g : IsFlat(g, seqs, m)
    OBVIOUS
  <2> DEFINE h == [i \in 1..m + 1 |->
                     IF i = m + 1 THEN (IF i = 1 THEN seqs[i] ELSE g[m] \o seqs[i])
                     ELSE g[i]]
  <2>2. ASSUME NEW i \in 1..m + 1
        PROVE  h[i] = IF i = 1 THEN seqs[i] ELSE h[i - 1] \o seqs[i]
    <3>1. CASE i = m + 1
      <4>1. i # 1 => i - 1 \in 1..m + 1 /\ i - 1 # m + 1 /\ i - 1 = m
        BY <3>1
      <4>2. i # 1 => h[i - 1] = g[m]
        BY <4>1
      <4>3. QED
        BY <3>1, <4>2
    <3>2. CASE i # m + 1
      <4>1. i \in 1..m /\ (i # 1 => i - 1 \in 1..m /\ i - 1 # m + 1 /\ i - 1 \in 1..m + 1)
        BY <3>2
      <4>2. g[i] = IF i = 1 THEN seqs[i] ELSE g[i - 1] \o seqs[i]
        BY <2>1, <4>1 DEF IsFlat
      <4>3. h[i] = g[i] /\ (i # 1 => h[i - 1] = g[i - 1])
        BY <3>2, <4>1
      <4>4. QED
        BY <4>2, <4>3
    <3>3. QED
      BY <3>1, <3>2
  <2>3. IsFlat(h, seqs, m + 1)
    BY <2>2, Zenon DEF IsFlat
  <2>4. m + 1 \in Nat
    OBVIOUS
  <2> HIDE DEF h
  <2>5. QED
    BY <2>3, <2>4, Zenon
<1>3. T = Nat
  <2> HIDE DEF T
  <2>1. T \in SUBSET Nat
    BY DEF T
  <2>2. QED
    BY <1>1, <1>2, <2>1, Induct, Zenon
<1>4. QED
  BY <1>3

\* f concatenates the blocks one by one, up to FlattenSeq of all.
IsFlattening(f, blocks, n) ==
    /\ n = 0 => FlattenSeq(blocks) = blocks
    /\ n > 0 => f[1] = blocks[1] /\ FlattenSeq(blocks) = f[n]
    /\ \A i \in 2..n : f[i] = f[i - 1] \o blocks[i]

\* FlattenSeq of n blocks is what n concatenations make of them.
LEMMA Flattened ==
    ASSUME NEW n \in Nat, NEW blocks, DOMAIN blocks = 1..n, Len(blocks) = n
    PROVE  \E f : IsFlattening(f, blocks, n)
<1> DEFINE flatten == CHOOSE g : IsFlat(g, blocks, n)
<1>1. FlattenSeq(blocks) = IF n = 0 THEN blocks ELSE flatten[n]
  BY DEF FlattenSeq, IsFlat
<1>2. \E g : IsFlat(g, blocks, n)
  BY FlatExists, Zenon
<1>3. IsFlat(flatten, blocks, n)
  BY <1>2, Zenon
<1> HIDE DEF flatten
<1>4. \A i \in 1..n : flatten[i] = IF i = 1 THEN blocks[i] ELSE flatten[i - 1] \o blocks[i]
  BY <1>3, Zenon DEF IsFlat
<1>5. n > 0 => flatten[1] = blocks[1]
  <2>1. n > 0 => 1 \in 1..n
    OBVIOUS
  <2>2. QED
    BY <1>4, <2>1, Zenon
<1>6. ASSUME NEW i \in 2..n
      PROVE  flatten[i] = flatten[i - 1] \o blocks[i]
  <2>1. i \in 1..n /\ i # 1
    OBVIOUS
  <2>2. QED
    BY <1>4, <2>1, Zenon
<1>7. n > 0 => FlattenSeq(blocks) = flatten[n]
  BY <1>1
<1>8. n = 0 => FlattenSeq(blocks) = blocks
  BY <1>1, Zenon
<1>9. QED
  BY <1>5, <1>6, <1>7, <1>8, Zenon DEF IsFlattening

-----------------------------------------------------------------------------
(* What scripts do to sets of keyspaces.                                   *)

\* A run of the script from a keyspace of P ends in R, if it is not cut short,
\* and is in Q all the way.
Safe(P, script, R, Q) ==
    /\ \E S : script \in Seq(S)
    /\ \A f : \A k \in 0..Len(script) :
          /\ f[0] \in P
          /\ \A n \in 1..k : f[n] = Execute(f[n - 1], script[n])
          => f[k] \in Q /\ (k = Len(script) => f[k] \in R)

\* The empty script does nothing.
LEMMA NoCommand ==
    ASSUME NEW P, NEW Q, P \subseteq Q
    PROVE  Safe(P, << >>, P, Q)
<1>1. << >> \in Seq({}) /\ Len(<< >>) = 0 /\ 0..0 = {0}
  OBVIOUS
<1>2. QED
  BY <1>1 DEF Safe

\* A script of one command does what the command does.
LEMMA OneCommand ==
    ASSUME NEW P, NEW R, NEW Q, NEW c, P \subseteq Q, R \subseteq Q,
           \A d \in P : Execute(d, c) \in R
    PROVE  Safe(P, <<c>>, R, Q)
<1>1. <<c>> \in Seq({c}) /\ Len(<<c>>) = 1 /\ <<c>>[1] = c /\ 1..1 = {1} /\ 0..1 = {0, 1}
      /\ 1 - 1 = 0 /\ 0 # 1
  OBVIOUS
<1>2. ASSUME NEW f, NEW k \in {0, 1}, f[0] \in P,
             \A n \in 1..k : f[n] = Execute(f[n - 1], <<c>>[n])
      PROVE  f[k] \in Q /\ (k = 1 => f[k] \in R)
  <2>1. CASE k = 0
    BY <1>1, <1>2, <2>1
  <2>2. CASE k = 1
    <3>1. f[1] = Execute(f[0], c)
      BY <1>1, <1>2, <2>2
    <3>2. f[1] \in R
      BY <1>2, <3>1, Zenon
    <3>3. QED
      BY <2>2, <3>2
  <2>3. QED
    BY <2>1, <2>2
<1>3. QED
  BY <1>1, <1>2, Zenon DEF Safe

\* A script after another takes over where that one ends.
LEMMA Sequel ==
    ASSUME NEW P, NEW R, NEW T, NEW Q, NEW A, NEW B, Safe(P, A, R, Q), Safe(R, B, T, Q)
    PROVE  Safe(P, A \o B, T, Q)
<1>1. PICK S : A \in Seq(S) /\ B \in Seq(S)
  <2>1. PICK SA, SB : A \in Seq(SA) /\ B \in Seq(SB)
    BY Zenon DEF Safe
  <2>2. A \in Seq(SA \cup SB) /\ B \in Seq(SA \cup SB)
    BY <2>1, SeqMonotonic
  <2>3. QED
    BY <2>2, Zenon
<1>2. PICK whole : whole = A \o B
  OBVIOUS
<1>3. /\ whole \in Seq(S) /\ Len(whole) = Len(A) + Len(B)
      /\ \A i \in 1..Len(A) + Len(B) : whole[i] = IF i <= Len(A) THEN A[i] ELSE B[i - Len(A)]
      /\ Len(A) \in Nat /\ Len(B) \in Nat
  BY <1>1, <1>2, ConcatProperties, LenProperties
<1>4. ASSUME NEW f, NEW k \in 0..Len(whole), f[0] \in P,
             \A n \in 1..k : f[n] = Execute(f[n - 1], whole[n])
      PROVE  f[k] \in Q /\ (k = Len(whole) => f[k] \in T)
  <2>1. ASSUME NEW n \in 1..Len(A), n \in 1..k
        PROVE  f[n] = Execute(f[n - 1], A[n])
    <3>1. whole[n] = A[n]
      BY <1>3
    <3>2. QED
      BY <1>4, <2>1, <3>1, Zenon
  <2>2. CASE k < Len(A)
    <3>1. k \in 0..Len(A) /\ k # Len(whole) /\ \A n \in 1..k : n \in 1..Len(A)
      BY <1>3, <2>2
    <3>2. \A n \in 1..k : f[n] = Execute(f[n - 1], A[n])
      BY <2>1, <3>1, Zenon
    <3>3. QED
      BY <1>4, <3>1, <3>2, Zenon DEF Safe
  <2>3. CASE ~(k < Len(A))
    <3> DEFINE g == [n \in 0..Len(B) |-> f[Len(A) + n]]
    <3>1. f[Len(A)] \in R
      <4>1. Len(A) \in 0..Len(A) /\ \A n \in 1..Len(A) : n \in 1..k
        BY <1>3, <2>3
      <4>2. \A n \in 1..Len(A) : f[n] = Execute(f[n - 1], A[n])
        BY <2>1, <4>1, Zenon
      <4>3. QED
        BY <1>4, <4>1, <4>2, Zenon DEF Safe
    <3>2. g[0] \in R
      <4>1. 0 \in 0..Len(B) /\ Len(A) + 0 = Len(A)
        BY <1>3
      <4>2. QED
        BY <3>1, <4>1
    <3>3. /\ k - Len(A) \in 0..Len(B) /\ Len(A) + (k - Len(A)) = k
          /\ (k = Len(whole) => k - Len(A) = Len(B))
      BY <1>3, <2>3
    <3>4. ASSUME NEW n \in 1..(k - Len(A))
          PROVE  g[n] = Execute(g[n - 1], B[n])
      <4>1. /\ n \in 0..Len(B) /\ n - 1 \in 0..Len(B)
            /\ Len(A) + n \in 1..Len(A) + Len(B) /\ Len(A) + n \in 1..k
            /\ (Len(A) + n) - 1 = Len(A) + (n - 1)
            /\ ~(Len(A) + n <= Len(A)) /\ (Len(A) + n) - Len(A) = n
        BY <1>3, <2>3
      <4>2. whole[Len(A) + n] = B[n]
        BY <1>3, <4>1
      <4>3. g[n] = f[Len(A) + n] /\ g[n - 1] = f[Len(A) + (n - 1)]
        BY <4>1, Zenon
      <4>4. f[Len(A) + n] = Execute(f[(Len(A) + n) - 1], whole[Len(A) + n])
        BY <1>4, <4>1, Zenon
      <4>5. QED
        BY <4>1, <4>2, <4>3, <4>4, Zenon
    <3>5. g[k - Len(A)] = f[k]
      BY <3>3
    <3>6. g[k - Len(A)] \in Q /\ (k - Len(A) = Len(B) => g[k - Len(A)] \in T)
      <4> HIDE DEF g
      <4>1. QED
        BY <3>2, <3>3, <3>4, Zenon DEF Safe
    <3>7. QED
      BY <3>3, <3>5, <3>6, Zenon
  <2>4. QED
    BY <2>2, <2>3
<1>5. QED
  BY <1>2, <1>3, <1>4, Zenon DEF Safe

\* What is done to more is done to less, and what ends in less ends in more.
LEMMA Weaken ==
    ASSUME NEW P, NEW R, NEW Q, NEW script, Safe(P, script, R, Q),
           NEW less, less \subseteq P, NEW more, R \subseteq more
    PROVE  Safe(less, script, more, Q)
BY Zenon DEF Safe

\* A batch of blocks, each of which takes over where the one before it ends.
LEMMA Batch ==
    ASSUME NEW n \in Nat, NEW blocks, DOMAIN blocks = 1..n, Len(blocks) = n,
           NEW Ps, NEW Q, Ps[0] \subseteq Q, n = 0 => blocks = << >>,
           \A i \in 1..n : Safe(Ps[i - 1], blocks[i], Ps[i], Q)
    PROVE  Safe(Ps[0], FlattenSeq(blocks), Ps[n], Q)
<1>1. CASE n = 0
  <2>1. FlattenSeq(blocks) = << >>
    BY <1>1, Flattened, Zenon DEF IsFlattening
  <2>2. QED
    BY <1>1, <2>1, NoCommand, Zenon
<1>2. CASE n > 0
  <2>1. PICK f : /\ f[1] = blocks[1] /\ FlattenSeq(blocks) = f[n]
                 /\ \A i \in 2..n : f[i] = f[i - 1] \o blocks[i]
    <3>1. PICK whole : IsFlattening(whole, blocks, n)
      BY Flattened, Zenon
    <3>2. /\ whole[1] = blocks[1] /\ FlattenSeq(blocks) = whole[n]
          /\ \A i \in 2..n : whole[i] = whole[i - 1] \o blocks[i]
      BY <1>2, <3>1, Zenon DEF IsFlattening
    <3>3. QED
      BY <3>2, Zenon
  <2> DEFINE S == {m \in Nat : m + 1 <= n => Safe(Ps[0], f[m + 1], Ps[m + 1], Q)}
  <2>2. 0 \in S
    <3>1. 1 \in 1..n /\ 1 - 1 = 0 /\ 0 + 1 = 1
      BY <1>2
    <3>2. Safe(Ps[0], f[1], Ps[1], Q)
      BY <2>1, <3>1, Zenon
    <3>3. QED
      BY <3>1, <3>2
  <2>3. ASSUME NEW m \in S
        PROVE  m + 1 \in S
    <3>1. SUFFICES ASSUME (m + 1) + 1 <= n
                   PROVE  Safe(Ps[0], f[(m + 1) + 1], Ps[(m + 1) + 1], Q)
      OBVIOUS
    <3>2. /\ (m + 1) + 1 \in 1..n /\ (m + 1) + 1 \in 2..n /\ ((m + 1) + 1) - 1 = m + 1
          /\ m + 1 <= n
      BY <3>1
    <3>3. Safe(Ps[0], f[m + 1], Ps[m + 1], Q)
      BY <3>2
    <3>4. Safe(Ps[m + 1], blocks[(m + 1) + 1], Ps[(m + 1) + 1], Q)
      BY <3>2, Zenon
    <3>5. f[(m + 1) + 1] = f[m + 1] \o blocks[(m + 1) + 1]
      BY <2>1, <3>2, Zenon
    <3>6. QED
      BY <3>3, <3>4, <3>5, Sequel, Zenon
  <2>4. S = Nat
    <3> HIDE DEF S
    <3>1. S \in SUBSET Nat
      BY DEF S
    <3>2. QED
      BY <2>2, <2>3, <3>1, Induct, Zenon
  <2>5. n - 1 \in Nat /\ (n - 1) + 1 = n /\ n <= n
    BY <1>2
  <2>6. Safe(Ps[0], f[n], Ps[n], Q)
    <3>1. n - 1 \in S
      <4> HIDE DEF S
      <4>1. QED
        BY <2>4, <2>5, Zenon
    <3>2. QED
      BY <2>5, <3>1
  <2>7. QED
    BY <2>1, <2>6, Zenon
<1>3. QED
  BY <1>1, <1>2

\* A call runs the script whole, or is cut short and counted.
LEMMA Transacted ==
    ASSUME NEW P, NEW script, NEW R, NEW Q, Safe(P, script, R, Q), db \in P,
           Transaction(script)
    PROVE  \/ db' \in R /\ aborts' = aborts
           \/ db' \in Q /\ aborts' = aborts + 1
<1>1. PICK S : script \in Seq(S)
  BY Zenon DEF Safe
<1>2. Len(script) \in Nat
  BY <1>1
<1>3. ASSUME NEW k \in 0..Len(script)
      PROVE  Run(script, k) \in Q /\ (k = Len(script) => Run(script, k) \in R)
  <2>1. PICK f : /\ f[0] = db /\ f[k] = Run(script, k)
                 /\ \A n \in 1..k : f[n] = Execute(f[n - 1], script[n])
    BY <1>1, Trace
  <2>2. QED
    BY <2>1, Zenon DEF Safe
<1>4. QED
  BY <1>2, <1>3 DEF Transaction

-----------------------------------------------------------------------------
(* Lists.                                                                  *)

Distinct(list) == \A i, k \in 1..Len(list) : list[i] = list[k] => i = k

\* LPUSH adds one element.
LEMMA PushList ==
    ASSUME NEW S, NEW s \in Seq(S), NEW j \in S
    PROVE  /\ <<j>> \o s \in Seq(S)
           /\ ToSet(<<j>> \o s) = ToSet(s) \cup {j}
           /\ Distinct(s) /\ j \notin ToSet(s) => Distinct(<<j>> \o s)
<1>1. PICK t : t = <<j>> \o s
  OBVIOUS
<1>2. /\ t \in Seq(S) /\ Len(t) = Len(s) + 1 /\ Len(s) \in Nat /\ t[1] = j
      /\ DOMAIN t = 1..Len(s) + 1 /\ DOMAIN s = 1..Len(s)
      /\ \A i \in 1..Len(s) : t[i + 1] = s[i]
      /\ \A i \in 2..Len(s) + 1 : t[i] = s[i - 1]
  BY <1>1
<1>3. ToSet(t) = ToSet(s) \cup {j}
  <2>1. \A x \in ToSet(t) : x \in ToSet(s) \cup {j}
    <3>1. ASSUME NEW i \in 1..Len(s) + 1
          PROVE  t[i] \in ToSet(s) \cup {j}
      <4>1. CASE i = 1
        BY <1>2, <4>1
      <4>2. CASE i # 1
        <5>1. i \in 2..Len(s) + 1 /\ i - 1 \in 1..Len(s)
          BY <1>2, <4>2
        <5>2. QED
          BY <1>2, <5>1 DEF ToSet
      <4>3. QED
        BY <4>1, <4>2
    <3>2. QED
      BY <1>2, <3>1 DEF ToSet
  <2>2. \A x \in ToSet(s) : x \in ToSet(t)
    <3>1. ASSUME NEW i \in 1..Len(s)
          PROVE  s[i] \in ToSet(t)
      <4>1. i + 1 \in 1..Len(s) + 1 /\ t[i + 1] = s[i]
        BY <1>2
      <4>2. QED
        BY <1>2, <4>1 DEF ToSet
    <3>2. QED
      BY <1>2, <3>1 DEF ToSet
  <2>3. j \in ToSet(t)
    <3>1. 1 \in 1..Len(s) + 1
      BY <1>2
    <3>2. QED
      BY <1>2, <3>1 DEF ToSet
  <2>4. QED
    BY <2>1, <2>2, <2>3
<1>4. ASSUME Distinct(s), j \notin ToSet(s)
      PROVE  Distinct(t)
  <2>1. \A i \in 1..Len(s) : s[i] # j
    BY <1>2, <1>4 DEF ToSet
  <2>2. ASSUME NEW i \in 1..Len(t), NEW k \in 1..Len(t), t[i] = t[k]
        PROVE  i = k
    <3>1. CASE i = 1
      BY <1>2, <2>1, <2>2, <3>1
    <3>2. CASE k = 1
      BY <1>2, <2>1, <2>2, <3>2
    <3>3. CASE i # 1 /\ k # 1
      <4>1. i - 1 \in 1..Len(s) /\ k - 1 \in 1..Len(s) /\ s[i - 1] = s[k - 1]
        BY <1>2, <2>2, <3>3
      <4>2. i - 1 = k - 1
        BY <1>4, <4>1 DEF Distinct
      <4>3. QED
        BY <1>2, <4>2
    <3>4. QED
      BY <3>1, <3>2, <3>3
  <2>3. QED
    BY <2>2 DEF Distinct
<1>5. QED
  BY <1>1, <1>2, <1>3, <1>4

\* LMOVE takes the last element.
LEMMA TakeLast ==
    ASSUME NEW S, NEW s \in Seq(S), s # << >>
    PROVE  /\ Front(s) \in Seq(S) /\ Last(s) \in ToSet(s) /\ Last(s) \in S
           /\ ToSet(s) = ToSet(Front(s)) \cup {Last(s)}
           /\ Distinct(s) => Distinct(Front(s)) /\ Last(s) \notin ToSet(Front(s))
<1>1. PICK t : t = Front(s)
  OBVIOUS
<1>2. /\ t \in Seq(S) /\ Len(t) = Len(s) - 1 /\ Len(s) \in Nat \ {0}
      /\ DOMAIN t = 1..Len(s) - 1 /\ DOMAIN s = 1..Len(s)
      /\ \A i \in 1..Len(s) - 1 : t[i] = s[i]
  <2>1. Len(s) \in Nat \ {0} /\ DOMAIN s = 1..Len(s)
    BY EmptySeq, LenProperties
  <2>2. /\ t = SubSeq(s, 1, Len(s) - 1)
        /\ Len(s) - 1 \in 0..Len(s) /\ 1..Len(s) - 1 \subseteq 1..Len(s)
    BY <1>1, <2>1 DEF Front
  <2>3. /\ t \in Seq(S) /\ Len(t) = Len(s) - 1
        /\ \A i \in 1..Len(s) - 1 : t[i] = s[i]
    BY <2>1, <2>2, SubSeqProperties
  <2>4. QED
    BY <2>1, <2>3, LenProperties
<1>3. Last(s) = s[Len(s)] /\ Len(s) \in 1..Len(s) /\ Len(s) \notin 1..Len(s) - 1
  BY <1>2 DEF Last
<1>4. Last(s) \in ToSet(s) /\ Last(s) \in S
  BY <1>2, <1>3, ElementOfSeq DEF ToSet
<1>5. ToSet(s) = ToSet(t) \cup {Last(s)}
  <2>1. \A i \in 1..Len(s) : i # Len(s) => i \in 1..Len(s) - 1
    BY <1>2
  <2>2. \A i \in 1..Len(s) - 1 : i \in 1..Len(s)
    BY <1>2
  <2>3. \A x \in ToSet(s) : x \in ToSet(t) \cup {Last(s)}
    BY <1>2, <1>3, <2>1 DEF ToSet
  <2>4. \A x \in ToSet(t) : x \in ToSet(s)
    BY <1>2, <2>2 DEF ToSet
  <2>5. QED
    BY <1>4, <2>3, <2>4
<1>6. ASSUME Distinct(s)
      PROVE  Distinct(t) /\ Last(s) \notin ToSet(t)
  <2>1. \A i \in 1..Len(s) - 1 : i \in 1..Len(s)
    BY <1>2
  <2>2. Distinct(t)
    BY <1>2, <1>6, <2>1 DEF Distinct
  <2>3. ASSUME NEW i \in 1..Len(s) - 1
        PROVE  t[i] # Last(s)
    <3>1. t[i] = s[i] /\ i \in 1..Len(s) /\ i # Len(s)
      BY <1>2, <1>3, <2>1
    <3>2. QED
      BY <1>3, <1>6, <3>1 DEF Distinct
  <2>4. Last(s) \notin ToSet(t)
    BY <1>2, <2>3 DEF ToSet
  <2>5. QED
    BY <2>2, <2>4
<1>7. QED
  BY <1>1, <1>2, <1>4, <1>5, <1>6

\* LREM removes the element, of a list that has it once.
LEMMA RemoveOne ==
    ASSUME NEW S, NEW s \in Seq(S), NEW j \in ToSet(s), Distinct(s)
    PROVE  /\ RemoveFirst(s, j) \in Seq(S) /\ Distinct(RemoveFirst(s, j))
           /\ ToSet(RemoveFirst(s, j)) = ToSet(s) \ {j}
<1>1. Len(s) \in Nat /\ DOMAIN s = 1..Len(s)
  OBVIOUS
<1>2. PICK p \in 1..Len(s) : s[p] = j
  BY <1>1 DEF ToSet
<1>3. {i \in 1..Len(s) : s[i] = j} = {p}
  BY <1>2 DEF Distinct
<1>4. Min({p}) = p
  <2>1. {p} \in SUBSET Int /\ p \in {p} /\ \A x \in {p} : p <= x
    BY <1>1
  <2>2. QED
    BY <2>1, MinIs, Zenon
<1>5. SelectInSeq(s, LAMBDA x : x = j) = p
  BY <1>3, <1>4 DEF SelectInSeq
<1>6. RemoveFirst(s, j) = SubSeq(s, 1, p - 1) \o SubSeq(s, p + 1, Len(s))
  BY <1>2, <1>5 DEF RemoveFirst, RemoveAt
<1>7. PICK a, b : a = SubSeq(s, 1, p - 1) /\ b = SubSeq(s, p + 1, Len(s))
  OBVIOUS
<1>8. /\ a \in Seq(S) /\ Len(a) = p - 1 /\ \A i \in 1..p - 1 : a[i] = s[i]
      /\ b \in Seq(S) /\ Len(b) = Len(s) - p /\ \A i \in 1..Len(s) - p : b[i] = s[p + i]
  <2>1. /\ a \in Seq(S) /\ Len(a) = p - 1 /\ \A i \in 1..p - 1 : a[i] = s[i]
    <3>1. /\ \A i \in 1..p - 1 : s[i] \in S
          /\ p - 1 \in Int /\ 1 \in Int /\ (IF 1 <= p - 1 THEN (p - 1) - 1 + 1 ELSE 0) = p - 1
      BY <1>1, ElementOfSeq
    <3>2. a \in Seq(S) /\ Len(a) = p - 1 /\ \A i \in 1..(p - 1) - 1 + 1 : a[i] = s[1 + i - 1]
      BY <1>7, <3>1, SubSeqProperties
    <3>3. \A i \in 1..p - 1 : i \in 1..(p - 1) - 1 + 1 /\ 1 + i - 1 = i
      BY <1>1
    <3>4. QED
      BY <3>2, <3>3
  <2>2. /\ b \in Seq(S) /\ Len(b) = Len(s) - p /\ \A i \in 1..Len(s) - p : b[i] = s[p + i]
    <3> DEFINE q == p + 1
               n == Len(s)
    <3>1. q \in Int /\ n \in Nat /\ p \in 1..n /\ q = p + 1
      BY <1>1
    <3>2. \A i \in q..n : s[i] \in S
      <4>1. \A i \in q..n : i \in 1..Len(s)
        BY <1>1, <3>1
      <4>2. QED
        BY <4>1, ElementOfSeq
    <3> HIDE DEF q
    <3>3. /\ b \in Seq(S) /\ Len(b) = (IF q <= n THEN n - q + 1 ELSE 0)
          /\ \A i \in 1..n - q + 1 : b[i] = s[q + i - 1]
      BY <1>7, <3>1, <3>2, SubSeqProperties
    <3>4. /\ n - q + 1 = Len(s) - p /\ (IF q <= n THEN n - q + 1 ELSE 0) = Len(s) - p
      BY <3>1
    <3>5. \A i \in 1..Len(s) - p : q + i - 1 = p + i
      BY <3>1
    <3>6. QED
      BY <3>3, <3>4, <3>5
  <2>3. QED
    BY <2>1, <2>2
<1>9. PICK t : t = a \o b
  OBVIOUS
<1>10. /\ t \in Seq(S) /\ Len(t) = Len(s) - 1 /\ DOMAIN t = 1..Len(s) - 1
       /\ \A i \in 1..Len(s) - 1 : t[i] = s[IF i < p THEN i ELSE i + 1]
  <2>1. /\ t \in Seq(S) /\ Len(t) = Len(a) + Len(b)
        /\ \A i \in 1..Len(a) + Len(b) : t[i] = IF i <= Len(a) THEN a[i] ELSE b[i - Len(a)]
    BY <1>8, <1>9, ConcatProperties, Zenon
  <2>2. Len(t) = Len(s) - 1 /\ Len(a) + Len(b) = Len(s) - 1
    BY <1>1, <1>8, <2>1
  <2>3. ASSUME NEW i \in 1..Len(s) - 1
        PROVE  t[i] = s[IF i < p THEN i ELSE i + 1]
    <3>1. CASE i < p
      <4>1. i <= Len(a) /\ i \in 1..p - 1 /\ i \in 1..Len(a) + Len(b)
        BY <1>1, <1>8, <2>2, <3>1
      <4>2. t[i] = a[i] /\ a[i] = s[i]
        BY <1>8, <2>1, <4>1
      <4>3. QED
        BY <3>1, <4>2
    <3>2. CASE ~(i < p)
      <4>1. ~(i <= Len(a)) /\ i - Len(a) \in 1..Len(s) - p /\ p + (i - Len(a)) = i + 1
        BY <1>1, <1>8, <3>2
      <4>2. t[i] = b[i - Len(a)]
        BY <2>1, <2>2, <4>1
      <4>3. QED
        BY <1>8, <3>2, <4>1, <4>2
    <3>3. QED
      BY <3>1, <3>2
  <2>4. QED
    BY <2>1, <2>2, <2>3, LenProperties
<1>11. Distinct(t)
  <2>1. ASSUME NEW i \in 1..Len(s) - 1, NEW k \in 1..Len(s) - 1, t[i] = t[k]
        PROVE  i = k
    <3>1. PICK x \in 1..Len(s) : x = IF i < p THEN i ELSE i + 1
      BY <1>1
    <3>2. PICK y \in 1..Len(s) : y = IF k < p THEN k ELSE k + 1
      BY <1>1
    <3>3. s[x] = s[y]
      BY <1>10, <2>1, <3>1, <3>2
    <3>4. x = y
      BY <3>3 DEF Distinct
    <3>5. QED
      BY <1>1, <3>1, <3>2, <3>4
  <2>2. QED
    BY <1>10, <2>1 DEF Distinct
<1>12. ToSet(t) = ToSet(s) \ {j}
  <2>1. ASSUME NEW i \in 1..Len(s) - 1
        PROVE  t[i] \in ToSet(s) \ {j}
    <3>1. PICK x \in 1..Len(s) : x # p /\ t[i] = s[x]
      <4>1. (IF i < p THEN i ELSE i + 1) \in 1..Len(s) /\ (IF i < p THEN i ELSE i + 1) # p
        BY <1>1
      <4>2. QED
        BY <1>10, <4>1
    <3>2. s[x] # j
      BY <1>2, <3>1 DEF Distinct
    <3>3. QED
      BY <1>1, <3>1, <3>2 DEF ToSet
  <2>2. ASSUME NEW i \in 1..Len(s), s[i] # j
        PROVE  s[i] \in ToSet(t)
    <3>1. CASE i < p
      <4>1. i \in 1..Len(s) - 1 /\ t[i] = s[i]
        BY <1>1, <1>10, <3>1
      <4>2. QED
        BY <1>10, <4>1 DEF ToSet
    <3>2. CASE ~(i < p)
      <4>1. i - 1 \in 1..Len(s) - 1 /\ ~(i - 1 < p) /\ (i - 1) + 1 = i
        BY <1>1, <1>2, <2>2, <3>2
      <4>2. t[i - 1] = s[i]
        BY <1>10, <4>1
      <4>3. QED
        BY <1>10, <4>1, <4>2 DEF ToSet
    <3>3. QED
      BY <3>1, <3>2
  <2>3. QED
    BY <1>1, <1>10, <2>1, <2>2 DEF ToSet
<1>13. QED
  BY <1>6, <1>7, <1>9, <1>10, <1>11, <1>12

-----------------------------------------------------------------------------
(* What holds of the keyspace before and after every command.              *)

Partial(S) == UNION {[T -> Nat] : T \in SUBSET S}

Keyspace ==
    [seq : Nat, ready : Seq(Job), processing : Seq(Job), lease : Partial(Job),
     delayed : Partial(Job), dead : Partial(URL), attempts : Partial(URL),
     strikes : Partial(URL), next : Partial(Listings), barren : Partial(URL),
     bloom : SUBSET Videos]

LiveIn(d) == ToSet(d.ready) \cup ToSet(d.processing) \cup DOMAIN d.delayed
JobsIn(d, u) == {j \in LiveIn(d) : j.url = u}
PendingIn(d, u) == u \in DOMAIN d.next /\ d.next[u] = PendingScore

\* Every id in use was minted.
IdsMinted(d) ==
    /\ \A j \in LiveIn(d) : j.id <= d.seq
    /\ \A w \in Workers : holds[w] # NoJob => holds[w].id <= d.seq

\* A member is in one place, once; a leased one is in processing; one in a
\* worker's hands waits nowhere.
QueuesApart(d) ==
    /\ Distinct(d.ready) /\ Distinct(d.processing)
    /\ ToSet(d.ready) \cap ToSet(d.processing) = {}
    /\ DOMAIN d.delayed \cap (ToSet(d.ready) \cup ToSet(d.processing)) = {}
    /\ DOMAIN d.lease \subseteq ToSet(d.processing)
    /\ \A w \in Workers : holds[w] \notin ToSet(d.ready) \cup DOMAIN d.delayed

\* A dead listing is quarantined, a dead video is dead forever.
DeadUntil(d) ==
    \A u \in DOMAIN d.dead :
        IF u \in Videos THEN d.dead[u] = 0 ELSE d.dead[u] \in 1..PendingScore - 1

PendingHasJob(d) == \A u \in Listings : PendingIn(d, u) => JobsIn(d, u) # {}

\* The urls that have an outcome or a place on the schedule, and those that
\* have one of these or a job, given the Acked ones.
Settled(d, done) == done \cup (Videos \cap DOMAIN d.dead) \cup DOMAIN d.next
KnownIn(d, done) == {u \in URL : JobsIn(d, u) # {}} \cup Settled(d, done)

\* The jobs a url should have at most; a video that a full filter refused is
\* not claimed and may be admitted again and again.
Allowed(d, u) ==
    IF PendingIn(d, u) \/ u \in d.bloom THEN 1 ELSE 0
Counted(d, u) == u \in Listings \/ u \in d.bloom \/ Cardinality(d.bloom) < BloomCapacity
FewJobs(d, extra) ==
    /\ IsFiniteSet(LiveIn(d))
    /\ \A u \in URL : Counted(d, u) =>
          Cardinality(JobsIn(d, u))
             <= Allowed(d, u) + aborts + (IF u \in extra THEN 1 ELSE 0)

\* The keyspaces between two commands of a script that started at db: no url
\* is forgotten, and those of extra may have a job more than they should.
Sound(done, extra) ==
    {d \in Keyspace :
        /\ IdsMinted(d) /\ QueuesApart(d) /\ DeadUntil(d) /\ PendingHasJob(d)
        /\ KnownIn(db, done) \cup d.bloom \subseteq KnownIn(d, done)
        /\ FewJobs(d, extra)}

\* The url of member j would not be forgotten with it.
Spare(d, j, done) ==
    j.url \in Listings \cup KnownIn(db, done) \cup d.bloom =>
        \/ \E k \in LiveIn(d) : k # j /\ k.url = j.url
        \/ j.url \in Settled(d, done) /\ ~PendingIn(d, j.url)

IInv ==
    /\ now \in 1..MaxTime
    /\ aborts \in Nat
    /\ holds \in [Workers -> Job \cup {NoJob}]
    /\ acked \subseteq Videos
    /\ db \in Sound(acked, {})
    /\ \A v, w \in Workers : holds[v] = holds[w] /\ holds[v] # NoJob => v = w

\* The members in the queues are jobs.
LEMMA LiveJobs ==
    ASSUME NEW d \in Keyspace
    PROVE  LiveIn(d) \subseteq Job
<1>1. d.ready \in Seq(Job) /\ d.processing \in Seq(Job) /\ DOMAIN d.delayed \subseteq Job
  BY DEF Keyspace, Partial
<1>2. \A s \in Seq(Job) : ToSet(s) \subseteq Job
  BY ElementOfSeq DEF ToSet
<1>3. QED
  BY <1>1, <1>2 DEF LiveIn

-----------------------------------------------------------------------------
(* What may be done to a sound keyspace.                                   *)

\* The jobs stay what they are, wherever they are.
LEMMA Reshaped ==
    ASSUME NEW done, NEW extra, NEW d \in Sound(done, extra), NEW e \in Keyspace,
           LiveIn(e) = LiveIn(d), d.seq <= e.seq, QueuesApart(e), DeadUntil(e),
           Videos \cap DOMAIN d.dead \subseteq DOMAIN e.dead,
           e.next = d.next, e.bloom = d.bloom, holds \in [Workers -> Job \cup {NoJob}]
    PROVE  e \in Sound(done, extra)
<1>1. \A u : JobsIn(e, u) = JobsIn(d, u) /\ (PendingIn(e, u) <=> PendingIn(d, u))
  BY DEF JobsIn, PendingIn
<1>2. d \in Keyspace /\ d.seq \in Nat /\ e.seq \in Nat
  BY DEF Sound, Keyspace
<1>3. IdsMinted(e)
  <2>1. IdsMinted(d) /\ LiveIn(d) \subseteq Job
    BY <1>2, LiveJobs DEF Sound
  <2>2. ASSUME NEW i \in Nat, i <= d.seq
        PROVE  i <= e.seq
    BY <1>2, <2>2
  <2>3. \A j \in Job : j.id \in Nat
    BY DEF Job
  <2>4. \A w \in Workers : holds[w] # NoJob => holds[w].id \in Nat /\ holds[w].id <= d.seq
    BY <2>1, <2>3 DEF IdsMinted
  <2>5. QED
    BY <2>1, <2>2, <2>3, <2>4 DEF IdsMinted
<1>4. PendingHasJob(e)
  BY <1>1 DEF PendingHasJob, Sound
<1>5. KnownIn(d, done) \subseteq KnownIn(e, done)
  BY <1>1 DEF KnownIn, Settled
<1>6. FewJobs(e, extra)
  <2>1. FewJobs(d, extra)
    BY DEF Sound
  <2>2. QED
    BY <1>1, <2>1, Zenon DEF FewJobs, Counted, Allowed
<1>7. KnownIn(db, done) \cup e.bloom \subseteq KnownIn(e, done)
  BY <1>5 DEF Sound
<1>8. QED
  BY <1>3, <1>4, <1>6, <1>7 DEF Sound

\* A new job of a url that has no extra one.
LEMMA Added ==
    ASSUME NEW done, NEW extra, NEW d \in Sound(done, extra), NEW e \in Keyspace,
           NEW j \in Job, j \notin LiveIn(d), LiveIn(e) = LiveIn(d) \cup {j},
           j.id <= e.seq, d.seq <= e.seq, j.url \notin extra, QueuesApart(e),
           e.dead = d.dead, e.next = d.next, e.bloom = d.bloom, aborts \in Nat,
           holds \in [Workers -> Job \cup {NoJob}]
    PROVE  e \in Sound(done, extra \cup {j.url})
<1>1. d \in Keyspace /\ d.seq \in Nat /\ e.seq \in Nat
  BY DEF Sound, Keyspace
<1>2. \A u : PendingIn(e, u) <=> PendingIn(d, u)
  BY DEF PendingIn
<1>3. \A u : JobsIn(e, u) = IF u = j.url THEN JobsIn(d, u) \cup {j} ELSE JobsIn(d, u)
  BY DEF JobsIn
<1>4. IdsMinted(e)
  <2>1. IdsMinted(d) /\ LiveIn(d) \subseteq Job
    BY <1>1, LiveJobs DEF Sound
  <2>2. ASSUME NEW i \in Nat, i <= d.seq
        PROVE  i <= e.seq
    BY <1>1, <2>2
  <2>3. \A k \in Job : k.id \in Nat
    BY DEF Job
  <2>4. \A w \in Workers : holds[w] # NoJob => holds[w].id \in Nat /\ holds[w].id <= d.seq
    BY <2>1, <2>3 DEF IdsMinted
  <2>5. QED
    BY <2>1, <2>2, <2>3, <2>4 DEF IdsMinted
<1>5. PendingHasJob(e)
  BY <1>2, <1>3 DEF PendingHasJob, Sound
<1>6. KnownIn(d, done) \subseteq KnownIn(e, done)
  BY <1>3 DEF KnownIn, Settled
<1>7. FewJobs(e, extra \cup {j.url})
  <2>1. FewJobs(d, extra)
    BY DEF Sound
  <2>2. IsFiniteSet(LiveIn(d)) /\ IsFiniteSet(LiveIn(e))
    <3>1. IsFiniteSet(LiveIn(d))
      BY <2>1, Zenon DEF FewJobs
    <3>2. IsFiniteSet(LiveIn(d) \cup {j})
      BY <3>1, FS_AddElement, Zenon
    <3>3. QED
      BY <3>1, <3>2, Zenon
  <2>3. ASSUME NEW u \in URL, Counted(e, u)
        PROVE  Cardinality(JobsIn(e, u))
                 <= Allowed(e, u) + aborts + (IF u \in extra \cup {j.url} THEN 1 ELSE 0)
    <3>1. /\ Allowed(e, u) = Allowed(d, u) /\ Counted(d, u)
          /\ Allowed(d, u) \in Nat
      BY <1>2, <2>3 DEF Allowed, Counted
    <3>2. JobsIn(d, u) \in SUBSET LiveIn(d)
      BY DEF JobsIn
    <3>3. IsFiniteSet(JobsIn(d, u)) /\ Cardinality(JobsIn(d, u)) \in Nat
      BY <2>2, <3>2, FS_Subset, FS_CardinalityType
    <3>4. Cardinality(JobsIn(d, u)) <= Allowed(d, u) + aborts + (IF u \in extra THEN 1 ELSE 0)
      BY <2>1, <3>1 DEF FewJobs
    <3>5. CASE u = j.url
      <4>1. j \notin JobsIn(d, u) /\ JobsIn(e, u) = JobsIn(d, u) \cup {j}
        BY <1>3, <3>2, <3>5
      <4>2. Cardinality(JobsIn(e, u)) = Cardinality(JobsIn(d, u)) + 1
        BY <3>3, <4>1, FS_AddElement
      <4>3. u \notin extra /\ u \in extra \cup {j.url}
        BY <3>5
      <4>4. QED
        BY <3>1, <3>3, <3>4, <4>2, <4>3
    <3>6. CASE u # j.url
      BY <1>3, <3>1, <3>3, <3>4, <3>6
    <3>7. QED
      BY <3>5, <3>6
  <2>4. QED
    BY <2>2, <2>3 DEF FewJobs
<1>8. KnownIn(db, done) \cup e.bloom \subseteq KnownIn(e, done)
  BY <1>6 DEF Sound
<1>9. DeadUntil(e)
  BY DEF Sound, DeadUntil
<1>10. QED
  BY <1>4, <1>5, <1>7, <1>8, <1>9 DEF Sound

\* A job is removed whose url would not be forgotten with it.
LEMMA Removed ==
    ASSUME NEW done, NEW extra, NEW d \in Sound(done, extra), NEW e \in Keyspace,
           NEW j \in LiveIn(d), LiveIn(e) = LiveIn(d) \ {j}, e.seq = d.seq,
           Spare(d, j, done), QueuesApart(e),
           e.dead = d.dead, e.next = d.next, e.bloom = d.bloom, aborts \in Nat
    PROVE  e \in Sound(done, extra \ {j.url})
<1>1. d \in Keyspace
  BY DEF Sound
<1>2. \A u : PendingIn(e, u) <=> PendingIn(d, u)
  BY DEF PendingIn
<1>3. \A u : JobsIn(e, u) = IF u = j.url THEN JobsIn(d, u) \ {j} ELSE JobsIn(d, u)
  BY DEF JobsIn
<1>4. IdsMinted(e)
  BY DEF Sound, IdsMinted
<1>5. PendingHasJob(e)
  <2>1. ASSUME NEW u \in Listings, PendingIn(e, u)
        PROVE  JobsIn(e, u) # {}
    <3>1. JobsIn(d, u) # {} /\ PendingIn(d, u)
      BY <1>2, <2>1 DEF Sound, PendingHasJob
    <3>2. CASE u = j.url
      <4>1. \E k \in LiveIn(d) : k # j /\ k.url = u
        BY <3>1, <3>2 DEF Spare
      <4>2. QED
        BY <1>3, <3>2, <4>1 DEF JobsIn
    <3>3. CASE u # j.url
      BY <1>3, <3>1, <3>3
    <3>4. QED
      BY <3>2, <3>3
  <2>2. QED
    BY <2>1 DEF PendingHasJob
<1>6. ASSUME NEW u \in KnownIn(db, done) \cup d.bloom
      PROVE  u \in KnownIn(e, done)
  <2>1. u \in KnownIn(d, done)
    BY DEF Sound
  <2>2. Settled(e, done) = Settled(d, done)
    BY DEF Settled
  <2>3. CASE u = j.url /\ u \notin Settled(d, done)
    <3>1. PICK k \in LiveIn(d) : k # j /\ k.url = j.url
      BY <2>3 DEF Spare
    <3>2. k \in JobsIn(e, u)
      BY <1>3, <2>3, <3>1 DEF JobsIn
    <3>3. u \in URL
      BY <2>1, <2>3 DEF KnownIn
    <3>4. QED
      BY <3>2, <3>3 DEF KnownIn
  <2>4. CASE u # j.url
    BY <1>3, <2>1, <2>2, <2>4 DEF KnownIn
  <2>5. CASE u \in Settled(d, done)
    BY <2>2, <2>5 DEF KnownIn
  <2>6. QED
    BY <2>3, <2>4, <2>5
<1>7. FewJobs(e, extra \ {j.url})
  <2>1. FewJobs(d, extra)
    BY DEF Sound
  <2>2. IsFiniteSet(LiveIn(d)) /\ IsFiniteSet(LiveIn(e))
    BY <2>1, FS_RemoveElement, Zenon DEF FewJobs
  <2>3. ASSUME NEW u \in URL, Counted(e, u)
        PROVE  Cardinality(JobsIn(e, u))
                 <= Allowed(e, u) + aborts + (IF u \in extra \ {j.url} THEN 1 ELSE 0)
    <3>1. /\ Allowed(e, u) = Allowed(d, u) /\ Counted(d, u)
          /\ Allowed(d, u) \in Nat
      BY <1>2, <2>3 DEF Allowed, Counted
    <3>2. JobsIn(d, u) \in SUBSET LiveIn(d)
      BY DEF JobsIn
    <3>3. IsFiniteSet(JobsIn(d, u)) /\ Cardinality(JobsIn(d, u)) \in Nat
      BY <2>2, <3>2, FS_Subset, FS_CardinalityType
    <3>4. Cardinality(JobsIn(d, u)) <= Allowed(d, u) + aborts + (IF u \in extra THEN 1 ELSE 0)
      BY <2>1, <3>1 DEF FewJobs
    <3>5. CASE u = j.url
      <4>1. j \in JobsIn(d, u) /\ JobsIn(e, u) = JobsIn(d, u) \ {j}
        BY <1>3, <3>5 DEF JobsIn
      <4>2. Cardinality(JobsIn(e, u)) = Cardinality(JobsIn(d, u)) - 1
        <5>1. Cardinality(JobsIn(d, u) \ {j}) = Cardinality(JobsIn(d, u)) - 1
          BY <3>3, <4>1, FS_RemoveElement, Zenon
        <5>2. QED
          BY <4>1, <5>1, Zenon
      <4>3. u \notin extra \ {j.url}
        BY <3>5
      <4>4. QED
        BY <3>1, <3>3, <3>4, <4>2, <4>3
    <3>6. CASE u # j.url
      BY <1>3, <3>1, <3>3, <3>4, <3>6
    <3>7. QED
      BY <3>5, <3>6
  <2>4. QED
    BY <2>2, <2>3 DEF FewJobs
<1>8. KnownIn(db, done) \cup e.bloom \subseteq KnownIn(e, done)
  BY <1>6
<1>9. DeadUntil(e)
  BY DEF Sound, DeadUntil
<1>10. QED
  BY <1>4, <1>5, <1>7, <1>8, <1>9 DEF Sound

\* A listing is put on the schedule, off PENDING if it was there: a job of it
\* is one more than it should have then.
LEMMA Scheduled ==
    ASSUME NEW done, NEW extra, NEW d \in Sound(done, extra), NEW e \in Keyspace,
           NEW u \in Listings, LiveIn(e) = LiveIn(d), e.seq = d.seq, QueuesApart(e),
           e.dead = d.dead, e.bloom = d.bloom, DOMAIN e.next = DOMAIN d.next \cup {u},
           ~PendingIn(e, u), \A v \in DOMAIN d.next : v # u => e.next[v] = d.next[v],
           aborts \in Nat
    PROVE  /\ u \notin extra => e \in Sound(done, extra \cup {u})
           /\ ~PendingIn(d, u) => e \in Sound(done, extra)
<1>1. \A v : JobsIn(e, v) = JobsIn(d, v)
  BY DEF JobsIn
<1>2. \A v : v # u => (PendingIn(e, v) <=> PendingIn(d, v))
  BY DEF PendingIn
<1>3. IdsMinted(e) /\ DeadUntil(e)
  BY DEF Sound, IdsMinted, DeadUntil
<1>4. PendingHasJob(e)
  BY <1>1, <1>2 DEF Sound, PendingHasJob
<1>5. KnownIn(db, done) \cup e.bloom \subseteq KnownIn(e, done)
  BY <1>1 DEF Sound, KnownIn, Settled
<1>6. FewJobs(d, extra) /\ IsFiniteSet(LiveIn(e))
  BY DEF Sound, FewJobs
<1>7. \A v \in URL : /\ Counted(e, v) => Counted(d, v)
                     /\ v # u => Allowed(e, v) = Allowed(d, v)
                     /\ Allowed(e, v) \in {0, 1} /\ Allowed(d, v) \in {0, 1}
  BY <1>2, Zenon DEF Counted, Allowed
<1>8. \A v \in URL : Cardinality(JobsIn(d, v)) \in Nat
  <2>1. \A v \in URL : JobsIn(d, v) \in SUBSET LiveIn(d)
    BY DEF JobsIn
  <2>2. IsFiniteSet(LiveIn(d))
    BY <1>6 DEF FewJobs
  <2>3. QED
    BY <2>1, <2>2, FS_Subset, FS_CardinalityType
<1>9. u \notin extra => FewJobs(e, extra \cup {u})
  <2>1. ASSUME u \notin extra, NEW v \in URL, Counted(e, v)
        PROVE  Cardinality(JobsIn(e, v))
                 <= Allowed(e, v) + aborts + (IF v \in extra \cup {u} THEN 1 ELSE 0)
    <3>1. Cardinality(JobsIn(d, v)) <= Allowed(d, v) + aborts + (IF v \in extra THEN 1 ELSE 0)
      BY <1>6, <1>7, <2>1 DEF FewJobs
    <3>2. CASE v = u
      <4>1. Cardinality(JobsIn(d, v)) <= Allowed(d, v) + aborts
        BY <1>7, <2>1, <3>1, <3>2
      <4>2. QED
        BY <1>1, <1>7, <1>8, <3>2, <4>1
    <3>3. CASE v # u
      BY <1>1, <1>7, <1>8, <3>1, <3>3
    <3>4. QED
      BY <3>2, <3>3
  <2>2. QED
    BY <1>6, <2>1 DEF FewJobs
<1>10. ~PendingIn(d, u) => FewJobs(e, extra)
  <2>1. ASSUME ~PendingIn(d, u)
        PROVE  \A v \in URL : Allowed(e, v) = Allowed(d, v)
    BY <1>2, <2>1, Zenon DEF Allowed
  <2>2. QED
    BY <1>1, <1>6, <1>7, <2>1 DEF FewJobs
<1>11. QED
  BY <1>3, <1>4, <1>5, <1>9, <1>10, Zenon DEF Sound

\* A listing that has a job goes PENDING.
LEMMA MadePending ==
    ASSUME NEW done, NEW extra, NEW d \in Sound(done, extra), NEW e \in Keyspace,
           NEW u \in Listings, LiveIn(e) = LiveIn(d), e.seq = d.seq, QueuesApart(e),
           e.dead = d.dead, e.bloom = d.bloom, DOMAIN e.next = DOMAIN d.next \cup {u},
           PendingIn(e, u), \A v \in DOMAIN d.next : v # u => e.next[v] = d.next[v],
           ~PendingIn(d, u), JobsIn(d, u) # {}, aborts \in Nat
    PROVE  e \in Sound(done, extra \ {u})
<1>1. \A v : JobsIn(e, v) = JobsIn(d, v)
  BY DEF JobsIn
<1>2. \A v : v # u => (PendingIn(e, v) <=> PendingIn(d, v))
  BY DEF PendingIn
<1>3. IdsMinted(e) /\ DeadUntil(e)
  BY DEF Sound, IdsMinted, DeadUntil
<1>4. PendingHasJob(e)
  BY <1>1, <1>2 DEF Sound, PendingHasJob
<1>5. KnownIn(db, done) \cup e.bloom \subseteq KnownIn(e, done)
  BY <1>1 DEF Sound, KnownIn, Settled
<1>6. FewJobs(d, extra) /\ IsFiniteSet(LiveIn(e))
  BY DEF Sound, FewJobs
<1>7. \A v \in URL : /\ Counted(e, v) => Counted(d, v)
                     /\ v # u => Allowed(e, v) = Allowed(d, v)
                     /\ Allowed(d, v) \in {0, 1}
  BY <1>2, Zenon DEF Counted, Allowed
<1>8. \A v \in URL : Cardinality(JobsIn(d, v)) \in Nat
  <2>1. \A v \in URL : JobsIn(d, v) \in SUBSET LiveIn(d)
    BY DEF JobsIn
  <2>2. IsFiniteSet(LiveIn(d))
    BY <1>6 DEF FewJobs
  <2>3. QED
    BY <2>1, <2>2, FS_Subset, FS_CardinalityType
<1>9. Allowed(e, u) = 1 /\ Allowed(d, u) = 0
  <2>1. d.bloom \subseteq Videos /\ u \notin Videos
    BY UrlAssumption DEF Sound, Keyspace
  <2>2. QED
    BY <2>1 DEF Allowed
<1>10. FewJobs(e, extra \ {u})
  <2>1. ASSUME NEW v \in URL, Counted(e, v)
        PROVE  Cardinality(JobsIn(e, v))
                 <= Allowed(e, v) + aborts + (IF v \in extra \ {u} THEN 1 ELSE 0)
    <3>1. Cardinality(JobsIn(d, v)) <= Allowed(d, v) + aborts + (IF v \in extra THEN 1 ELSE 0)
      BY <1>6, <1>7, <2>1 DEF FewJobs
    <3>2. CASE v = u
      <4>1. v \notin extra \ {u}
        BY <3>2
      <4>2. QED
        BY <1>1, <1>8, <1>9, <3>1, <3>2, <4>1
    <3>3. CASE v # u
      BY <1>1, <1>7, <1>8, <3>1, <3>3
    <3>4. QED
      BY <3>2, <3>3
  <2>2. QED
    BY <1>6, <2>1 DEF FewJobs
<1>11. QED
  BY <1>3, <1>4, <1>5, <1>10, Zenon DEF Sound

\* A video that has a job is claimed, while the filter has room.
LEMMA Claimed ==
    ASSUME NEW done, NEW extra, NEW d \in Sound(done, extra), NEW e \in Keyspace,
           NEW u \in Videos, LiveIn(e) = LiveIn(d), e.seq = d.seq, QueuesApart(e),
           e.dead = d.dead, e.next = d.next, e.bloom = d.bloom \cup {u},
           u \notin d.bloom, Cardinality(d.bloom) < BloomCapacity,
           JobsIn(d, u) # {}, aborts \in Nat
    PROVE  e \in Sound(done, extra \ {u})
<1>1. \A v : JobsIn(e, v) = JobsIn(d, v) /\ (PendingIn(e, v) <=> PendingIn(d, v))
  BY DEF JobsIn, PendingIn
<1>2. d \in Keyspace /\ u \notin Listings /\ u \in URL
  BY UrlAssumption DEF Sound, URL
<1>3. IdsMinted(e) /\ DeadUntil(e)
  BY DEF Sound, IdsMinted, DeadUntil
<1>4. PendingHasJob(e)
  BY <1>1 DEF Sound, PendingHasJob
<1>5. KnownIn(db, done) \cup e.bloom \subseteq KnownIn(e, done)
  BY <1>1, <1>2 DEF Sound, KnownIn, Settled
<1>6. FewJobs(d, extra) /\ IsFiniteSet(LiveIn(e))
  BY DEF Sound, FewJobs
<1>7. \A v \in URL : /\ Counted(d, v)
                     /\ v # u => Allowed(e, v) = Allowed(d, v)
                     /\ Allowed(d, v) \in {0, 1}
  BY <1>1 DEF Counted, Allowed
<1>8. \A v \in URL : Cardinality(JobsIn(d, v)) \in Nat
  <2>1. \A v \in URL : JobsIn(d, v) \in SUBSET LiveIn(d)
    BY DEF JobsIn
  <2>2. IsFiniteSet(LiveIn(d))
    BY <1>6 DEF FewJobs
  <2>3. QED
    BY <2>1, <2>2, FS_Subset, FS_CardinalityType
<1>9. Allowed(e, u) = 1 /\ Allowed(d, u) = 0
  <2>1. ~PendingIn(d, u)
    <3>1. DOMAIN d.next \subseteq Listings
      BY <1>2 DEF Keyspace, Partial
    <3>2. QED
      BY <1>2, <3>1 DEF PendingIn
  <2>2. QED
    BY <2>1 DEF Allowed
<1>10. FewJobs(e, extra \ {u})
  <2>1. ASSUME NEW v \in URL
        PROVE  Cardinality(JobsIn(e, v))
                 <= Allowed(e, v) + aborts + (IF v \in extra \ {u} THEN 1 ELSE 0)
    <3>1. Cardinality(JobsIn(d, v)) <= Allowed(d, v) + aborts + (IF v \in extra THEN 1 ELSE 0)
      BY <1>6, <1>7 DEF FewJobs
    <3>2. CASE v = u
      <4>1. v \notin extra \ {u}
        BY <3>2
      <4>2. QED
        BY <1>1, <1>8, <1>9, <3>1, <3>2, <4>1
    <3>3. CASE v # u
      BY <1>1, <1>7, <1>8, <3>1, <3>3
    <3>4. QED
      BY <3>2, <3>3
  <2>2. QED
    BY <1>6, <2>1 DEF FewJobs
<1>11. QED
  BY <1>3, <1>4, <1>5, <1>10, Zenon DEF Sound

\* A keyspace stays sound when more jobs are expected.
LEMMA Lenient ==
    ASSUME NEW done, NEW extra, NEW d \in Sound(done, extra), NEW more, extra \subseteq more,
           aborts \in Nat
    PROVE  d \in Sound(done, more)
<1>1. FewJobs(d, extra)
  BY DEF Sound
<1>2. FewJobs(d, more)
  <2>1. IsFiniteSet(LiveIn(d))
    BY <1>1 DEF FewJobs
  <2>2. ASSUME NEW u \in URL, Counted(d, u)
        PROVE  Cardinality(JobsIn(d, u))
                 <= Allowed(d, u) + aborts + (IF u \in more THEN 1 ELSE 0)
    <3>1. Cardinality(JobsIn(d, u)) <= Allowed(d, u) + aborts + (IF u \in extra THEN 1 ELSE 0)
      BY <1>1, <2>2 DEF FewJobs
    <3>2. JobsIn(d, u) \in SUBSET LiveIn(d)
      BY DEF JobsIn
    <3>3. Cardinality(JobsIn(d, u)) \in Nat /\ Allowed(d, u) \in Nat
      BY <2>1, <3>2, FS_Subset, FS_CardinalityType DEF Allowed
    <3>4. QED
      BY <3>1, <3>3
  <2>3. QED
    BY <2>1, <2>2 DEF FewJobs
<1>3. QED
  BY <1>2 DEF Sound

\* It stays sound when more videos count as done.
LEMMA DoneMore ==
    ASSUME NEW done, NEW extra, db \in Sound(done, extra), NEW more, done \subseteq more
    PROVE  db \in Sound(more, extra)
BY DEF Sound, KnownIn, Settled

-----------------------------------------------------------------------------
(* The commands.                                                           *)

SameSchedule(e, d) == e.dead = d.dead /\ e.next = d.next /\ e.bloom = d.bloom
SameQueues(e, d) == e.ready = d.ready /\ e.processing = d.processing /\ e.delayed = d.delayed

\* A sorted set or hash is a function from its members.
LEMMA ZSet ==
    ASSUME NEW S, NEW z \in Partial(S)
    PROVE  DOMAIN z \subseteq S /\ \A x \in DOMAIN z : z[x] \in Nat
BY DEF Partial

\* What ZADD and HSET make of it.
LEMMA ZAdded ==
    ASSUME NEW S, NEW z \in Partial(S), NEW x \in S, NEW v \in Nat
    PROVE  /\ ZAdd(z, x, v) \in Partial(S)
           /\ \A y : y \in DOMAIN ZAdd(z, x, v) <=> y \in DOMAIN z \/ y = x
           /\ ZAdd(z, x, v)[x] = v
           /\ \A y \in DOMAIN z : y # x => ZAdd(z, x, v)[y] = z[y]
<1>1. PICK T \in SUBSET S : z \in [T -> Nat]
  BY DEF Partial
<1>2. T \cup {x} \in SUBSET S /\ DOMAIN z = T
  BY <1>1
<1>3. ZAdd(z, x, v) \in [T \cup {x} -> Nat]
  BY <1>1 DEF ZAdd
<1>4. ZAdd(z, x, v) \in Partial(S)
  BY <1>2, <1>3 DEF Partial
<1>5. QED
  BY <1>4 DEF ZAdd

\* What ZREM and HDEL make of it.
Minus(less, z, x) == /\ less = ZRem(z, {x}) /\ DOMAIN less = DOMAIN z \ {x}
                     /\ \A y \in DOMAIN z \ {x} : less[y] = z[y]

\* It is one of the same members.
LEMMA ZRemoved ==
    ASSUME NEW S, NEW z \in Partial(S), NEW x
    PROVE  \E less \in Partial(S) : Minus(less, z, x)
<1>1. PICK T \in SUBSET S : z \in [T -> Nat]
  BY DEF Partial
<1>2. T \ {x} \in SUBSET S /\ DOMAIN z = T
  BY <1>1
<1>3. ZRem(z, {x}) \in [T \ {x} -> Nat]
  BY <1>1 DEF ZRem, Restrict
<1>4. ZRem(z, {x}) \in Partial(S)
  BY <1>2, <1>3 DEF Partial
<1>5. PICK less \in Partial(S) : less = ZRem(z, {x})
  BY <1>4, Zenon
<1>6. DOMAIN less = DOMAIN z \ {x} /\ \A y \in DOMAIN z \ {x} : less[y] = z[y]
  BY <1>5 DEF ZRem, Restrict
<1>7. QED
  BY <1>5, <1>6, Zenon DEF Minus

\* INCR mints an id.
LEMMA DoIncr ==
    ASSUME NEW done, NEW extra, NEW d \in Sound(done, extra), NEW e,
           e = Execute(d, Incr), holds \in [Workers -> Job \cup {NoJob}]
    PROVE  /\ e \in Sound(done, extra) /\ e.seq = d.seq + 1 /\ e.lease = d.lease
           /\ SameQueues(e, d) /\ SameSchedule(e, d)
<1>1. d \in Keyspace /\ d.seq \in Nat
  BY DEF Sound, Keyspace
<1>2. PICK n \in Nat : n = d.seq + 1 /\ d.seq <= n /\ e = [d EXCEPT !.seq = n]
  <2>1. e = [d EXCEPT !.seq = d.seq + 1]
    BY <1>1 DEF Execute, Incr
  <2>2. d.seq + 1 \in Nat /\ d.seq <= d.seq + 1
    BY <1>1
  <2>3. QED
    BY <2>1, <2>2
<1>3. /\ e \in Keyspace /\ e.seq = d.seq + 1 /\ d.seq <= e.seq /\ e.lease = d.lease
      /\ SameQueues(e, d) /\ SameSchedule(e, d)
  BY <1>1, <1>2 DEF Keyspace, SameQueues, SameSchedule
<1>4. LiveIn(e) = LiveIn(d) /\ QueuesApart(e) /\ DeadUntil(e)
  BY <1>3 DEF Sound, LiveIn, QueuesApart, DeadUntil, SameQueues, SameSchedule
<1>5. e \in Sound(done, extra)
  BY <1>3, <1>4, Reshaped DEF SameSchedule
<1>6. QED
  BY <1>3, <1>5

\* The leases change, of members in processing.
LEMMA Leases ==
    ASSUME NEW done, NEW extra, NEW d \in Sound(done, extra), NEW e,
           NEW z \in Partial(Job), DOMAIN z \subseteq ToSet(d.processing),
           e = [d EXCEPT !.lease = z], holds \in [Workers -> Job \cup {NoJob}]
    PROVE  /\ e \in Sound(done, extra) /\ e.seq = d.seq /\ e.lease = z
           /\ SameQueues(e, d) /\ SameSchedule(e, d)
<1>1. d \in Keyspace /\ d.seq \in Nat
  BY DEF Sound, Keyspace
<1>2. /\ e \in Keyspace /\ e.seq = d.seq /\ e.lease = z
      /\ SameQueues(e, d) /\ SameSchedule(e, d)
  BY <1>1 DEF Keyspace, SameQueues, SameSchedule
<1>3. LiveIn(e) = LiveIn(d) /\ DeadUntil(e) /\ d.seq <= e.seq
  BY <1>1, <1>2 DEF Sound, LiveIn, DeadUntil, SameQueues, SameSchedule
<1>4. QueuesApart(e)
  BY <1>2 DEF Sound, QueuesApart, SameQueues
<1>5. e \in Sound(done, extra)
  BY <1>2, <1>3, <1>4, Reshaped DEF SameSchedule
<1>6. QED
  BY <1>2, <1>5

\* ZADD lease.
LEMMA DoLease ==
    ASSUME NEW done, NEW extra, NEW d \in Sound(done, extra), NEW e,
           NEW j \in ToSet(d.processing), holds \in [Workers -> Job \cup {NoJob}],
           NEW v \in Nat, e = Execute(d, Put("lease", j, v))
    PROVE  e \in Sound(done, extra) /\ SameQueues(e, d)
<1>1. d \in Keyspace /\ d.lease \in Partial(Job) /\ DOMAIN d.lease \subseteq ToSet(d.processing)
  BY DEF Sound, Keyspace, QueuesApart
<1>2. j \in Job
  BY <1>1, LiveJobs DEF LiveIn
<1>3. PICK z \in Partial(Job) : z = ZAdd(d.lease, j, v) /\ DOMAIN z \subseteq ToSet(d.processing)
  <2>1. /\ ZAdd(d.lease, j, v) \in Partial(Job)
        /\ \A y \in DOMAIN ZAdd(d.lease, j, v) : y \in DOMAIN d.lease \/ y = j
    BY <1>1, <1>2, ZAdded
  <2>2. QED
    BY <1>1, <2>1
<1>4. e = [d EXCEPT !.lease = z]
  BY <1>1, <1>3 DEF Execute, Put, Keyspace
<1>5. QED
  BY <1>3, <1>4, Leases

\* ZREM lease.
LEMMA DoUnlease ==
    ASSUME NEW done, NEW extra, NEW d \in Sound(done, extra), NEW e, NEW j,
           e = Execute(d, Del("lease", j)), holds \in [Workers -> Job \cup {NoJob}]
    PROVE  /\ e \in Sound(done, extra) /\ e.seq = d.seq /\ SameQueues(e, d)
           /\ e.lease \in Partial(Job) /\ j \notin DOMAIN e.lease
<1>1. d \in Keyspace /\ d.lease \in Partial(Job) /\ DOMAIN d.lease \subseteq ToSet(d.processing)
  BY DEF Sound, Keyspace, QueuesApart
<1> PICK z \in Partial(Job) : Minus(z, d.lease, j)
  BY <1>1, ZRemoved, Zenon
<1>2. z = ZRem(d.lease, {j}) /\ DOMAIN z = DOMAIN d.lease \ {j}
  BY DEF Minus
<1>3. e = [d EXCEPT !.lease = z]
  BY <1>1, <1>2 DEF Execute, Del, Keyspace
<1>4. DOMAIN z \subseteq ToSet(d.processing) /\ j \notin DOMAIN z
  BY <1>1, <1>2
<1>5. e \in Sound(done, extra) /\ e.seq = d.seq /\ e.lease = z /\ SameQueues(e, d)
  BY <1>3, <1>4, Leases
<1>6. QED
  BY <1>4, <1>5

\* HSET and HDEL of the counters.
LEMMA DoCount ==
    ASSUME NEW done, NEW extra, NEW d \in Sound(done, extra), NEW e,
           NEW u \in URL, holds \in [Workers -> Job \cup {NoJob}],
           NEW key \in {"attempts", "strikes", "barren"},
           \/ \E v \in Nat : e = Execute(d, Put(key, u, v))
           \/ e = Execute(d, Del(key, u))
    PROVE  /\ e \in Sound(done, extra) /\ e.seq = d.seq /\ e.lease = d.lease
           /\ SameQueues(e, d) /\ SameSchedule(e, d)
<1>1. d \in Keyspace /\ d[key] \in Partial(URL)
  BY DEF Sound, Keyspace
<1>2. PICK z \in Partial(URL) : e = [d EXCEPT ![key] = z]
  <2>1. CASE e = Execute(d, Del(key, u))
    <3>1. e = [d EXCEPT ![key] = ZRem(d[key], {u})]
      BY <1>1, <2>1 DEF Execute, Del, Keyspace
    <3>2. PICK z \in Partial(URL) : Minus(z, d[key], u)
      BY <1>1, ZRemoved, Zenon
    <3>3. QED
      BY <3>1, <3>2, Zenon DEF Minus
  <2>2. CASE e # Execute(d, Del(key, u))
    <3>1. PICK v \in Nat : e = Execute(d, Put(key, u, v))
      BY <2>2
    <3>2. e = [d EXCEPT ![key] = ZAdd(d[key], u, v)]
      BY <1>1, <3>1 DEF Execute, Put, Keyspace
    <3>3. QED
      BY <1>1, <3>2, ZAdded
  <2>3. QED
    BY <2>1, <2>2
<1>3. /\ e \in Keyspace /\ e.seq = d.seq /\ e.lease = d.lease
      /\ SameQueues(e, d) /\ SameSchedule(e, d)
  BY <1>1, <1>2 DEF Keyspace, SameQueues, SameSchedule
<1>4. LiveIn(e) = LiveIn(d) /\ QueuesApart(e) /\ DeadUntil(e) /\ d.seq <= e.seq
  BY <1>1, <1>3 DEF Sound, LiveIn, QueuesApart, DeadUntil, SameQueues, SameSchedule, Keyspace
<1>5. e \in Sound(done, extra)
  BY <1>3, <1>4, Reshaped DEF SameSchedule
<1>6. QED
  BY <1>3, <1>5

\* LPUSH ready, of a job with the id just minted.
LEMMA DoPush ==
    ASSUME NEW done, NEW extra, NEW c \in Sound(done, extra), NEW u \in URL,
           u \notin extra, NEW d, d = Execute(c, Incr), NEW e,
           e = Execute(d, LPush("ready", [id |-> c.seq + 1, url |-> u])),
           aborts \in Nat, holds \in [Workers -> Job \cup {NoJob}]
    PROVE  LET j == [id |-> c.seq + 1, url |-> u]
           IN  /\ e \in Sound(done, extra \cup {u}) /\ e.seq = c.seq + 1
               /\ e.lease = c.lease /\ e.processing = c.processing
               /\ e.delayed = c.delayed /\ SameSchedule(e, c)
               /\ LiveIn(e) = LiveIn(c) \cup {j} /\ j \notin LiveIn(c)
               /\ ToSet(e.ready) = ToSet(c.ready) \cup {j} /\ j \in Job
<1>1. PICK j : j = [id |-> c.seq + 1, url |-> u]
  OBVIOUS
<1>2. /\ c \in Keyspace /\ c.seq \in Nat /\ d \in Keyspace /\ d \in Sound(done, extra)
      /\ c.seq + 1 \in Nat
      /\ d.seq = c.seq + 1 /\ d.lease = c.lease /\ SameQueues(d, c) /\ SameSchedule(d, c)
  <2>1. c \in Keyspace /\ c.seq \in Nat
    BY DEF Sound, Keyspace
  <2>2. /\ d \in Sound(done, extra)
        /\ d.seq = c.seq + 1 /\ d.lease = c.lease /\ SameQueues(d, c) /\ SameSchedule(d, c)
    BY DoIncr
  <2>3. d \in Keyspace
    BY <2>2 DEF Sound
  <2>4. QED
    BY <2>1, <2>2, <2>3
<1>3. j \in Job /\ j.id = c.seq + 1 /\ j.url = u
  BY <1>1, <1>2 DEF Job
<1>4. LiveIn(d) = LiveIn(c)
  BY <1>2 DEF LiveIn, SameQueues
<1>5. j \notin LiveIn(c) /\ \A w \in Workers : holds[w] # j
  <2>1. IdsMinted(c) /\ LiveIn(c) \subseteq Job /\ NoJob \notin Job
    BY <1>2, LiveJobs, UrlAssumption DEF Sound
  <2>2. ~(j.id <= c.seq)
    BY <1>2, <1>3
  <2>3. QED
    BY <1>3, <2>1, <2>2 DEF IdsMinted
<1>6. PICK s \in Seq(Job) : /\ s = <<j>> \o d.ready /\ ToSet(s) = ToSet(d.ready) \cup {j}
                            /\ Distinct(d.ready) /\ j \notin ToSet(d.ready) => Distinct(s)
  <2>1. d.ready \in Seq(Job)
    BY <1>2 DEF Keyspace
  <2>2. QED
    BY <1>3, <2>1, PushList, Zenon
<1>7. e = [d EXCEPT !.ready = s]
  BY <1>1, <1>2, <1>6, Zenon DEF Execute, LPush, Keyspace
<1>8. /\ e \in Keyspace /\ e.seq = d.seq /\ e.lease = d.lease /\ e.processing = d.processing
      /\ e.delayed = d.delayed /\ SameSchedule(e, d) /\ e.ready = s
  BY <1>2, <1>6, <1>7 DEF Keyspace, SameSchedule
<1>9. LiveIn(e) = LiveIn(d) \cup {j}
  BY <1>6, <1>8 DEF LiveIn
<1>10. QueuesApart(e)
  <2>1. QueuesApart(d) /\ j \notin ToSet(d.ready) \cup ToSet(d.processing) \cup DOMAIN d.delayed
    BY <1>2, <1>4, <1>5 DEF Sound, LiveIn
  <2>2. Distinct(e.ready) /\ Distinct(e.processing)
    BY <1>6, <1>8, <2>1, Zenon DEF QueuesApart
  <2>3. /\ ToSet(e.ready) \cap ToSet(e.processing) = {}
        /\ DOMAIN e.delayed \cap (ToSet(e.ready) \cup ToSet(e.processing)) = {}
        /\ DOMAIN e.lease \subseteq ToSet(e.processing)
    <3>1. /\ ToSet(d.ready) \cap ToSet(d.processing) = {}
          /\ DOMAIN d.delayed \cap (ToSet(d.ready) \cup ToSet(d.processing)) = {}
          /\ DOMAIN d.lease \subseteq ToSet(d.processing)
      BY <2>1, Zenon DEF QueuesApart
    <3>2. ToSet(e.ready) = ToSet(d.ready) \cup {j}
      BY <1>6, <1>8, Zenon
    <3>3. QED
      BY <1>8, <2>1, <3>1, <3>2
  <2>4. \A w \in Workers : holds[w] \notin ToSet(e.ready) \cup DOMAIN e.delayed
    BY <1>5, <1>6, <1>8, <2>1 DEF QueuesApart
  <2>5. QED
    BY <2>2, <2>3, <2>4 DEF QueuesApart
<1>11. j.id <= e.seq /\ d.seq <= e.seq /\ j.url \notin extra /\ j \notin LiveIn(d)
  BY <1>2, <1>3, <1>4, <1>5, <1>8
<1>12. e \in Sound(done, extra \cup {u})
  BY <1>2, <1>3, <1>8, <1>9, <1>10, <1>11, Added DEF SameSchedule
<1>13. ToSet(e.ready) = ToSet(c.ready) \cup {j}
  BY <1>2, <1>6, <1>8 DEF SameQueues
<1>14. QED
  BY <1>1, <1>2, <1>3, <1>4, <1>5, <1>8, <1>9, <1>12, <1>13 DEF SameQueues, SameSchedule

\* ZADD delayed, of a job with the id just minted.
LEMMA DoDelay ==
    ASSUME NEW done, NEW extra, NEW c \in Sound(done, extra), NEW u \in URL,
           u \notin extra, NEW d, d = Execute(c, Incr), NEW e, NEW v \in Nat,
           e = Execute(d, Put("delayed", [id |-> c.seq + 1, url |-> u], v)),
           aborts \in Nat, holds \in [Workers -> Job \cup {NoJob}]
    PROVE  LET j == [id |-> c.seq + 1, url |-> u]
           IN  /\ e \in Sound(done, extra \cup {u}) /\ e.seq = c.seq + 1
               /\ e.lease = c.lease /\ e.processing = c.processing
               /\ e.ready = c.ready /\ SameSchedule(e, c)
               /\ LiveIn(e) = LiveIn(c) \cup {j} /\ j \notin LiveIn(c) /\ j \in Job
<1>1. PICK j : j = [id |-> c.seq + 1, url |-> u]
  OBVIOUS
<1>2. /\ c \in Keyspace /\ c.seq \in Nat /\ d \in Keyspace /\ d \in Sound(done, extra)
      /\ c.seq + 1 \in Nat
      /\ d.seq = c.seq + 1 /\ d.lease = c.lease /\ SameQueues(d, c) /\ SameSchedule(d, c)
  <2>1. c \in Keyspace /\ c.seq \in Nat
    BY DEF Sound, Keyspace
  <2>2. /\ d \in Sound(done, extra)
        /\ d.seq = c.seq + 1 /\ d.lease = c.lease /\ SameQueues(d, c) /\ SameSchedule(d, c)
    BY DoIncr
  <2>3. d \in Keyspace
    BY <2>2 DEF Sound
  <2>4. QED
    BY <2>1, <2>2, <2>3
<1>3. j \in Job /\ j.id = c.seq + 1 /\ j.url = u
  BY <1>1, <1>2 DEF Job
<1>4. LiveIn(d) = LiveIn(c)
  BY <1>2 DEF LiveIn, SameQueues
<1>5. j \notin LiveIn(c) /\ \A w \in Workers : holds[w] # j
  <2>1. IdsMinted(c) /\ LiveIn(c) \subseteq Job /\ NoJob \notin Job
    BY <1>2, LiveJobs, UrlAssumption DEF Sound
  <2>2. ~(j.id <= c.seq)
    BY <1>2, <1>3
  <2>3. QED
    BY <1>3, <2>1, <2>2 DEF IdsMinted
<1>6. PICK z \in Partial(Job) : /\ z = ZAdd(d.delayed, j, v)
                                /\ \A x : x \in DOMAIN z <=> x \in DOMAIN d.delayed \/ x = j
  <2>1. d.delayed \in Partial(Job)
    <3>1. d \in Keyspace
      BY <1>2, Zenon
    <3>2. QED
      BY <3>1 DEF Keyspace
  <2>2. QED
    BY <1>3, <2>1, ZAdded
<1>7. e = [d EXCEPT !.delayed = z]
  BY <1>1, <1>2, <1>6, Zenon DEF Execute, Put, Keyspace
<1>8. /\ e \in Keyspace /\ e.seq = d.seq /\ e.lease = d.lease /\ e.processing = d.processing
      /\ e.ready = d.ready /\ SameSchedule(e, d) /\ e.delayed = z
  BY <1>2, <1>6, <1>7 DEF Keyspace, SameSchedule
<1>9. LiveIn(e) = LiveIn(d) \cup {j}
  BY <1>6, <1>8 DEF LiveIn
<1>10. QueuesApart(e)
  <2>1. QueuesApart(d) /\ j \notin ToSet(d.ready) \cup ToSet(d.processing) \cup DOMAIN d.delayed
    BY <1>2, <1>4, <1>5 DEF Sound, LiveIn
  <2>2. /\ DOMAIN e.delayed \cap (ToSet(e.ready) \cup ToSet(e.processing)) = {}
        /\ \A w \in Workers : holds[w] \notin ToSet(e.ready) \cup DOMAIN e.delayed
    BY <1>5, <1>6, <1>8, <2>1 DEF QueuesApart
  <2>3. QED
    BY <1>8, <2>1, <2>2 DEF QueuesApart
<1>11. j.id <= e.seq /\ d.seq <= e.seq /\ j.url \notin extra /\ j \notin LiveIn(d)
  BY <1>2, <1>3, <1>4, <1>5, <1>8
<1>12. e \in Sound(done, extra \cup {u})
  BY <1>2, <1>3, <1>8, <1>9, <1>10, <1>11, Added DEF SameSchedule
<1>13. QED
  BY <1>1, <1>2, <1>3, <1>4, <1>5, <1>8, <1>9, <1>12 DEF SameQueues, SameSchedule

\* LMOVE.
LEMMA DoMove ==
    ASSUME NEW done, NEW extra, NEW d \in Sound(done, extra), d.ready # << >>,
           NEW e, e = Execute(d, LMove), holds \in [Workers -> Job \cup {NoJob}]
    PROVE  /\ e \in Sound(done, extra) /\ SameSchedule(e, d) /\ e.seq = d.seq
           /\ Last(d.ready) \in Job /\ Last(d.ready) \in ToSet(d.ready)
           /\ Last(d.ready) \in ToSet(e.processing)
           /\ Last(d.ready) \notin ToSet(e.ready) \cup DOMAIN e.delayed
<1>1. d \in Keyspace /\ d.ready \in Seq(Job) /\ d.processing \in Seq(Job) /\ d.seq \in Nat
  BY DEF Sound, Keyspace
<1>2. PICK j : j = Last(d.ready)
  OBVIOUS
<1>3. PICK s \in Seq(Job) : /\ s = Front(d.ready) /\ ToSet(d.ready) = ToSet(s) \cup {j}
                            /\ Distinct(d.ready) => Distinct(s) /\ j \notin ToSet(s)
                            /\ j \in Job /\ j \in ToSet(d.ready)
  BY <1>1, <1>2, TakeLast
<1>4. PICK t \in Seq(Job) :
         /\ t = <<j>> \o d.processing /\ ToSet(t) = ToSet(d.processing) \cup {j}
         /\ Distinct(d.processing) /\ j \notin ToSet(d.processing) => Distinct(t)
  BY <1>1, <1>3, PushList
<1>5. e = [d EXCEPT !.ready = s, !.processing = t]
  BY <1>1, <1>2, <1>3, <1>4 DEF Execute, LMove, Keyspace
<1>6. /\ e \in Keyspace /\ e.seq = d.seq /\ e.lease = d.lease /\ e.delayed = d.delayed
      /\ SameSchedule(e, d) /\ e.ready = s /\ e.processing = t
  BY <1>1, <1>3, <1>4, <1>5 DEF Keyspace, SameSchedule
<1>7. QueuesApart(d)
  BY DEF Sound
<1>8. j \notin ToSet(d.processing) \cup DOMAIN d.delayed
  BY <1>3, <1>7 DEF QueuesApart
<1>9. QueuesApart(e)
  <2>1. Distinct(e.ready) /\ Distinct(e.processing) /\ j \notin ToSet(e.ready)
    BY <1>3, <1>4, <1>6, <1>7, <1>8 DEF QueuesApart
  <2>2. /\ ToSet(e.ready) \cap ToSet(e.processing) = {}
        /\ DOMAIN e.delayed \cap (ToSet(e.ready) \cup ToSet(e.processing)) = {}
        /\ DOMAIN e.lease \subseteq ToSet(e.processing)
    BY <1>3, <1>4, <1>6, <1>7, <1>8, <2>1 DEF QueuesApart
  <2>3. \A w \in Workers : holds[w] \notin ToSet(e.ready) \cup DOMAIN e.delayed
    BY <1>3, <1>6, <1>7 DEF QueuesApart
  <2>4. QED
    BY <2>1, <2>2, <2>3 DEF QueuesApart
<1>10. LiveIn(e) = LiveIn(d) /\ DeadUntil(e) /\ d.seq <= e.seq
  BY <1>1, <1>3, <1>4, <1>6 DEF Sound, LiveIn, DeadUntil, SameSchedule
<1>11. e \in Sound(done, extra)
  BY <1>6, <1>9, <1>10, Reshaped DEF SameSchedule
<1>12. QED
  BY <1>2, <1>3, <1>4, <1>6, <1>7, <1>8, <1>11 DEF QueuesApart

Without(e, d, list, j) ==
    /\ e.seq = d.seq /\ e.lease = d.lease
    /\ \A k \in ToSet(d[list]) : k # j => k \in ToSet(e[list])

\* LREM, of a member that has no lease, from the list it is on.
LEMMA DoRemove ==
    ASSUME NEW done, NEW extra, NEW d \in Sound(done, extra), NEW e,
           NEW list \in {"ready", "processing"}, NEW j \in ToSet(d[list]),
           j \notin DOMAIN d.lease, Spare(d, j, done), e = Execute(d, LRem(list, j)),
           aborts \in Nat
    PROVE  e \in Sound(done, extra \ {j.url}) /\ Without(e, d, list, j)
<1>1. d \in Keyspace /\ d[list] \in Seq(Job) /\ QueuesApart(d)
  BY DEF Sound, Keyspace
<1>2. Distinct(d[list])
  BY <1>1 DEF QueuesApart
<1>3. PICK s \in Seq(Job) : /\ s = RemoveFirst(d[list], j) /\ Distinct(s)
                            /\ ToSet(s) = ToSet(d[list]) \ {j}
  BY <1>1, <1>2, RemoveOne
<1>4. e = [d EXCEPT ![list] = s]
  BY <1>1, <1>3 DEF Execute, LRem, Keyspace
<1>5. /\ e \in Keyspace /\ e.seq = d.seq /\ e.lease = d.lease /\ e.delayed = d.delayed
      /\ SameSchedule(e, d) /\ e[list] = s
      /\ list = "ready" => e.processing = d.processing
      /\ list = "processing" => e.ready = d.ready
  BY <1>1, <1>3, <1>4 DEF Keyspace, SameSchedule
<1>6. QueuesApart(e) /\ LiveIn(e) = LiveIn(d) \ {j} /\ j \in LiveIn(d)
  <2>1. CASE list = "ready"
    <3>1. j \notin ToSet(d.processing) /\ j \notin DOMAIN d.delayed
      BY <1>1, <2>1 DEF QueuesApart
    <3>2. LiveIn(e) = LiveIn(d) \ {j} /\ j \in LiveIn(d)
      BY <1>3, <1>5, <2>1, <3>1 DEF LiveIn
    <3>3. QueuesApart(e)
      BY <1>1, <1>3, <1>5, <2>1, Zenon DEF QueuesApart
    <3>4. QED
      BY <3>2, <3>3
  <2>2. CASE list = "processing"
    <3>1. j \notin ToSet(d.ready) /\ j \notin DOMAIN d.delayed
      BY <1>1, <2>2 DEF QueuesApart
    <3>2. LiveIn(e) = LiveIn(d) \ {j} /\ j \in LiveIn(d)
      BY <1>3, <1>5, <2>2, <3>1 DEF LiveIn
    <3>3. QueuesApart(e)
      BY <1>1, <1>3, <1>5, <2>2, Zenon DEF QueuesApart
    <3>4. QED
      BY <3>2, <3>3
  <2>3. QED
    BY <2>1, <2>2
<1>7. e \in Sound(done, extra \ {j.url})
  BY <1>5, <1>6, Removed DEF SameSchedule
<1>8. QED
  BY <1>3, <1>5, <1>7 DEF Without

\* ZREM delayed.
LEMMA DoDrop ==
    ASSUME NEW done, NEW extra, NEW d \in Sound(done, extra), NEW e,
           NEW j \in DOMAIN d.delayed, Spare(d, j, done), e = Execute(d, Del("delayed", j)),
           aborts \in Nat
    PROVE  /\ e \in Sound(done, extra \ {j.url}) /\ e.seq = d.seq
           /\ DOMAIN e.delayed = DOMAIN d.delayed \ {j}
<1>1. d \in Keyspace /\ d.delayed \in Partial(Job) /\ QueuesApart(d)
  BY DEF Sound, Keyspace
<1> PICK z \in Partial(Job) : Minus(z, d.delayed, j)
  BY <1>1, ZRemoved, Zenon
<1>2. z = ZRem(d.delayed, {j}) /\ DOMAIN z = DOMAIN d.delayed \ {j}
  BY DEF Minus
<1>3. e = [d EXCEPT !.delayed = z]
  BY <1>1, <1>2 DEF Execute, Del, Keyspace
<1>4. /\ e \in Keyspace /\ e.seq = d.seq /\ e.lease = d.lease /\ e.delayed = z
      /\ e.ready = d.ready /\ e.processing = d.processing /\ SameSchedule(e, d)
  BY <1>1, <1>2, <1>3 DEF Keyspace, SameSchedule
<1>5. LiveIn(e) = LiveIn(d) \ {j} /\ j \in LiveIn(d)
  BY <1>1, <1>2, <1>4 DEF LiveIn, QueuesApart
<1>6. QueuesApart(e)
  <2>1. DOMAIN e.delayed \subseteq DOMAIN d.delayed
    BY <1>2, <1>4
  <2>2. QED
    BY <1>1, <1>4, <2>1 DEF QueuesApart
<1>7. e \in Sound(done, extra \ {j.url})
  BY <1>4, <1>5, <1>6, Removed DEF SameSchedule
<1>8. QED
  BY <1>2, <1>4, <1>7

\* How long the url of a dead entry may be dead.
DeadFor(u, v) == IF u \in Videos THEN v = 0 ELSE v \in 1..PendingScore - 1

\* The dead change, none of the videos back to life.
LEMMA Deaths ==
    ASSUME NEW done, NEW extra, NEW d \in Sound(done, extra), NEW e,
           NEW z \in Partial(URL), e = [d EXCEPT !.dead = z],
           \A u \in DOMAIN z : DeadFor(u, z[u]), Videos \cap DOMAIN d.dead \subseteq DOMAIN z,
           holds \in [Workers -> Job \cup {NoJob}]
    PROVE  /\ e \in Sound(done, extra) /\ e.seq = d.seq /\ e.lease = d.lease /\ e.dead = z
           /\ SameQueues(e, d) /\ e.next = d.next /\ e.bloom = d.bloom
<1>1. d \in Keyspace /\ d.seq \in Nat
  BY DEF Sound, Keyspace
<1>2. /\ e \in Keyspace /\ e.seq = d.seq /\ e.lease = d.lease /\ e.dead = z
      /\ SameQueues(e, d) /\ e.next = d.next /\ e.bloom = d.bloom
  BY <1>1 DEF Keyspace, SameQueues
<1>3. DeadUntil(e)
  BY <1>2, Zenon DEF DeadUntil, DeadFor
<1>4. LiveIn(e) = LiveIn(d) /\ QueuesApart(e) /\ d.seq <= e.seq
  BY <1>1, <1>2 DEF Sound, LiveIn, QueuesApart, SameQueues
<1>5. e \in Sound(done, extra)
  BY <1>2, <1>3, <1>4, Reshaped
<1>6. QED
  BY <1>2, <1>5

\* HSET dead.
LEMMA DoBury ==
    ASSUME NEW done, NEW extra, NEW d \in Sound(done, extra), NEW e, NEW u \in URL,
           NEW v \in Nat, DeadFor(u, v), e = Execute(d, Put("dead", u, v)),
           holds \in [Workers -> Job \cup {NoJob}]
    PROVE  /\ e \in Sound(done, extra) /\ e.seq = d.seq /\ e.lease = d.lease
           /\ SameQueues(e, d) /\ e.next = d.next /\ u \in DOMAIN e.dead
<1>1. d \in Keyspace /\ d.dead \in Partial(URL) /\ DeadUntil(d)
  BY DEF Sound, Keyspace
<1>2. PICK z \in Partial(URL) :
         /\ z = ZAdd(d.dead, u, v) /\ z[u] = v
         /\ \A y : y \in DOMAIN z <=> y \in DOMAIN d.dead \/ y = u
         /\ \A y \in DOMAIN d.dead : y # u => z[y] = d.dead[y]
  BY <1>1, ZAdded
<1>3. e = [d EXCEPT !.dead = z]
  BY <1>1, <1>2 DEF Execute, Put, Keyspace
<1>4. \A y \in DOMAIN z : DeadFor(y, z[y])
  BY <1>1, <1>2, Zenon DEF DeadUntil, DeadFor
<1>5. Videos \cap DOMAIN d.dead \subseteq DOMAIN z /\ u \in DOMAIN z
  BY <1>2
<1>6. QED
  BY <1>3, <1>4, <1>5, Deaths

\* HDEL dead, of a listing.
LEMMA DoUnbury ==
    ASSUME NEW done, NEW extra, NEW d \in Sound(done, extra), NEW e, NEW u \in Listings,
           e = Execute(d, Del("dead", u)), holds \in [Workers -> Job \cup {NoJob}]
    PROVE  /\ e \in Sound(done, extra) /\ e.seq = d.seq /\ e.lease = d.lease
           /\ SameQueues(e, d) /\ e.next = d.next
<1>1. d \in Keyspace /\ d.dead \in Partial(URL) /\ DeadUntil(d) /\ u \notin Videos
  BY UrlAssumption DEF Sound, Keyspace
<1> PICK z \in Partial(URL) : Minus(z, d.dead, u)
  BY <1>1, ZRemoved, Zenon
<1>2. /\ z = ZRem(d.dead, {u}) /\ DOMAIN z = DOMAIN d.dead \ {u}
      /\ \A y \in DOMAIN d.dead \ {u} : z[y] = d.dead[y]
  BY DEF Minus
<1>3. e = [d EXCEPT !.dead = z]
  BY <1>1, <1>2 DEF Execute, Del, Keyspace
<1>4. \A y \in DOMAIN z : DeadFor(y, z[y])
  BY <1>1, <1>2, Zenon DEF DeadUntil, DeadFor
<1>5. Videos \cap DOMAIN d.dead \subseteq DOMAIN z
  BY <1>1, <1>2
<1>6. QED
  BY <1>3, <1>4, <1>5, Deaths

\* No url but u is made PENDING.
OthersFree(e, d, u) == \A w : w # u /\ PendingIn(e, w) => PendingIn(d, w)

Rescheduled(e, d, u) ==
    /\ e.seq = d.seq /\ e.lease = d.lease /\ SameQueues(e, d)
    /\ u \in DOMAIN e.next /\ ~PendingIn(e, u) /\ OthersFree(e, d, u)

\* The url takes the place of a url in hand, or keeps its own.
Timed(done, extra, d, e, u) ==
    /\ u \notin extra => e \in Sound(done, extra \cup {u})
    /\ ~PendingIn(d, u) => e \in Sound(done, extra)
    /\ Rescheduled(e, d, u)

\* ZADD listing:next, of a time.
LEMMA DoSchedule ==
    ASSUME NEW done, NEW extra, NEW d \in Sound(done, extra), NEW e, NEW u \in Listings,
           NEW v \in Nat, v # PendingScore, e = Execute(d, Put("next", u, v)),
           aborts \in Nat
    PROVE  Timed(done, extra, d, e, u)
<1>1. d \in Keyspace /\ d.next \in Partial(Listings)
  BY DEF Sound, Keyspace
<1>2. PICK z \in Partial(Listings) :
         /\ z = ZAdd(d.next, u, v) /\ z[u] = v
         /\ \A y : y \in DOMAIN z <=> y \in DOMAIN d.next \/ y = u
         /\ \A y \in DOMAIN d.next : y # u => z[y] = d.next[y]
  BY <1>1, ZAdded
<1>3. e = [d EXCEPT !.next = z]
  BY <1>1, <1>2 DEF Execute, Put, Keyspace
<1>4. /\ e \in Keyspace /\ e.seq = d.seq /\ e.lease = d.lease /\ e.next = z
      /\ SameQueues(e, d) /\ e.dead = d.dead /\ e.bloom = d.bloom
  BY <1>1, <1>2, <1>3 DEF Keyspace, SameQueues
<1>5. LiveIn(e) = LiveIn(d) /\ QueuesApart(e)
  BY <1>4 DEF Sound, LiveIn, QueuesApart, SameQueues
<1>6. /\ DOMAIN e.next = DOMAIN d.next \cup {u} /\ ~PendingIn(e, u)
      /\ \A w \in DOMAIN d.next : w # u => e.next[w] = d.next[w]
  BY <1>2, <1>4 DEF PendingIn
<1>7. /\ u \notin extra => e \in Sound(done, extra \cup {u})
      /\ ~PendingIn(d, u) => e \in Sound(done, extra)
  BY <1>4, <1>5, <1>6, Scheduled
<1>8. Rescheduled(e, d, u)
  BY <1>4, <1>6 DEF Rescheduled, OthersFree, PendingIn
<1>9. QED
  BY <1>7, <1>8, Zenon DEF Timed

\* ZADD listing:next, of PENDING.
LEMMA DoPending ==
    ASSUME NEW done, NEW extra, NEW d \in Sound(done, extra), NEW e, NEW u \in Listings,
           e = Execute(d, Put("next", u, PendingScore)), ~PendingIn(d, u),
           JobsIn(d, u) # {}, aborts \in Nat
    PROVE  e \in Sound(done, extra \ {u}) /\ e.seq = d.seq /\ OthersFree(e, d, u)
<1>1. d \in Keyspace /\ d.next \in Partial(Listings) /\ PendingScore \in Nat
  BY TimeAssumption DEF Sound, Keyspace
<1>2. PICK z \in Partial(Listings) :
         /\ z = ZAdd(d.next, u, PendingScore) /\ z[u] = PendingScore
         /\ \A y : y \in DOMAIN z <=> y \in DOMAIN d.next \/ y = u
         /\ \A y \in DOMAIN d.next : y # u => z[y] = d.next[y]
  BY <1>1, ZAdded
<1>3. e = [d EXCEPT !.next = z]
  BY <1>1, <1>2 DEF Execute, Put, Keyspace
<1>4. /\ e \in Keyspace /\ e.seq = d.seq /\ e.lease = d.lease /\ e.next = z
      /\ SameQueues(e, d) /\ e.dead = d.dead /\ e.bloom = d.bloom
  BY <1>1, <1>2, <1>3 DEF Keyspace, SameQueues
<1>5. LiveIn(e) = LiveIn(d) /\ QueuesApart(e)
  BY <1>4 DEF Sound, LiveIn, QueuesApart, SameQueues
<1>6. /\ DOMAIN e.next = DOMAIN d.next \cup {u} /\ PendingIn(e, u)
      /\ \A w \in DOMAIN d.next : w # u => e.next[w] = d.next[w]
  BY <1>2, <1>4 DEF PendingIn
<1>7. e \in Sound(done, extra \ {u})
  BY <1>4, <1>5, <1>6, MadePending
<1>8. OthersFree(e, d, u)
  BY <1>6 DEF OthersFree, PendingIn
<1>9. QED
  BY <1>4, <1>7, <1>8

\* BF.ADD of a video that is not in a filter with room.
LEMMA DoClaim ==
    ASSUME NEW done, NEW extra, NEW d \in Sound(done, extra), NEW e, NEW u \in Videos,
           e = Execute(d, BfAdd(u)), u \notin d.bloom,
           Cardinality(d.bloom) < BloomCapacity, JobsIn(d, u) # {}, aborts \in Nat
    PROVE  e \in Sound(done, extra \ {u})
<1>1. d \in Keyspace /\ d.bloom \in SUBSET Videos
  BY DEF Sound, Keyspace
<1>2. PICK bloom \in SUBSET Videos : bloom = d.bloom \cup {u} /\ e = [d EXCEPT !.bloom = bloom]
  BY <1>1 DEF Execute, BfAdd, Keyspace
<1>3. /\ e \in Keyspace /\ e.seq = d.seq /\ e.lease = d.lease /\ e.bloom = bloom
      /\ SameQueues(e, d) /\ e.dead = d.dead /\ e.next = d.next
  BY <1>1, <1>2 DEF Keyspace, SameQueues
<1>4. LiveIn(e) = LiveIn(d) /\ QueuesApart(e)
  BY <1>3 DEF Sound, LiveIn, QueuesApart, SameQueues
<1>5. QED
  BY <1>2, <1>3, <1>4, Claimed

-----------------------------------------------------------------------------
(* Pieces of scripts.                                                      *)

\* A pair of commands is a concatenation.
LEMMA Pair ==
    ASSUME NEW a, NEW b
    PROVE  <<a, b>> = <<a>> \o <<b>>
<1>1. PICK s : s = <<a>>
  OBVIOUS
<1>2. PICK t : t = <<b>>
  OBVIOUS
<1>3. PICK u : u = <<a, b>>
  OBVIOUS
<1>4. s \in Seq({a, b}) /\ Len(s) = 1 /\ s[1] = a
  BY <1>1
<1>5. t \in Seq({a, b}) /\ Len(t) = 1 /\ t[1] = b
  BY <1>2
<1>6. u \in Seq({a, b}) /\ Len(u) = 2 /\ u[1] = a /\ u[2] = b
  BY <1>3
<1>7. PICK v : v = s \o t
  OBVIOUS
<1>8. v \in Seq({a, b}) /\ Len(v) = 2 /\ v[1] = a /\ v[2] = b
  <2>1. /\ v \in Seq({a, b}) /\ Len(v) = Len(s) + Len(t)
        /\ \A i \in 1..Len(s) + Len(t) : v[i] = IF i <= Len(s) THEN s[i] ELSE t[i - Len(s)]
    <3>1. PICK S : S = {a, b}
      OBVIOUS
    <3>2. s \in Seq(S) /\ t \in Seq(S)
      BY <1>4, <1>5, <3>1, Zenon
    <3>3. /\ s \o t \in Seq(S) /\ Len(s \o t) = Len(s) + Len(t)
          /\ \A i \in 1..Len(s) + Len(t) : (s \o t)[i] = IF i <= Len(s) THEN s[i] ELSE t[i - Len(s)]
      BY <3>2, ConcatProperties, Zenon
    <3>4. QED
      BY <1>7, <3>1, <3>3, Zenon
  <2>2. /\ Len(s) + Len(t) = 2 /\ 1 \in 1..2 /\ 2 \in 1..2
        /\ 2 - Len(s) = 1 /\ 1 <= Len(s) /\ ~(2 <= Len(s))
    BY <1>4, <1>5
  <2>3. QED
    BY <1>4, <1>5, <2>1, <2>2
<1>9. \A i \in 1..2 : u[i] = v[i]
  BY <1>6, <1>8
<1>10. u = v
  BY <1>6, <1>8, <1>9, SeqEqual
<1>11. QED
  BY <1>1, <1>2, <1>3, <1>7, <1>10

\* Two, three and five commands in a row.
LEMMA TwoCommands ==
    ASSUME NEW P, NEW R, NEW T, NEW Q, NEW a, NEW b,
           Safe(P, <<a>>, R, Q), Safe(R, <<b>>, T, Q)
    PROVE  Safe(P, <<a, b>>, T, Q)
<1>1. <<a, b>> = <<a>> \o <<b>>
  BY Pair
<1>2. QED
  BY <1>1, Sequel

\* The same.
LEMMA ThreeCommands ==
    ASSUME NEW P, NEW R, NEW T, NEW Q, NEW a, NEW b, NEW c,
           Safe(P, <<a, b>>, R, Q), Safe(R, <<c>>, T, Q)
    PROVE  Safe(P, <<a, b, c>>, T, Q)
<1>1. <<a, b, c>> = <<a, b>> \o <<c>>
  OBVIOUS
<1>2. QED
  BY <1>1, Sequel

\* The same.
LEMMA FiveCommands ==
    ASSUME NEW P, NEW R, NEW T, NEW U, NEW Q, NEW a, NEW b, NEW c, NEW d, NEW e,
           Safe(P, <<a, b, c>>, R, Q), Safe(R, <<d>>, T, Q), Safe(T, <<e>>, U, Q)
    PROVE  Safe(P, <<a, b, c, d, e>>, U, Q)
<1>1. <<a, b, c, d>> = <<a, b, c>> \o <<d>>
  OBVIOUS
<1>2. <<a, b, c, d, e>> = <<a, b, c, d>> \o <<e>>
  OBVIOUS
<1>3. Safe(P, <<a, b, c, d>>, T, Q)
  BY <1>1, Sequel
<1>4. QED
  BY <1>2, <1>3, Sequel

\* A call may end anywhere in a script: the urls a keyspace has extra jobs of
\* are then any urls.
LEMMA Anywhere ==
    ASSUME NEW done, NEW extra \in SUBSET URL, aborts \in Nat
    PROVE  Sound(done, extra) \subseteq Sound(done, URL)
BY Lenient

\* j is what an INCR and an LPUSH ready made of c.
Pushed(e, c, j) ==
    /\ e.seq = c.seq + 1 /\ e.lease = c.lease /\ e.processing = c.processing
    /\ e.delayed = c.delayed /\ SameSchedule(e, c)
    /\ LiveIn(e) = LiveIn(c) \cup {j} /\ j \notin LiveIn(c)
    /\ ToSet(e.ready) = ToSet(c.ready) \cup {j}

PushedOf(P, done, u, j) == {e \in Sound(done, {u}) : \E c \in P : Pushed(e, c, j)}

\* INCR, LPUSH ready.
LEMMA PushSafe ==
    ASSUME NEW done, NEW P \in SUBSET Sound(done, {}), NEW i \in Nat, NEW u \in URL,
           \A d \in P : d.seq + 1 = db.seq + i,
           aborts \in Nat, holds \in [Workers -> Job \cup {NoJob}]
    PROVE  /\ Safe(P, Push(i, u), PushedOf(P, done, u, NewJob(i, u)), Sound(done, URL))
           /\ P # {} => NewJob(i, u) \in Job
<1> DEFINE Q == Sound(done, URL)
           j == NewJob(i, u)
           M == {d \in Sound(done, {}) : \E c \in P : d = Execute(c, Incr)}
<1>1. Sound(done, {}) \subseteq Q /\ Sound(done, {u}) \subseteq Q
  BY Anywhere
<1>2. Safe(P, <<Incr>>, M, Q)
  <2>1. \A d \in P : Execute(d, Incr) \in M
    BY DoIncr
  <2>2. QED
    BY <1>1, <2>1, OneCommand
<1>3. ASSUME NEW c \in P, NEW d, d = Execute(c, Incr)
      PROVE  /\ Execute(d, LPush("ready", j)) \in PushedOf(P, done, u, j)
             /\ j \in Job
  <2>1. PICK e : e = Execute(d, LPush("ready", j))
    OBVIOUS
  <2>2. j = [id |-> c.seq + 1, url |-> u]
    BY DEF NewJob
  <2>3. /\ e \in Sound(done, {} \cup {u}) /\ e.seq = c.seq + 1
        /\ e.lease = c.lease /\ e.processing = c.processing
        /\ e.delayed = c.delayed /\ SameSchedule(e, c)
        /\ LiveIn(e) = LiveIn(c) \cup {j} /\ j \notin LiveIn(c)
        /\ ToSet(e.ready) = ToSet(c.ready) \cup {j} /\ j \in Job
    <3>1. PICK extra : extra = {}
      OBVIOUS
    <3>2. /\ c \in Sound(done, extra) /\ u \notin extra
          /\ e = Execute(d, LPush("ready", [id |-> c.seq + 1, url |-> u]))
      BY <2>1, <2>2, <3>1
    <3>3. /\ e \in Sound(done, extra \cup {u}) /\ e.seq = c.seq + 1
          /\ e.lease = c.lease /\ e.processing = c.processing
          /\ e.delayed = c.delayed /\ SameSchedule(e, c)
          /\ LiveIn(e) = LiveIn(c) \cup {[id |-> c.seq + 1, url |-> u]}
          /\ [id |-> c.seq + 1, url |-> u] \notin LiveIn(c)
          /\ ToSet(e.ready) = ToSet(c.ready) \cup {[id |-> c.seq + 1, url |-> u]}
          /\ [id |-> c.seq + 1, url |-> u] \in Job
      BY <1>3, <3>2, DoPush
    <3>4. QED
      BY <2>2, <3>1, <3>3, Zenon
  <2>4. {} \cup {u} = {u}
    OBVIOUS
  <2>5. QED
    BY <2>1, <2>3, <2>4, Zenon DEF PushedOf, Pushed
<1>4. Safe(M, <<LPush("ready", j)>>, PushedOf(P, done, u, j), Q)
  <2>1. \A d \in M : Execute(d, LPush("ready", j)) \in PushedOf(P, done, u, j)
    BY <1>3
  <2>2. M \subseteq Q /\ PushedOf(P, done, u, j) \subseteq Q
    BY <1>1 DEF PushedOf
  <2>3. QED
    BY <2>1, <2>2, OneCommand, Zenon
<1>5. QED
  BY <1>2, <1>3, <1>4, TwoCommands, Zenon DEF Push

\* Between the commands of a script: the ids given out so far, members that are
\* still in processing, and what the leases may be.
Phase(done, extra, n, js, Ls) ==
    {d \in Sound(done, extra) : d.seq = n /\ js \subseteq ToSet(d.processing) /\ d.lease \in Ls}

Unleased(j) == {z \in Partial(Job) : j \notin DOMAIN z}

\* Member j of processing can go.
Spared(done, n, js, Ls, j) ==
    {d \in Phase(done, {j.url}, n, js, Ls) : Spare(d, j, done)}

\* LREM processing of a member that can go.
LEMMA RemoveSafe ==
    ASSUME NEW done, NEW n, NEW j \in Job, NEW js, j \in js,
           NEW Ls, \A z \in Ls : j \notin DOMAIN z, aborts \in Nat
    PROVE  Safe(Spared(done, n, js, Ls, j), <<LRem("processing", j)>>,
                Phase(done, {}, n, js \ {j}, Ls), Sound(done, URL))
<1>1. ASSUME NEW d \in Spared(done, n, js, Ls, j)
      PROVE  Execute(d, LRem("processing", j)) \in Phase(done, {}, n, js \ {j}, Ls)
  <2>1. /\ d \in Sound(done, {j.url}) /\ d.seq = n /\ j \in ToSet(d.processing)
        /\ js \subseteq ToSet(d.processing) /\ d.lease \in Ls /\ j \notin DOMAIN d.lease
        /\ Spare(d, j, done)
    BY DEF Spared, Phase
  <2>2. PICK e : e = Execute(d, LRem("processing", j))
    OBVIOUS
  <2>3. PICK list \in {"ready", "processing"} : list = "processing"
    OBVIOUS
  <2>4. e \in Sound(done, {j.url} \ {j.url}) /\ Without(e, d, list, j)
    <3>1. j \in ToSet(d[list]) /\ e = Execute(d, LRem(list, j))
      BY <2>1, <2>2, <2>3
    <3>2. PICK extra : extra = {j.url}
      OBVIOUS
    <3>3. d \in Sound(done, extra) /\ j \notin DOMAIN d.lease /\ Spare(d, j, done)
      BY <2>1, <3>2
    <3>4. e \in Sound(done, extra \ {j.url}) /\ Without(e, d, list, j)
      BY <3>1, <3>3, DoRemove
    <3>5. QED
      BY <3>2, <3>4
  <2>5. {j.url} \ {j.url} = {} /\ e[list] = e.processing /\ d[list] = d.processing
    BY <2>3
  <2>6. QED
    BY <2>1, <2>2, <2>4, <2>5 DEF Phase, Without
<1>2. Spared(done, n, js, Ls, j) \subseteq Sound(done, URL)
  <2>1. {j.url} \in SUBSET URL
    BY DEF Job
  <2>2. QED
    BY <2>1, Anywhere DEF Spared, Phase
<1>3. Phase(done, {}, n, js \ {j}, Ls) \subseteq Sound(done, URL)
  BY Anywhere DEF Phase
<1>4. QED
  BY <1>1, <1>2, <1>3, OneCommand

\* INCR, LPUSH ready of a copy of a member of processing, with its own id.
LEMMA CopySafe ==
    ASSUME NEW done, NEW i \in Nat, NEW n \in Nat, n + 1 = db.seq + i, NEW j \in Job,
           NEW js, j \in js, NEW Ls,
           aborts \in Nat, holds \in [Workers -> Job \cup {NoJob}]
    PROVE  Safe(Phase(done, {}, n, js, Ls), Push(i, j.url),
                Spared(done, n + 1, js, Ls, j), Sound(done, URL))
<1> DEFINE P == Phase(done, {}, n, js, Ls)
<1>1. j.url \in URL
  BY DEF Job
<1>2. P \in SUBSET Sound(done, {}) /\ \A d \in P : d.seq + 1 = db.seq + i /\ d.seq = n
  BY DEF Phase
<1>3. /\ Safe(P, Push(i, j.url), PushedOf(P, done, j.url, NewJob(i, j.url)), Sound(done, URL))
      /\ P # {} => NewJob(i, j.url) \in Job
  <2> HIDE DEF P
  <2>1. P \in SUBSET Sound(done, {}) /\ \A d \in P : d.seq + 1 = db.seq + i
    BY <1>2, Zenon
  <2>2. QED
    BY <1>1, <2>1, PushSafe, Zenon
<1>4. ASSUME NEW e \in PushedOf(P, done, j.url, NewJob(i, j.url))
      PROVE  e \in Spared(done, n + 1, js, Ls, j)
  <2>1. PICK c \in P : Pushed(e, c, NewJob(i, j.url))
    BY DEF PushedOf
  <2>2. e \in Phase(done, {j.url}, n + 1, js, Ls)
    BY <1>2, <2>1 DEF Phase, Pushed, PushedOf
  <2>3. j \in LiveIn(c)
    BY DEF Phase, LiveIn
  <2>4. NewJob(i, j.url).url = j.url
    BY DEF NewJob
  <2>5. NewJob(i, j.url) \in LiveIn(e) /\ NewJob(i, j.url) # j
    BY <2>1, <2>3, Zenon DEF Pushed
  <2>6. QED
    BY <2>2, <2>4, <2>5, Zenon DEF Spared, Spare
<1>5. QED
  BY <1>3, <1>4, Weaken

\* ZREM lease of a member of processing.
LEMMA UnleaseSafe ==
    ASSUME NEW done, NEW n, NEW j \in Job, NEW js, j \in js, NEW Ls,
           aborts \in Nat, holds \in [Workers -> Job \cup {NoJob}]
    PROVE  Safe(Phase(done, {}, n, js, Ls), <<Del("lease", j)>>,
                Phase(done, {}, n, js, Unleased(j)), Sound(done, URL))
<1>1. ASSUME NEW d \in Phase(done, {}, n, js, Ls)
      PROVE  Execute(d, Del("lease", j)) \in Phase(done, {}, n, js, Unleased(j))
  <2>1. /\ d \in Sound(done, {}) /\ d.seq = n /\ j \in ToSet(d.processing)
        /\ js \subseteq ToSet(d.processing) /\ d.lease \in Partial(Job)
    BY DEF Phase, Sound, Keyspace
  <2>2. PICK e : e = Execute(d, Del("lease", j))
    OBVIOUS
  <2>3. /\ e \in Sound(done, {}) /\ e.seq = d.seq /\ SameQueues(e, d)
        /\ e.lease \in Partial(Job) /\ j \notin DOMAIN e.lease
    BY <2>1, <2>2, DoUnlease
  <2>4. QED
    BY <2>1, <2>2, <2>3 DEF Phase, SameQueues, Unleased
<1>2. \A Fs : Phase(done, {}, n, js, Fs) \subseteq Sound(done, URL)
  BY Anywhere DEF Phase
<1>3. QED
  BY <1>1, <1>2, OneCommand

\* HSET and HDEL of a counter.
LEMMA CountSafe ==
    ASSUME NEW done, NEW extra \in SUBSET URL, NEW n, NEW js, NEW Ls, NEW u \in URL,
           NEW key \in {"attempts", "strikes", "barren"}, NEW c,
           c = Del(key, u) \/ \E v \in Nat : c = Put(key, u, v),
           aborts \in Nat, holds \in [Workers -> Job \cup {NoJob}]
    PROVE  Safe(Phase(done, extra, n, js, Ls), <<c>>, Phase(done, extra, n, js, Ls),
                Sound(done, URL))
<1>1. ASSUME NEW d \in Phase(done, extra, n, js, Ls)
      PROVE  Execute(d, c) \in Phase(done, extra, n, js, Ls)
  <2>1. PICK e : e = Execute(d, c)
    OBVIOUS
  <2>2. d \in Sound(done, extra)
    BY DEF Phase
  <2>3. e = Execute(d, Del(key, u)) \/ \E v \in Nat : e = Execute(d, Put(key, u, v))
    BY <2>1, Zenon
  <2>4. e \in Sound(done, extra) /\ e.seq = d.seq /\ e.lease = d.lease /\ SameQueues(e, d)
    BY <2>2, <2>3, DoCount
  <2>5. QED
    BY <2>1, <2>4 DEF Phase, SameQueues
<1>2. Phase(done, extra, n, js, Ls) \subseteq Sound(done, URL)
  BY Anywhere DEF Phase
<1>3. QED
  BY <1>1, <1>2, OneCommand

\* The end of a resolution: HDEL attempts, HDEL strikes.
LEMMA ForgetSafe ==
    ASSUME NEW done, NEW n, NEW js, NEW Ls, NEW u \in URL,
           aborts \in Nat, holds \in [Workers -> Job \cup {NoJob}]
    PROVE  Safe(Phase(done, {}, n, js, Ls), Forget(u), Sound(done, {}), Sound(done, URL))
<1> DEFINE P == Phase(done, {}, n, js, Ls)
<1>1. Safe(P, <<Del("attempts", u)>>, P, Sound(done, URL))
  BY CountSafe
<1>2. Safe(P, <<Del("strikes", u)>>, P, Sound(done, URL))
  BY CountSafe
<1>3. Safe(P, Forget(u), P, Sound(done, URL))
  <2> HIDE DEF P
  <2>1. QED
    BY <1>1, <1>2, TwoCommands, Zenon DEF Forget
<1>4. P \subseteq Sound(done, {}) /\ P \subseteq P
  BY DEF Phase
<1>5. QED
  BY <1>3, <1>4, Weaken, Zenon

-----------------------------------------------------------------------------
(* The resolutions of a leased member j.                                   *)

\* j is in processing, and not leased any more.
Held(done, extra, j) == Phase(done, extra, db.seq, {j}, Unleased(j))

\* A resolution starts with the fencing test, ZREM lease.
LEMMA ResolutionStarts ==
    ASSUME NEW done, db \in Sound(done, {}), NEW j \in DOMAIN db.lease, NEW Ls, db.lease \in Ls,
           aborts \in Nat, holds \in [Workers -> Job \cup {NoJob}]
    PROVE  /\ Safe({db}, <<Del("lease", j)>>, Held(done, {}, j), Sound(done, URL))
           /\ j \in Job
<1>1. j \in Job /\ j \in ToSet(db.processing)
  <2>1. QueuesApart(db) /\ db.lease \in Partial(Job)
    BY DEF Sound, Keyspace
  <2>2. QED
    BY <2>1, ZSet DEF QueuesApart
<1>2. {db} \subseteq Phase(done, {}, db.seq, {j}, Ls)
  BY <1>1 DEF Phase
<1>3. j \in {j}
  OBVIOUS
<1>4. Safe(Phase(done, {}, db.seq, {j}, Ls), <<Del("lease", j)>>, Held(done, {}, j), Sound(done, URL))
  BY <1>1, <1>3, UnleaseSafe DEF Held
<1>5. QED
  BY <1>1, <1>2, <1>4, Weaken

\* LREM processing and the end of a resolution, of a member that can go.
LEMMA ResolutionEnds ==
    ASSUME NEW done, NEW n, NEW j \in Job,
           aborts \in Nat, holds \in [Workers -> Job \cup {NoJob}]
    PROVE  \E M : /\ Safe(Spared(done, n, {j}, Unleased(j), j), <<LRem("processing", j)>>,
                          M, Sound(done, URL))
                  /\ Safe(M, Forget(j.url), Sound(done, {}), Sound(done, URL))
                  /\ M \subseteq Sound(done, {})
<1> DEFINE M == Phase(done, {}, n, {j} \ {j}, Unleased(j))
<1>1. j \in {j} /\ j.url \in URL /\ \A z \in Unleased(j) : j \notin DOMAIN z
  BY DEF Unleased, Job
<1>2. Safe(Spared(done, n, {j}, Unleased(j), j), <<LRem("processing", j)>>, M, Sound(done, URL))
  BY <1>1, RemoveSafe
<1>3. Safe(M, Forget(j.url), Sound(done, {}), Sound(done, URL))
  BY <1>1, ForgetSafe
<1>4. M \subseteq Sound(done, {})
  BY DEF Phase
<1> HIDE DEF M
<1>5. QED
  BY <1>2, <1>3, <1>4, Zenon

\* luaAck, of a video that counts as done.
LEMMA AckSafe ==
    ASSUME NEW done, db \in Sound(done, {}), NEW j \in DOMAIN db.lease, j.url \in Videos \cap done,
           aborts \in Nat, holds \in [Workers -> Job \cup {NoJob}]
    PROVE  Safe({db}, AckScript(j), Sound(done, {}), Sound(done, URL))
<1>1. db.lease \in {db.lease}
  OBVIOUS
<1>2. Safe({db}, <<Del("lease", j)>>, Held(done, {}, j), Sound(done, URL)) /\ j \in Job
  BY <1>1, ResolutionStarts
<1>3. ASSUME NEW d \in Held(done, {}, j)
      PROVE  d \in Spared(done, db.seq, {j}, Unleased(j), j)
  <2>1. /\ d \in Sound(done, {}) /\ DOMAIN d.next \subseteq Listings
        /\ d \in Sound(done, {j.url})
    <3>1. d \in Sound(done, {}) /\ d \in Keyspace
      BY DEF Held, Phase, Sound
    <3>2. d.next \in Partial(Listings)
      BY <3>1 DEF Keyspace
    <3>3. DOMAIN d.next \subseteq Listings
      BY <3>2, ZSet
    <3>4. d \in Sound(done, {j.url})
      BY <3>1, Lenient
    <3>5. QED
      BY <3>1, <3>3, <3>4
  <2>2. Spare(d, j, done)
    BY <2>1, UrlAssumption DEF Spare, Settled, PendingIn
  <2>3. QED
    BY <2>1, <2>2 DEF Held, Phase, Spared
<1>4. Safe({db}, <<Del("lease", j)>>, Spared(done, db.seq, {j}, Unleased(j), j), Sound(done, URL))
  BY <1>2, <1>3, Weaken
<1>5. PICK M : /\ Safe(Spared(done, db.seq, {j}, Unleased(j), j), <<LRem("processing", j)>>,
                       M, Sound(done, URL))
               /\ Safe(M, Forget(j.url), Sound(done, {}), Sound(done, URL))
  BY <1>2, ResolutionEnds, Zenon
<1>6. Safe({db}, <<Del("lease", j), LRem("processing", j)>>, M, Sound(done, URL))
  BY <1>4, <1>5, TwoCommands
<1>7. QED
  BY <1>5, <1>6, Sequel DEF AckScript

\* luaNack.
LEMMA NackSafe ==
    ASSUME NEW done, db \in Sound(done, {}), NEW j \in DOMAIN db.lease,
           aborts \in Nat, holds \in [Workers -> Job \cup {NoJob}]
    PROVE  Safe({db}, NackScript(j), Sound(done, {}), Sound(done, URL))
<1>1. db.lease \in {db.lease} /\ j \in {j}
  OBVIOUS
<1>2. Safe({db}, <<Del("lease", j)>>, Held(done, {}, j), Sound(done, URL)) /\ j \in Job
  BY <1>1, ResolutionStarts
<1>3. db.seq \in Nat /\ 1 \in Nat
  BY DEF Sound, Keyspace
<1>4. Safe(Held(done, {}, j), Push(1, j.url),
           Spared(done, db.seq + 1, {j}, Unleased(j), j), Sound(done, URL))
  <2>1. db.seq + 1 = db.seq + 1
    OBVIOUS
  <2>2. QED
    BY <1>1, <1>2, <1>3, <2>1, CopySafe, Zenon DEF Held
<1>5. PICK M : /\ Safe(Spared(done, db.seq + 1, {j}, Unleased(j), j), <<LRem("processing", j)>>,
                       M, Sound(done, URL))
               /\ M \subseteq Sound(done, {})
  BY <1>2, ResolutionEnds, Zenon
<1>6. Safe({db}, <<Del("lease", j)>> \o Push(1, j.url),
           Spared(done, db.seq + 1, {j}, Unleased(j), j), Sound(done, URL))
  BY <1>2, <1>4, Sequel, Zenon
<1>7. Safe({db}, NackScript(j), M, Sound(done, URL))
  BY <1>5, <1>6, Sequel, Zenon DEF NackScript
<1>8. QED
  BY <1>5, <1>7, Weaken

\* j is in processing, not leased, and its listing is back on the schedule.
Listed(done, n, j) ==
    {d \in Phase(done, {j.url}, n, {j}, Unleased(j)) :
        j.url \in DOMAIN d.next /\ ~PendingIn(d, j.url)}

\* Such a member can go.
LEMMA ListedSpared ==
    ASSUME NEW done, NEW n, NEW j
    PROVE  Listed(done, n, j) \subseteq Spared(done, n, {j}, Unleased(j), j)
BY DEF Listed, Spared, Spare, Settled

\* ZADD listing:next releases PENDING; HSET and HDEL dead leave the schedule.
LEMMA ListedSafe ==
    ASSUME NEW done, NEW n, NEW j \in Job, j.url \in Listings, NEW v \in Nat, v # PendingScore,
           NEW until \in 1..PendingScore - 1,
           aborts \in Nat, holds \in [Workers -> Job \cup {NoJob}]
    PROVE  /\ Safe(Phase(done, {}, n, {j}, Unleased(j)), <<Put("next", j.url, v)>>,
                   Listed(done, n, j), Sound(done, URL))
           /\ Safe(Listed(done, n, j), <<Del("dead", j.url)>>,
                   Listed(done, n, j), Sound(done, URL))
           /\ Safe(Listed(done, n, j), <<Put("dead", j.url, until)>>,
                   Listed(done, n, j), Sound(done, URL))
<1>1. j.url \in URL /\ j.url \notin Videos /\ {j.url} \in SUBSET URL /\ {} \in SUBSET URL
  BY UrlAssumption DEF Job
<1>2. /\ Phase(done, {}, n, {j}, Unleased(j)) \subseteq Sound(done, URL)
      /\ Listed(done, n, j) \subseteq Sound(done, URL)
  BY <1>1, Anywhere DEF Phase, Listed
<1>3. ASSUME NEW d \in Phase(done, {}, n, {j}, Unleased(j))
      PROVE  Execute(d, Put("next", j.url, v)) \in Listed(done, n, j)
  <2>1. PICK e : e = Execute(d, Put("next", j.url, v))
    OBVIOUS
  <2>2. d \in Sound(done, {}) /\ j.url \notin {}
    BY DEF Phase
  <2>3. /\ e \in Sound(done, {} \cup {j.url})
        /\ e.seq = d.seq /\ e.lease = d.lease /\ SameQueues(e, d)
        /\ j.url \in DOMAIN e.next /\ ~PendingIn(e, j.url)
    <3>1. PICK u, extra : u \in Listings /\ u = j.url /\ extra = {}
      OBVIOUS
    <3>2. /\ u \in Listings /\ d \in Sound(done, extra) /\ u \notin extra
          /\ e = Execute(d, Put("next", u, v))
      BY <2>1, <2>2, <3>1
    <3>3. Timed(done, extra, d, e, u)
      BY <3>2, DoSchedule, Zenon
    <3>4. QED
      BY <3>1, <3>2, <3>3 DEF Timed, Rescheduled
  <2>4. {} \cup {j.url} = {j.url}
    OBVIOUS
  <2>5. QED
    BY <2>1, <2>3, <2>4 DEF Listed, Phase, SameQueues
<1>4. ASSUME NEW d \in Listed(done, n, j), NEW e,
             \/ e = Execute(d, Put("dead", j.url, until))
             \/ e = Execute(d, Del("dead", j.url))
      PROVE  e \in Listed(done, n, j)
  <2>1. d \in Sound(done, {j.url})
    BY DEF Listed, Phase
  <2>2. until \in Nat /\ DeadFor(j.url, until)
    BY <1>1, TimeAssumption DEF DeadFor
  <2>3. CASE e = Execute(d, Put("dead", j.url, until))
    <3>1. /\ e \in Sound(done, {j.url}) /\ e.seq = d.seq /\ e.lease = d.lease
          /\ SameQueues(e, d) /\ e.next = d.next
      BY <1>1, <2>1, <2>2, <2>3, DoBury
    <3>2. QED
      BY <3>1 DEF Listed, Phase, SameQueues, PendingIn
  <2>4. CASE e = Execute(d, Del("dead", j.url))
    <3>1. /\ e \in Sound(done, {j.url}) /\ e.seq = d.seq /\ e.lease = d.lease
          /\ SameQueues(e, d) /\ e.next = d.next
      BY <2>1, <2>4, DoUnbury
    <3>2. QED
      BY <3>1 DEF Listed, Phase, SameQueues, PendingIn
  <2>5. QED
    BY <1>4, <2>3, <2>4
<1>5. QED
  BY <1>2, <1>3, <1>4, OneCommand

\* The clock and the waits are numbers, and PENDING lies beyond them.
LEMMA Bounds ==
    /\ MaxTime \in Nat /\ MaxTime >= 1 /\ QuarantineListing \in Nat /\ ListingMaxTTL \in Nat
    /\ LeaseTimeout \in Nat /\ PendingScore \in Nat
    /\ PendingScore > MaxTime + ListingMaxTTL /\ PendingScore > MaxTime + QuarantineListing
<1>1. /\ {LeaseTimeout, ListingMaxTTL, QuarantineListing, MaxTime} \subseteq Nat
      /\ PendingScore \in Nat /\ MaxTime >= 1
      /\ PendingScore > MaxTime + ListingMaxTTL /\ PendingScore > MaxTime + QuarantineListing
  <2>1. \A x : x \in {LeaseTimeout, ListingMaxTTL, QuarantineListing, MaxTime}
             => x \in {LeaseTimeout, ListingBaseTTL, SeedTTL, ListingMaxTTL,
                       QuarantineListing, MaxLag, MaxTime, MaxSeq}
    OBVIOUS
  <2>2. \A x : x \in {LeaseTimeout, ListingMaxTTL, QuarantineListing, MaxTime} => x \in Nat
    BY <2>1, TimeAssumption, Zenon
  <2>3. {LeaseTimeout, ListingMaxTTL, QuarantineListing, MaxTime} \subseteq Nat
    BY <2>2
  <2>4. QED
    BY <2>3, TimeAssumption, Zenon
<1>2. QED
  BY <1>1

\* A reading of the clock.
LEMMA Clock ==
    ASSUME now \in 1..MaxTime, NEW t \in Reading
    PROVE  t \in Nat /\ 1 <= t /\ t <= MaxTime
<1>1. t \in 1..now
  BY Zenon DEF Reading
<1>2. MaxTime \in Nat
  BY Bounds, Zenon
<1>3. QED
  BY <1>1, <1>2

\* A backoff is a number of seconds, and so is a revisit TTL.
LEMMA Times ==
    /\ \A class : \A n \in Nat \ {0} : Backoff(class, n) \in Nat
    /\ \A u, n : RevisitTTL(u, n) \in 0..ListingMaxTTL
<1>1. ASSUME NEW class, NEW n \in Nat \ {0}
      PROVE  Backoff(class, n) \in Nat
  <2>1. PICK ladder \in Seq(Nat) : ladder = Ladder(class) /\ ladder # << >>
    BY TimeAssumption DEF Ladder
  <2>2. Len(ladder) \in Nat \ {0}
    BY <2>1, EmptySeq, LenProperties
  <2>3. PICK i \in 1..Len(ladder) : i = IF n > Len(ladder) THEN Len(ladder) ELSE n
    BY <2>2
  <2>4. Backoff(class, n) = ladder[i]
    BY <2>1, <2>3 DEF Backoff
  <2>5. QED
    BY <2>4, ElementOfSeq
<1>2. ASSUME NEW u, NEW n
      PROVE  RevisitTTL(u, n) \in 0..ListingMaxTTL
  BY TimeAssumption DEF RevisitTTL
<1>3. QED
  BY <1>1, <1>2

\* A counter is a number, absent or not.
LEMMA FieldType ==
    ASSUME NEW z \in Partial(URL), NEW u
    PROVE  Field(z, u) \in Nat
BY ZSet DEF Field

\* The burial of a held member: dead, off PENDING, out of processing.
LEMMA BurySafe ==
    ASSUME NEW done, NEW n, NEW j \in Job, NEW t \in Reading, now \in 1..MaxTime,
           aborts \in Nat, holds \in [Workers -> Job \cup {NoJob}]
    PROVE  Safe(Phase(done, {}, n, {j}, Unleased(j)),
                BuryScript(j, QuarantineUntil(j.url, t)), Sound(done, {}), Sound(done, URL))
<1> DEFINE P == Phase(done, {}, n, {j}, Unleased(j))
           S == Spared(done, n, {j}, Unleased(j), j)
           Q == Sound(done, URL)
           until == QuarantineUntil(j.url, t)
<1>1. PICK M : /\ Safe(S, <<LRem("processing", j)>>, M, Q)
               /\ Safe(M, Forget(j.url), Sound(done, {}), Q)
  BY ResolutionEnds, Zenon
<1>2. j.url \in Videos \/ j.url \in Listings
  BY DEF Job, URL
<1>3. CASE j.url \in Listings
  <2>1. until \in 1..PendingScore - 1 /\ until > 0 /\ until \in Nat /\ until # PendingScore
    <3>1. t \in Nat /\ t >= 1 /\ t <= MaxTime /\ MaxTime \in Nat /\ QuarantineListing \in Nat
          /\ PendingScore \in Nat /\ PendingScore > MaxTime + QuarantineListing
      BY Bounds, Clock
    <3>2. until = t + QuarantineListing
      BY <1>3, UrlAssumption DEF QuarantineUntil
    <3>3. QED
      BY <3>1, <3>2
  <2>2. /\ Safe(P, <<Put("next", j.url, until)>>, Listed(done, n, j), Q)
        /\ Safe(Listed(done, n, j), <<Put("dead", j.url, until)>>, Listed(done, n, j), Q)
    BY <1>3, <2>1, ListedSafe
  <2>3. Safe(Listed(done, n, j), <<Put("dead", j.url, until)>>, S, Q)
    <3>1. Listed(done, n, j) \subseteq S /\ Listed(done, n, j) \subseteq Listed(done, n, j)
      BY ListedSpared
    <3>2. QED
      BY <2>2, <3>1, Weaken, Zenon
  <2> HIDE DEF until, P, S, Q
  <2>4. Safe(Listed(done, n, j), <<Put("dead", j.url, until), LRem("processing", j)>>, M, Q)
    BY <1>1, <2>3, TwoCommands, Zenon
  <2>5. Safe(P, <<Put("next", j.url, until)>> \o <<Put("dead", j.url, until), LRem("processing", j)>>,
             M, Q)
    BY <2>2, <2>4, Sequel, Zenon
  <2>6. Safe(P, <<Put("next", j.url, until)>> \o <<Put("dead", j.url, until), LRem("processing", j)>>
                \o Forget(j.url), Sound(done, {}), Q)
    BY <1>1, <2>5, Sequel, Zenon
  <2>7. BuryScript(j, until)
          = <<Put("next", j.url, until)>> \o <<Put("dead", j.url, until), LRem("processing", j)>>
            \o Forget(j.url)
    BY <2>1, Zenon DEF BuryScript
  <2>8. Safe(P, BuryScript(j, until), Sound(done, {}), Q)
    BY <2>6, <2>7, Zenon
  <2>9. QED
    BY <2>8 DEF P, Q, until
<1>4. CASE j.url \in Videos
  <2>1. until = 0 /\ ~(until > 0)
    BY <1>4 DEF QuarantineUntil
  <2>2. ASSUME NEW d \in P
        PROVE  Execute(d, Put("dead", j.url, until)) \in S
    <3>1. PICK e : e = Execute(d, Put("dead", j.url, until))
      OBVIOUS
    <3>2. d \in Sound(done, {j.url})
      BY Lenient DEF Phase
    <3>3. /\ e \in Sound(done, {j.url}) /\ e.seq = d.seq /\ e.lease = d.lease
          /\ SameQueues(e, d) /\ j.url \in DOMAIN e.dead
      <4>1. j.url \in URL /\ 0 \in Nat
        BY DEF Job
      <4>2. until \in Nat /\ DeadFor(j.url, until)
        BY <1>4, <2>1 DEF DeadFor
      <4>3. QED
        BY <3>1, <3>2, <4>1, <4>2, DoBury
    <3>4. e \in Phase(done, {j.url}, n, {j}, Unleased(j))
      BY <3>3 DEF Phase, SameQueues
    <3>5. Spare(e, j, done)
      <4>1. e.next \in Partial(Listings)
        BY <3>3 DEF Sound, Keyspace
      <4>2. j.url \notin DOMAIN e.next
        BY <1>4, <4>1, ZSet, UrlAssumption
      <4>3. QED
        BY <1>4, <3>3, <4>2 DEF Spare, Settled, PendingIn
    <3>6. QED
      BY <3>1, <3>4, <3>5 DEF Spared
  <2>3. Safe(P, <<Put("dead", j.url, until)>>, S, Q)
    <3>1. P \subseteq Q /\ S \subseteq Q
      <4>1. {j.url} \in SUBSET URL /\ {} \in SUBSET URL
        BY DEF Job
      <4>2. QED
        BY <4>1, Anywhere DEF Phase, Spared
    <3> HIDE DEF P, Q, S, until
    <3>2. QED
      BY <2>2, <3>1, OneCommand, Zenon
  <2> HIDE DEF P, Q, S, until
  <2>4. Safe(P, <<Put("dead", j.url, until), LRem("processing", j)>>, M, Q)
    BY <1>1, <2>3, TwoCommands, Zenon
  <2>5. Safe(P, << >> \o <<Put("dead", j.url, until), LRem("processing", j)>>, M, Q)
    <3>1. P \subseteq Q
      <4>1. {} \in SUBSET URL
        OBVIOUS
      <4>2. QED
        BY <4>1, Anywhere DEF Phase, P, Q
    <3>2. Safe(P, << >>, P, Q)
      BY <3>1, NoCommand, Zenon
    <3>3. QED
      BY <2>4, <3>2, Sequel, Zenon
  <2>6. Safe(P, << >> \o <<Put("dead", j.url, until), LRem("processing", j)>>
                \o Forget(j.url), Sound(done, {}), Q)
    BY <1>1, <2>5, Sequel, Zenon
  <2>7. BuryScript(j, until)
          = << >> \o <<Put("dead", j.url, until), LRem("processing", j)>> \o Forget(j.url)
    BY <2>1, Zenon DEF BuryScript
  <2>8. Safe(P, BuryScript(j, until), Sound(done, {}), Q)
    BY <2>6, <2>7, Zenon
  <2>9. QED
    BY <2>8 DEF P, Q, until
<1>5. QED
  BY <1>2, <1>3, <1>4

\* luaTerminal.
LEMMA TerminalSafe ==
    ASSUME NEW done, db \in Sound(done, {}), NEW j \in DOMAIN db.lease, NEW t \in Reading,
           now \in 1..MaxTime, aborts \in Nat, holds \in [Workers -> Job \cup {NoJob}]
    PROVE  Safe({db}, TerminalScript(j, t), Sound(done, {}), Sound(done, URL))
<1>1. db.lease \in {db.lease}
  OBVIOUS
<1>2. Safe({db}, <<Del("lease", j)>>, Held(done, {}, j), Sound(done, URL)) /\ j \in Job
  BY <1>1, ResolutionStarts
<1>3. Safe(Held(done, {}, j), BuryScript(j, QuarantineUntil(j.url, t)),
           Sound(done, {}), Sound(done, URL))
  BY <1>2, BurySafe DEF Held
<1>4. QED
  BY <1>2, <1>3, Sequel, Zenon DEF TerminalScript

\* The retry of a held member: a copy waits in delayed.
LEMMA DelaySafe ==
    ASSUME NEW done, db \in Sound(done, {}), NEW j \in Job, NEW v \in Nat,
           aborts \in Nat, holds \in [Workers -> Job \cup {NoJob}]
    PROVE  Safe(Held(done, {}, j),
                <<Incr, Put("delayed", NewJob(1, j.url), v), LRem("processing", j)>>,
                Sound(done, {}), Sound(done, URL))
<1> DEFINE P == Held(done, {}, j)
           S == Spared(done, db.seq + 1, {j}, Unleased(j), j)
           Q == Sound(done, URL)
           k == NewJob(1, j.url)
           N == {d \in Sound(done, {}) : \E c \in P : d = Execute(c, Incr)}
<1>1. PICK M : Safe(S, <<LRem("processing", j)>>, M, Q) /\ M \subseteq Sound(done, {})
  BY ResolutionEnds, Zenon
<1>2. P \subseteq Sound(done, {}) /\ Sound(done, {}) \subseteq Q /\ S \subseteq Q /\ j.url \in URL
  <2>1. j.url \in URL /\ {j.url} \in SUBSET URL /\ {} \in SUBSET URL
    BY DEF Job
  <2>2. QED
    BY <2>1, Anywhere DEF Held, Phase, Spared
<1>3. Safe(P, <<Incr>>, N, Q)
  <2>1. \A d \in P : Execute(d, Incr) \in N
    BY <1>2, DoIncr
  <2>2. QED
    BY <1>2, <2>1, OneCommand
<1>4. ASSUME NEW c \in P, NEW d, d = Execute(c, Incr)
      PROVE  Execute(d, Put("delayed", k, v)) \in S
  <2>1. PICK e : e = Execute(d, Put("delayed", k, v))
    OBVIOUS
  <2>2. c \in Sound(done, {}) /\ c.seq = db.seq /\ j \in ToSet(c.processing) /\ c.lease \in Unleased(j)
    BY DEF Held, Phase
  <2>3. k = [id |-> c.seq + 1, url |-> j.url]
    BY <2>2 DEF NewJob
  <2>4. /\ e \in Sound(done, {} \cup {j.url}) /\ e.seq = c.seq + 1
        /\ e.lease = c.lease /\ e.processing = c.processing
        /\ LiveIn(e) = LiveIn(c) \cup {k} /\ k \notin LiveIn(c)
    <3>1. PICK extra : extra = {}
      OBVIOUS
    <3>2. /\ c \in Sound(done, extra) /\ j.url \notin extra
          /\ e = Execute(d, Put("delayed", [id |-> c.seq + 1, url |-> j.url], v))
      BY <2>1, <2>2, <2>3, <3>1
    <3>3. /\ e \in Sound(done, extra \cup {j.url}) /\ e.seq = c.seq + 1
          /\ e.lease = c.lease /\ e.processing = c.processing
          /\ LiveIn(e) = LiveIn(c) \cup {[id |-> c.seq + 1, url |-> j.url]}
          /\ [id |-> c.seq + 1, url |-> j.url] \notin LiveIn(c)
      BY <1>2, <1>4, <3>2, DoDelay
    <3>4. QED
      BY <2>3, <3>1, <3>3, Zenon
  <2>5. {} \cup {j.url} = {j.url}
    OBVIOUS
  <2>6. e \in Phase(done, {j.url}, db.seq + 1, {j}, Unleased(j))
    BY <2>2, <2>4, <2>5 DEF Phase
  <2>7. k \in LiveIn(e) /\ k # j /\ k.url = j.url
    BY <2>2, <2>4 DEF LiveIn, NewJob
  <2>8. QED
    BY <2>1, <2>6, <2>7, Zenon DEF Spared, Spare
<1>5. Safe(N, <<Put("delayed", k, v)>>, S, Q)
  <2>1. \A d \in N : Execute(d, Put("delayed", k, v)) \in S
    BY <1>4
  <2>2. N \subseteq Q
    BY <1>2
  <2>3. QED
    BY <1>2, <2>1, <2>2, OneCommand, Zenon
<1> HIDE DEF P, S, Q, N, k
<1>6. Safe(P, <<Incr, Put("delayed", k, v)>>, S, Q)
  BY <1>3, <1>5, TwoCommands, Zenon
<1>7. Safe(P, <<Incr, Put("delayed", k, v), LRem("processing", j)>>, M, Q)
  BY <1>1, <1>6, ThreeCommands, Zenon
<1>8. QED
  <2>1. P \subseteq P
    OBVIOUS
  <2>2. QED
    BY <1>1, <1>7, <2>1, Weaken, Zenon DEF P, Q, k

\* luaFail.
LEMMA FailSafe ==
    ASSUME NEW done, db \in Sound(done, {}), NEW j \in DOMAIN db.lease, NEW class,
           NEW t \in Reading, now \in 1..MaxTime,
           aborts \in Nat, holds \in [Workers -> Job \cup {NoJob}]
    PROVE  Safe({db}, FailScript(j, class, t), Sound(done, {}), Sound(done, URL))
<1> DEFINE u == j.url
           n == Field(db.attempts, u) + 1
           strike == class = "Strikeable"
           struck == Field(db.strikes, u) + (IF strike THEN 1 ELSE 0)
           H == Held(done, {}, j)
           T == Sound(done, {})
           Q == Sound(done, URL)
           starts == <<Del("lease", j), Put("attempts", u, n)>>
           counts == IF strike THEN <<Put("strikes", u, struck)>> ELSE << >>
           ends == IF strike /\ struck >= MaxStrikes
                   THEN BuryScript(j, QuarantineUntil(u, t))
                   ELSE <<Incr, Put("delayed", NewJob(1, u), t + Backoff(class, n)),
                          LRem("processing", j)>>
<1>1. db.lease \in {db.lease}
  OBVIOUS
<1>2. Safe({db}, <<Del("lease", j)>>, H, Q) /\ j \in Job
  BY <1>1, ResolutionStarts
<1>3. u \in URL /\ n \in Nat \ {0} /\ struck \in Nat /\ t + Backoff(class, n) \in Nat
  <2>1. db.attempts \in Partial(URL) /\ db.strikes \in Partial(URL)
    BY DEF Sound, Keyspace
  <2>2. Field(db.attempts, u) \in Nat /\ Field(db.strikes, u) \in Nat
    BY <2>1, FieldType
  <2>3. t \in Nat
    BY DEF Reading
  <2>4. n \in Nat \ {0} /\ struck \in Nat
    BY <2>2
  <2>5. Backoff(class, n) \in Nat
    <3> HIDE DEF n
    <3>1. QED
      BY <2>4, Times, Zenon
  <2>6. QED
    BY <1>2, <2>3, <2>4, <2>5 DEF Job
<1>4. Safe(H, <<Put("attempts", u, n)>>, H, Q)
  BY <1>2, <1>3, CountSafe DEF Held
<1>5. Safe({db}, starts, H, Q)
  <2> HIDE DEF H, Q, n, u
  <2>1. QED
    BY <1>2, <1>4, TwoCommands, Zenon
<1>6. Safe(H, counts, H, Q)
  <2>1. Safe(H, <<Put("strikes", u, struck)>>, H, Q)
    BY <1>2, <1>3, CountSafe DEF Held
  <2>2. H \subseteq Q
    BY Anywhere DEF Held, Phase
  <2>3. Safe(H, << >>, H, Q)
    BY <2>2, NoCommand
  <2>4. QED
    BY <2>1, <2>3, Zenon
<1>7. Safe(H, ends, T, Q)
  <2>1. Safe(H, BuryScript(j, QuarantineUntil(u, t)), T, Q)
    BY <1>2, BurySafe DEF Held
  <2>2. Safe(H, <<Incr, Put("delayed", NewJob(1, u), t + Backoff(class, n)),
                  LRem("processing", j)>>, T, Q)
    <3> HIDE DEF n
    <3>1. QED
      BY <1>2, <1>3, DelaySafe
  <2>3. QED
    BY <2>1, <2>2, Zenon
<1>8. FailScript(j, class, t) = starts \o counts \o ends
  BY Zenon DEF FailScript
<1> HIDE DEF starts, counts, ends, H, T, Q
<1>9. Safe({db}, starts \o counts, H, Q)
  BY <1>5, <1>6, Sequel, Zenon
<1>10. Safe({db}, starts \o counts \o ends, T, Q)
  BY <1>7, <1>9, Sequel, Zenon
<1>11. QED
  BY <1>8, <1>10, Zenon DEF T, Q

\* luaCompleteListing, of a listing.
LEMMA CompleteSafe ==
    ASSUME NEW done, db \in Sound(done, {}), NEW j \in DOMAIN db.lease, j.url \in Listings,
           NEW fresh \in BOOLEAN, NEW t \in Reading, now \in 1..MaxTime,
           aborts \in Nat, holds \in [Workers -> Job \cup {NoJob}]
    PROVE  Safe({db}, CompleteListingScript(j, fresh, t), Sound(done, {}), Sound(done, URL))
<1> DEFINE u == j.url
           n == IF fresh THEN 0 ELSE Field(db.barren, u) + 1
           v == t + RevisitTTL(u, n)
           H == Held(done, {}, j)
           L == Listed(done, db.seq, j)
           Q == Sound(done, URL)
<1>1. db.lease \in {db.lease} /\ u \in URL
  BY DEF URL
<1>2. Safe({db}, <<Del("lease", j)>>, H, Q) /\ j \in Job
  BY <1>1, ResolutionStarts
<1>3. n \in Nat
  <2>1. db.barren \in Partial(URL)
    BY DEF Sound, Keyspace
  <2>2. Field(db.barren, u) \in Nat
    BY <2>1, FieldType
  <2>3. QED
    BY <2>2
<1>4. v \in Nat /\ v # PendingScore
  <2>1. RevisitTTL(u, n) \in 0..ListingMaxTTL
    BY Times
  <2>2. t \in Nat /\ t <= MaxTime /\ MaxTime \in Nat /\ ListingMaxTTL \in Nat
        /\ PendingScore \in Nat /\ PendingScore > MaxTime + ListingMaxTTL
    BY Bounds, Clock
  <2>3. QED
    BY <2>1, <2>2
<1>5. Safe(H, <<Put("barren", u, n)>>, H, Q)
  BY <1>1, <1>2, <1>3, CountSafe DEF Held
<1>6. Safe(H, <<Put("next", u, v)>>, L, Q) /\ Safe(L, <<Del("dead", u)>>, L, Q)
  <2>1. 1 \in 1..PendingScore - 1
    BY Bounds
  <2> HIDE DEF v
  <2>2. QED
    BY <1>2, <1>4, <2>1, ListedSafe DEF Held
<1>7. PICK M : /\ Safe(Spared(done, db.seq, {j}, Unleased(j), j), <<LRem("processing", j)>>, M, Q)
               /\ Safe(M, Forget(u), Sound(done, {}), Q)
  BY <1>2, ResolutionEnds, Zenon
<1>8. Safe(L, <<LRem("processing", j)>>, M, Q)
  <2>1. L \subseteq Spared(done, db.seq, {j}, Unleased(j), j) /\ M \subseteq M
    BY ListedSpared
  <2>2. QED
    BY <1>7, <2>1, Weaken, Zenon
<1>9. CompleteListingScript(j, fresh, t)
        = <<Del("lease", j), Put("barren", u, n), Put("next", u, v), Del("dead", u),
            LRem("processing", j)>> \o Forget(u)
  BY Zenon DEF CompleteListingScript
<1> HIDE DEF u, n, v, H, L, Q
<1>10. Safe({db}, <<Del("lease", j), Put("barren", u, n)>>, H, Q)
  BY <1>2, <1>5, TwoCommands, Zenon
<1>11. Safe({db}, <<Del("lease", j), Put("barren", u, n), Put("next", u, v)>>, L, Q)
  BY <1>6, <1>10, ThreeCommands, Zenon
<1>12. Safe({db}, <<Del("lease", j), Put("barren", u, n), Put("next", u, v), Del("dead", u),
                    LRem("processing", j)>>, M, Q)
  BY <1>6, <1>8, <1>11, FiveCommands, Zenon
<1>13. QED
  BY <1>7, <1>9, <1>12, Sequel, Zenon DEF Q

-----------------------------------------------------------------------------
(* The lease and the admissions.                                           *)

\* LMOVE, ZADD lease: the member can be leased to no one else.
LEMMA LeaseSafe ==
    ASSUME NEW done, db \in Sound(done, {}), db.ready # << >>, NEW t \in Reading,
           aborts \in Nat, holds \in [Workers -> Job \cup {NoJob}]
    PROVE  /\ Safe({db}, LeaseScript(t),
                   {d \in Sound(done, {}) :
                        /\ Last(db.ready) \in ToSet(d.processing)
                        /\ Last(db.ready) \notin ToSet(d.ready) \cup DOMAIN d.delayed},
                   Sound(done, URL))
           /\ Last(db.ready) \in ToSet(db.ready) \cap Job
<1> DEFINE j == Last(db.ready)
           v == t + LeaseTimeout
           N == {d \in Sound(done, {}) : j \in ToSet(d.processing)
                                         /\ j \notin ToSet(d.ready) \cup DOMAIN d.delayed}
           Q == Sound(done, URL)
<1>1. {db} \subseteq Q /\ N \subseteq Q
  BY Anywhere
<1>2. PICK e : e = Execute(db, LMove)
  OBVIOUS
<1>3. e \in Sound(done, {}) /\ j \in Job /\ j \in ToSet(db.ready)
      /\ j \in ToSet(e.processing) /\ j \notin ToSet(e.ready) \cup DOMAIN e.delayed
  BY <1>2, DoMove
<1>4. Safe({db}, <<LMove>>, N, Q)
  <2>1. \A d \in {db} : Execute(d, LMove) \in N
    BY <1>2, <1>3
  <2>2. QED
    BY <1>1, <2>1, OneCommand
<1>5. ASSUME NEW d \in N
      PROVE  Execute(d, Put("lease", j, v)) \in N
  <2>1. PICK f : f = Execute(d, Put("lease", j, v))
    OBVIOUS
  <2>2. v \in Nat
    BY Bounds DEF Reading
  <2> HIDE DEF v, j
  <2>3. f \in Sound(done, {}) /\ SameQueues(f, d)
    BY <2>1, <2>2, DoLease
  <2>4. QED
    BY <2>1, <2>3 DEF SameQueues
<1>6. Safe(N, <<Put("lease", j, v)>>, N, Q)
  BY <1>1, <1>5, OneCommand
<1>7. Safe({db}, LeaseScript(t), N, Q)
  <2> HIDE DEF N, Q
  <2>1. QED
    BY <1>4, <1>6, TwoCommands, Zenon DEF LeaseScript
<1>8. QED
  BY <1>3, <1>7

\* The urls of us are free to be made PENDING.
Free(done, n, us) ==
    {d \in Sound(done, {}) : d.seq = n /\ \A u \in us : ~PendingIn(d, u)}

\* HDEL dead, of an expired quarantine.
LEMMA UnburySafe ==
    ASSUME NEW done, NEW n, NEW us, NEW u \in Listings,
           aborts \in Nat, holds \in [Workers -> Job \cup {NoJob}]
    PROVE  Safe(Free(done, n, us), Unbury(u), Free(done, n, us), Sound(done, URL))
<1> DEFINE P == Free(done, n, us)
<1>1. P \subseteq Sound(done, URL)
  BY Anywhere DEF Free
<1>2. ASSUME NEW d \in P
      PROVE  Execute(d, Del("dead", u)) \in P
  <2>1. PICK e : e = Execute(d, Del("dead", u))
    OBVIOUS
  <2>2. d \in Sound(done, {})
    BY DEF Free
  <2>3. e \in Sound(done, {}) /\ e.seq = d.seq /\ e.next = d.next
    BY <2>1, <2>2, DoUnbury
  <2>4. QED
    BY <2>1, <2>3 DEF Free, PendingIn
<1> HIDE DEF P
<1>3. Safe(P, <<Del("dead", u)>>, P, Sound(done, URL))
  BY <1>1, <1>2, OneCommand
<1>4. Safe(P, << >>, P, Sound(done, URL))
  BY <1>1, NoCommand
<1>5. QED
  BY <1>3, <1>4, Zenon DEF Unbury, P

\* A job of a listing, and PENDING.
LEMMA MintSafe ==
    ASSUME NEW done, NEW n \in Nat, NEW i \in Nat, n + 1 = db.seq + i,
           NEW us, NEW u \in Listings, u \in us,
           aborts \in Nat, holds \in [Workers -> Job \cup {NoJob}]
    PROVE  \E N : /\ Safe(Free(done, n, us), Push(i, u), N, Sound(done, URL))
                  /\ Safe(N, <<Put("next", u, PendingScore)>>,
                          Free(done, n + 1, us \ {u}), Sound(done, URL))
<1> DEFINE P == Free(done, n, us)
           k == NewJob(i, u)
           N == PushedOf(P, done, u, k)
           R == Free(done, n + 1, us \ {u})
           Q == Sound(done, URL)
<1>1. u \in URL /\ {u} \in SUBSET URL /\ {} \in SUBSET URL
  BY DEF URL
<1>2. P \in SUBSET Sound(done, {}) /\ \A d \in P : d.seq + 1 = db.seq + i /\ d.seq = n
  BY DEF Free
<1>3. Safe(P, Push(i, u), N, Q)
  <2> HIDE DEF P
  <2>1. QED
    BY <1>1, <1>2, PushSafe
<1>4. N \subseteq Q /\ R \subseteq Q
  BY <1>1, Anywhere DEF PushedOf, Free
<1>5. ASSUME NEW d \in N
      PROVE  Execute(d, Put("next", u, PendingScore)) \in R
  <2>1. PICK e : e = Execute(d, Put("next", u, PendingScore))
    OBVIOUS
  <2>2. PICK c \in P : d \in Sound(done, {u}) /\ Pushed(d, c, k)
    BY DEF PushedOf
  <2>3. /\ d.seq = n + 1 /\ JobsIn(d, u) # {}
        /\ \A w \in us : ~PendingIn(d, w)
    <3>1. k \in LiveIn(d) /\ k.url = u /\ d.seq = c.seq + 1 /\ d.next = c.next
      BY <2>2 DEF Pushed, SameSchedule, NewJob
    <3>2. QED
      BY <1>2, <3>1 DEF JobsIn, PendingIn, Free
  <2>4. PICK extra : extra = {u}
    OBVIOUS
  <2>5. e \in Sound(done, extra \ {u}) /\ e.seq = d.seq /\ OthersFree(e, d, u)
    <3>1. d \in Sound(done, extra) /\ ~PendingIn(d, u) /\ JobsIn(d, u) # {}
      BY <2>2, <2>3, <2>4
    <3>2. QED
      BY <2>1, <3>1, DoPending
  <2>6. extra \ {u} = {}
    BY <2>4
  <2>7. QED
    BY <2>1, <2>3, <2>5, <2>6 DEF Free, OthersFree
<1> HIDE DEF N, R, Q, P
<1>6. Safe(N, <<Put("next", u, PendingScore)>>, R, Q)
  BY <1>4, <1>5, OneCommand
<1>7. QED
  BY <1>3, <1>6, Zenon DEF R, Q, P

\* luaAdmitListing, of a listing that is not blocked.
LEMMA AdmitListingSafe ==
    ASSUME NEW done, db \in Sound(done, {}), NEW u \in Listings, NEW t \in Reading,
           now \in 1..MaxTime, aborts \in Nat, holds \in [Workers -> Job \cup {NoJob}]
    PROVE  Safe({db}, AdmitListingScript(u, t), Sound(done, {}), Sound(done, URL))
<1> DEFINE due == u \in DOMAIN db.next => db.next[u] <= t
           us == IF due THEN {u} ELSE {}
           P == Free(done, db.seq, us)
           Q == Sound(done, URL)
           T == Sound(done, {})
           mint == Push(1, u) \o <<Put("next", u, PendingScore)>>
           ends == IF due THEN mint ELSE << >>
<1>1. {db} \subseteq P
  <2>1. t \in Nat /\ t <= MaxTime /\ MaxTime \in Nat /\ PendingScore \in Nat /\ PendingScore > MaxTime
    BY Bounds, Clock
  <2>2. due => ~PendingIn(db, u)
    BY <2>1 DEF PendingIn
  <2>3. QED
    BY <2>2 DEF Free
<1>2. Safe(P, Unbury(u), P, Q)
  BY UnburySafe
<1>3. Safe({db}, Unbury(u), P, Q)
  <2>1. P \subseteq P
    OBVIOUS
  <2> HIDE DEF P, Q
  <2>2. QED
    BY <1>1, <1>2, <2>1, Weaken, Zenon
<1>4. P \subseteq T /\ P \subseteq Q
  BY Anywhere DEF Free
<1>5. Safe(P, ends, T, Q)
  <2>1. CASE due
    <3>1. db.seq \in Nat /\ 1 \in Nat /\ db.seq + 1 = db.seq + 1 /\ u \in us
      BY <2>1 DEF Sound, Keyspace
    <3> HIDE DEF us
    <3>2. Safe(P, mint, Free(done, db.seq + 1, us \ {u}), Q)
      <4>1. PICK N : /\ Safe(P, Push(1, u), N, Q)
                     /\ Safe(N, <<Put("next", u, PendingScore)>>,
                             Free(done, db.seq + 1, us \ {u}), Q)
        BY <3>1, MintSafe
      <4>2. QED
        BY <4>1, Sequel, Zenon
    <3>3. Free(done, db.seq + 1, us \ {u}) \subseteq T /\ P \subseteq P
      BY DEF Free
    <3> HIDE DEF P, Q, T, mint
    <3>4. Safe(P, mint, T, Q)
      BY <3>2, <3>3, Weaken, Zenon
    <3>5. QED
      BY <2>1, <3>4, Zenon
  <2>2. CASE ~due
    <3>1. Safe(P, << >>, P, Q)
      BY <1>4, NoCommand
    <3>2. P \subseteq P
      OBVIOUS
    <3> HIDE DEF P, Q, T
    <3>3. Safe(P, << >>, T, Q)
      BY <1>4, <3>1, <3>2, Weaken, Zenon
    <3>4. QED
      BY <2>2, <3>3, Zenon
  <2>3. QED
    BY <2>1, <2>2
<1>6. AdmitListingScript(u, t) = Unbury(u) \o ends
  BY Zenon DEF AdmitListingScript
<1> HIDE DEF P, Q, T, ends
<1>7. QED
  BY <1>3, <1>5, <1>6, Sequel, Zenon DEF T, Q

\* The seed of a crawl.
LEMMA SeedSafe ==
    ASSUME NEW done, db \in Sound(done, {}), BaseUrl \notin DOMAIN db.next, aborts \in Nat
    PROVE  Safe({db}, <<Put("next", BaseUrl, 0)>>, Sound(done, {}), Sound(done, URL))
<1>1. BaseUrl \in Listings /\ 0 \in Nat /\ 0 # PendingScore
  BY UrlAssumption, TimeAssumption
<1>2. ~PendingIn(db, BaseUrl)
  BY DEF PendingIn
<1>3. PICK e : e = Execute(db, Put("next", BaseUrl, 0))
  OBVIOUS
<1>4. e \in Sound(done, {})
  <2>1. Timed(done, {}, db, e, BaseUrl)
    BY <1>1, <1>3, DoSchedule, Zenon
  <2>2. QED
    BY <1>2, <2>1, Zenon DEF Timed
<1>5. {db} \subseteq Sound(done, URL) /\ Sound(done, {}) \subseteq Sound(done, URL)
  BY Anywhere
<1>6. \A d \in {db} : Execute(d, Put("next", BaseUrl, 0)) \in Sound(done, {})
  BY <1>3, <1>4
<1>7. QED
  BY <1>5, <1>6, OneCommand

\* On a full filter the jobs of a video that is not in it are not counted.
LEMMA Uncounted ==
    ASSUME NEW done, NEW u, NEW d \in Sound(done, {u}), ~Counted(d, u)
    PROVE  d \in Sound(done, {})
<1>1. FewJobs(d, {})
  <2>1. FewJobs(d, {u})
    BY DEF Sound
  <2>2. \A w \in URL : Counted(d, w) => w \notin {u}
    OBVIOUS
  <2>3. QED
    BY <2>1, <2>2 DEF FewJobs
<1>2. QED
  BY <1>1 DEF Sound

\* luaAdmitVideo: the pushed job is removed again, claimed, or refused.
LEMMA AdmitVideoSafe ==
    ASSUME NEW done, db \in Sound(done, {}), NEW u \in Videos, NEW t \in Reading,
           ~Blocked(u, t), NEW present \in BOOLEAN, ~present => u \notin db.bloom,
           aborts \in Nat, holds \in [Workers -> Job \cup {NoJob}]
    PROVE  Safe({db}, AdmitVideoScript(u, present), Sound(done, {}), Sound(done, URL))
<1> DEFINE j == NewJob(1, u)
           N == PushedOf({db}, done, u, j)
           T == Sound(done, {})
           Q == Sound(done, URL)
           ends == IF present THEN <<LRem("ready", j)>>
                   ELSE IF Cardinality(db.bloom) < BloomCapacity THEN <<BfAdd(u)>> ELSE << >>
<1>1. u \in URL /\ {u} \in SUBSET URL /\ {} \in SUBSET URL
  BY DEF URL
<1>2. {db} \subseteq Q /\ N \subseteq Q /\ T \subseteq Q
  BY <1>1, Anywhere DEF PushedOf
<1>3. Unbury(u) = << >>
  <2>1. u \notin DOMAIN db.dead
    BY DEF Sound, DeadUntil, Blocked
  <2>2. QED
    BY <2>1 DEF Unbury
<1>4. Safe({db}, Unbury(u), {db}, Q)
  BY <1>2, <1>3, NoCommand
<1>5. Safe({db}, Push(1, u), N, Q) /\ j \in Job
  <2>1. {db} \in SUBSET Sound(done, {}) /\ 1 \in Nat /\ \A d \in {db} : d.seq + 1 = db.seq + 1
    OBVIOUS
  <2>2. Safe({db}, Push(1, u), N, Q) /\ ({db} # {} => j \in Job)
    BY <1>1, <2>1, PushSafe
  <2>3. QED
    BY <2>2
<1>6. j.url = u /\ u \notin Listings
  BY UrlAssumption DEF NewJob
<1>7. ASSUME NEW d \in N
      PROVE  /\ d \in Sound(done, {u}) /\ Pushed(d, db, j)
             /\ j \in LiveIn(d) /\ j \in ToSet(d.ready) /\ JobsIn(d, u) # {}
             /\ d.dead = db.dead /\ d.next = db.next /\ d.bloom = db.bloom
  <2>1. d \in Sound(done, {u}) /\ Pushed(d, db, j)
    BY DEF PushedOf
  <2>2. QED
    BY <1>6, <2>1 DEF Pushed, SameSchedule, JobsIn
<1>8. ASSUME NEW d \in N
      PROVE  Execute(d, LRem("ready", j)) \in T
  <2>1. PICK e : e = Execute(d, LRem("ready", j))
    OBVIOUS
  <2>2. j \notin DOMAIN d.lease
    <3>1. DOMAIN db.lease \subseteq LiveIn(db)
      BY DEF Sound, QueuesApart, LiveIn
    <3>2. QED
      BY <1>7, <3>1 DEF Pushed
  <2>3. Spare(d, j, done)
    <3>1. SUFFICES ASSUME u \in KnownIn(db, done) \cup db.bloom
                   PROVE  \/ \E k \in LiveIn(d) : k # j /\ k.url = u
                          \/ u \in Settled(d, done) /\ ~PendingIn(d, u)
      BY <1>6, <1>7 DEF Spare
    <3>2. u \in KnownIn(db, done)
      BY <3>1 DEF Sound
    <3>3. CASE JobsIn(db, u) # {}
      <4>1. PICK k : k \in LiveIn(db) /\ k.url = u
        BY <3>3 DEF JobsIn
      <4>2. QED
        BY <1>7, <4>1 DEF Pushed
    <3>4. CASE u \in Settled(db, done)
      <4>1. u \in Settled(d, done)
        BY <1>7, <3>4 DEF Settled
      <4>2. d.next \in Partial(Listings)
        BY <1>7 DEF Sound, Keyspace
      <4>3. u \notin DOMAIN d.next
        BY <1>6, <4>2, ZSet
      <4>4. QED
        BY <4>1, <4>3 DEF PendingIn
    <3>5. QED
      BY <3>2, <3>3, <3>4 DEF KnownIn
  <2>4. PICK list, extra : list \in {"ready", "processing"} /\ list = "ready" /\ extra = {u}
    OBVIOUS
  <2>5. /\ list \in {"ready", "processing"} /\ j \in ToSet(d[list])
        /\ e = Execute(d, LRem(list, j)) /\ d \in Sound(done, extra)
    BY <1>7, <2>1, <2>4
  <2> HIDE DEF j, N
  <2>6. e \in Sound(done, extra \ {j.url})
    BY <2>2, <2>3, <2>5, DoRemove
  <2>7. extra \ {j.url} = {}
    BY <1>6, <2>4
  <2>8. QED
    BY <2>1, <2>6, <2>7
<1>9. ASSUME NEW d \in N, ~present, Cardinality(db.bloom) < BloomCapacity
      PROVE  Execute(d, BfAdd(u)) \in T
  <2>1. PICK e, extra : e = Execute(d, BfAdd(u)) /\ extra = {u}
    OBVIOUS
  <2>2. /\ d \in Sound(done, extra) /\ u \notin d.bloom /\ JobsIn(d, u) # {}
        /\ Cardinality(d.bloom) < BloomCapacity
    BY <1>7, <1>9, <2>1
  <2>3. e \in Sound(done, extra \ {u})
    BY <2>1, <2>2, DoClaim
  <2>4. extra \ {u} = {}
    BY <2>1
  <2>5. QED
    BY <2>1, <2>3, <2>4
<1>10. ASSUME NEW d \in N, ~present, ~(Cardinality(db.bloom) < BloomCapacity)
       PROVE  d \in T
  <2>1. ~Counted(d, u) /\ d \in Sound(done, {u})
    BY <1>6, <1>7, <1>10 DEF Counted
  <2>2. QED
    BY <2>1, Uncounted
<1> HIDE DEF N, T, Q, j
<1>11. Safe(N, ends, T, Q)
  <2>1. CASE present
    BY <1>2, <1>8, <2>1, OneCommand
  <2>2. CASE ~present /\ Cardinality(db.bloom) < BloomCapacity
    BY <1>2, <1>9, <2>2, OneCommand
  <2>3. CASE ~present /\ ~(Cardinality(db.bloom) < BloomCapacity)
    <3>1. Safe(N, << >>, N, Q)
      BY <1>2, NoCommand
    <3>2. N \subseteq N /\ N \subseteq T
      BY <1>10, <2>3
    <3>3. Safe(N, << >>, T, Q)
      BY <3>1, <3>2, Weaken, Zenon
    <3>4. QED
      BY <2>3, <3>3
  <2>4. QED
    BY <2>1, <2>2, <2>3
<1>12. AdmitVideoScript(u, present) = Unbury(u) \o Push(1, u) \o ends
  BY Zenon DEF AdmitVideoScript, j
<1> HIDE DEF ends
<1>13. Safe({db}, Unbury(u) \o Push(1, u), N, Q)
  BY <1>4, <1>5, Sequel, Zenon
<1>14. Safe({db}, Unbury(u) \o Push(1, u) \o ends, T, Q)
  BY <1>11, <1>13, Sequel, Zenon
<1>15. QED
  BY <1>12, <1>14, Zenon DEF T, Q

-----------------------------------------------------------------------------
(* The batches.                                                            *)

\* The rank of position i among those of K: how many of them it has reached.
RankOf(K, i) == Cardinality({k \in 1..i : k \in K})

\* Only the positions in K advance the rank.
LEMMA RankStep ==
    ASSUME NEW K, NEW i \in Nat
    PROVE  /\ RankOf(K, 0) = 0 /\ RankOf(K, i) \in Nat
           /\ i + 1 \in K => RankOf(K, i + 1) = RankOf(K, i) + 1
           /\ i + 1 \notin K => RankOf(K, i + 1) = RankOf(K, i)
<1>1. RankOf(K, 0) = 0
  <2>1. {k \in 1..0 : k \in K} = {}
    OBVIOUS
  <2>2. QED
    BY <2>1, FS_EmptySet, Zenon DEF RankOf
<1>2. PICK T : T = {k \in 1..i : k \in K}
  OBVIOUS
<1>3. IsFiniteSet(T) /\ i + 1 \notin T
  <2>1. IsFiniteSet(1..i)
    BY FS_Interval
  <2>2. T \in SUBSET (1..i)
    BY <1>2
  <2>3. IsFiniteSet(T)
    BY <2>1, <2>2, FS_Subset, Zenon
  <2>4. QED
    BY <1>2, <2>3
<1>4. RankOf(K, i) = Cardinality(T) /\ Cardinality(T) \in Nat
  BY <1>2, <1>3, FS_CardinalityType, Zenon DEF RankOf
<1>5. ASSUME i + 1 \in K
      PROVE  RankOf(K, i + 1) = RankOf(K, i) + 1
  <2>1. {k \in 1..i + 1 : k \in K} = T \cup {i + 1}
    BY <1>2, <1>5
  <2>2. Cardinality(T \cup {i + 1}) = Cardinality(T) + 1
    BY <1>3, FS_AddElement
  <2>3. QED
    BY <1>4, <2>1, <2>2, Zenon DEF RankOf
<1>6. ASSUME i + 1 \notin K
      PROVE  RankOf(K, i + 1) = RankOf(K, i)
  <2>1. {k \in 1..i + 1 : k \in K} = T
    BY <1>2, <1>6
  <2>2. QED
    BY <1>4, <2>1, Zenon DEF RankOf
<1>7. QED
  BY <1>1, <1>4, <1>5, <1>6, Zenon

\* A member of processing goes back to ready with its own new id.
LEMMA ReturnSafe ==
    ASSUME NEW done, NEW i \in Nat, NEW n \in Nat, n + 1 = db.seq + i, NEW j \in Job,
           NEW js, j \in js, NEW Ls, \A z \in Ls : j \notin DOMAIN z,
           aborts \in Nat, holds \in [Workers -> Job \cup {NoJob}]
    PROVE  \E M : /\ Safe(Phase(done, {}, n, js, Ls), Push(i, j.url), M, Sound(done, URL))
                  /\ Safe(M, <<LRem("processing", j)>>,
                          Phase(done, {}, n + 1, js \ {j}, Ls), Sound(done, URL))
<1>1. Safe(Phase(done, {}, n, js, Ls), Push(i, j.url),
           Spared(done, n + 1, js, Ls, j), Sound(done, URL))
  BY CopySafe
<1>2. Safe(Spared(done, n + 1, js, Ls, j), <<LRem("processing", j)>>,
           Phase(done, {}, n + 1, js \ {j}, Ls), Sound(done, URL))
  BY RemoveSafe
<1>3. QED
  BY <1>1, <1>2, Zenon

\* luaReap, of a page of the expired leases.
LEMMA ReapSafe ==
    ASSUME NEW done, db \in Sound(done, {}), NEW t, NEW limit, NEW n \in Nat \ {0},
           NEW b \in Page(db.lease, t, limit, n),
           aborts \in Nat, holds \in [Workers -> Job \cup {NoJob}]
    PROVE  Safe({db}, ReapScript(b), Sound(done, {}), Sound(done, URL))
<1> DEFINE block(i) == <<Del("lease", b[i])>> \o Push(i, b[i].url) \o <<LRem("processing", b[i])>>
           blocks == [i \in DOMAIN b |-> block(i)]
           rest(i) == {b[k] : k \in i + 1..n}
           P(i) == Phase(done, {}, db.seq + i, rest(i), Partial(Job))
           Ps == [i \in 0..n |-> P(i)]
           T == Sound(done, {})
           Q == Sound(done, URL)
<1>1. /\ DOMAIN b = 1..n /\ db.seq \in Nat /\ db.lease \in Partial(Job)
      /\ \A i \in 1..n : b[i] \in Job /\ b[i] \in ToSet(db.processing)
      /\ \A i, k \in 1..n : i < k => b[i] # b[k]
  <2>1. b \in [1..n -> Due(db.lease, t)] /\ \A i, k \in 1..n : i < k => b[i] # b[k]
    BY DEF Page
  <2>2. db.seq \in Nat /\ db.lease \in Partial(Job)
    BY DEF Sound, Keyspace
  <2>3. Due(db.lease, t) \subseteq DOMAIN db.lease
    BY DEF Due
  <2>4. DOMAIN db.lease \subseteq Job /\ DOMAIN db.lease \subseteq ToSet(db.processing)
    BY <2>2, ZSet DEF Sound, QueuesApart
  <2>5. QED
    BY <2>1, <2>2, <2>3, <2>4
<1>2. \A i \in Nat : P(i) \subseteq T /\ P(i) \subseteq Q
  BY Anywhere DEF Phase
<1>3. {db} \subseteq P(0)
  <2>1. rest(0) \subseteq ToSet(db.processing)
    BY <1>1
  <2>2. QED
    BY <1>1, <2>1 DEF Phase
<1>4. ASSUME NEW i \in 1..n
      PROVE  Safe(P(i - 1), block(i), P(i), Q)
  <2>1. PICK j, js, m : /\ j = b[i] /\ js = rest(i - 1) /\ m = db.seq + (i - 1)
                        /\ j \in Job /\ j \in js
                        /\ m \in Nat /\ m + 1 = db.seq + i /\ i \in Nat
    <3>1. db.seq + (i - 1) \in Nat /\ (db.seq + (i - 1)) + 1 = db.seq + i /\ i \in Nat
      BY <1>1
    <3>2. i \in (i - 1) + 1..n
      OBVIOUS
    <3>3. b[i] \in Job /\ b[i] \in rest(i - 1)
      BY <1>1, <3>2
    <3> HIDE DEF rest
    <3>4. QED
      BY <3>1, <3>3, Zenon
  <2>2. Safe(P(i - 1), <<Del("lease", j)>>, Phase(done, {}, m, js, Unleased(j)), Q)
    BY <2>1, UnleaseSafe
  <2>3. \A z \in Unleased(j) : j \notin DOMAIN z
    BY DEF Unleased
  <2>4. PICK M : /\ Safe(Phase(done, {}, m, js, Unleased(j)), Push(i, j.url), M, Q)
                 /\ Safe(M, <<LRem("processing", j)>>,
                         Phase(done, {}, m + 1, js \ {j}, Unleased(j)), Q)
    BY <2>1, <2>3, ReturnSafe
  <2>5. Phase(done, {}, m + 1, js \ {j}, Unleased(j)) \subseteq P(i)
    <3>1. rest(i) \subseteq js \ {j}
      <4>1. \A x \in i + 1..n : x \in 1..n /\ x # i /\ x \in (i - 1) + 1..n
        OBVIOUS
      <4>2. QED
        BY <1>1, <2>1, <4>1
    <3>2. Unleased(j) \subseteq Partial(Job)
      BY DEF Unleased
    <3>3. QED
      BY <2>1, <3>1, <3>2 DEF Phase
  <2>6. M \subseteq M
    OBVIOUS
  <2>7. block(i) = <<Del("lease", j)>> \o Push(i, j.url) \o <<LRem("processing", j)>>
    BY <2>1
  <2> HIDE DEF P, Q, block
  <2>8. Safe(P(i - 1), <<Del("lease", j)>> \o Push(i, j.url), M, Q)
    BY <2>2, <2>4, Sequel, Zenon
  <2>9. Safe(M, <<LRem("processing", j)>>, P(i), Q)
    BY <2>4, <2>5, <2>6, Weaken, Zenon
  <2>10. QED
    BY <2>7, <2>8, <2>9, Sequel, Zenon
<1> HIDE DEF P, T, Q, block
<1>5. \A i \in 1..n : Safe(Ps[i - 1], blocks[i], Ps[i], Q)
  <2>1. \A i \in 1..n : i - 1 \in 0..n /\ i \in 0..n
    OBVIOUS
  <2>2. QED
    BY <1>1, <1>4, <2>1
<1>6. /\ DOMAIN blocks = 1..n /\ Len(blocks) = n /\ n # 0 /\ n \in Nat
      /\ Ps[0] = P(0) /\ Ps[n] = P(n)
  BY <1>1
<1> HIDE DEF blocks, Ps
<1>7. Safe(Ps[0], FlattenSeq(blocks), Ps[n], Q)
  BY <1>2, <1>5, <1>6, Batch
<1>8. ReapScript(b) = FlattenSeq(blocks)
  BY Zenon DEF ReapScript, blocks, block
<1>9. P(n) \subseteq T
  BY <1>2
<1>10. Safe({db}, FlattenSeq(blocks), T, Q)
  BY <1>3, <1>6, <1>7, <1>9, Weaken
<1>11. QED
  BY <1>8, <1>10, Zenon DEF T, Q

\* luaPromote, of a page of the due retries.
LEMMA PromoteSafe ==
    ASSUME NEW done, db \in Sound(done, {}), NEW t, NEW limit, NEW n \in Nat \ {0},
           NEW b \in Page(db.delayed, t, limit, n),
           aborts \in Nat, holds \in [Workers -> Job \cup {NoJob}]
    PROVE  Safe({db}, PromoteScript(b), Sound(done, {}), Sound(done, URL))
<1> DEFINE block(i) == Push(i, b[i].url) \o <<Del("delayed", b[i])>>
           blocks == [i \in DOMAIN b |-> block(i)]
           rest(i) == {b[k] : k \in i + 1..n}
           P(i) == {d \in Sound(done, {}) : d.seq = db.seq + i /\ rest(i) \subseteq DOMAIN d.delayed}
           Ps == [i \in 0..n |-> P(i)]
           T == Sound(done, {})
           Q == Sound(done, URL)
<1>1. /\ DOMAIN b = 1..n /\ db.seq \in Nat
      /\ \A i \in 1..n : b[i] \in Job /\ b[i] \in DOMAIN db.delayed
      /\ \A i, k \in 1..n : i < k => b[i] # b[k]
  <2>1. b \in [1..n -> Due(db.delayed, t)] /\ \A i, k \in 1..n : i < k => b[i] # b[k]
    BY DEF Page
  <2>2. db.seq \in Nat /\ db.delayed \in Partial(Job)
    BY DEF Sound, Keyspace
  <2>3. Due(db.delayed, t) \subseteq DOMAIN db.delayed
    BY DEF Due
  <2>4. DOMAIN db.delayed \subseteq Job
    BY <2>2, ZSet
  <2>5. QED
    BY <2>1, <2>2, <2>3, <2>4
<1>2. \A i \in Nat : P(i) \subseteq T /\ P(i) \subseteq Q
  BY Anywhere
<1>3. {db} \subseteq P(0)
  BY <1>1
<1>4. ASSUME NEW i \in 1..n
      PROVE  Safe(P(i - 1), block(i), P(i), Q)
  <2>1. PICK j, N : j = b[i] /\ N = PushedOf(P(i - 1), done, j.url, NewJob(i, j.url))
    OBVIOUS
  <2>2. j \in Job /\ j.url \in URL /\ j \in rest(i - 1)
    <3>1. i \in (i - 1) + 1..n
      OBVIOUS
    <3>2. QED
      BY <1>1, <2>1, <3>1 DEF Job
  <2>3. Safe(P(i - 1), Push(i, j.url), N, Q)
    <3>1. P(i - 1) \in SUBSET Sound(done, {}) /\ i \in Nat
      OBVIOUS
    <3>2. \A d \in P(i - 1) : d.seq + 1 = db.seq + i
      BY <1>1
    <3> HIDE DEF P
    <3>3. QED
      BY <2>1, <2>2, <3>1, <3>2, PushSafe
  <2>4. N \subseteq Q
    <3>1. {j.url} \in SUBSET URL
      BY <2>2
    <3>2. QED
      BY <2>1, <3>1, Anywhere DEF PushedOf
  <2>5. ASSUME NEW d \in N
        PROVE  Execute(d, Del("delayed", j)) \in P(i)
    <3>1. PICK e, extra : e = Execute(d, Del("delayed", j)) /\ extra = {j.url}
      OBVIOUS
    <3>2. PICK c \in P(i - 1) : d \in Sound(done, {j.url}) /\ Pushed(d, c, NewJob(i, j.url))
      BY <2>1 DEF PushedOf
    <3>3. /\ rest(i - 1) \subseteq DOMAIN d.delayed /\ d.seq = db.seq + i
          /\ NewJob(i, j.url) \in LiveIn(d) /\ NewJob(i, j.url) \notin LiveIn(c)
          /\ c.delayed = d.delayed
      BY <1>1, <3>2 DEF Pushed
    <3>4. j \in DOMAIN d.delayed /\ j \in LiveIn(c) /\ NewJob(i, j.url).url = j.url
      BY <2>2, <3>3 DEF LiveIn, NewJob
    <3>5. Spare(d, j, done)
      BY <3>3, <3>4, Zenon DEF Spare
    <3>6. d \in Sound(done, extra)
      BY <3>1, <3>2
    <3>7. /\ e \in Sound(done, extra \ {j.url}) /\ e.seq = d.seq
          /\ DOMAIN e.delayed = DOMAIN d.delayed \ {j}
      BY <3>1, <3>4, <3>5, <3>6, DoDrop
    <3>8. extra \ {j.url} = {} /\ rest(i) \subseteq rest(i - 1) \ {j}
      BY <1>1, <2>1, <3>1
    <3>9. QED
      BY <3>1, <3>3, <3>7, <3>8
  <2>6. P(i) \subseteq Q
    BY <1>2
  <2>7. block(i) = Push(i, j.url) \o <<Del("delayed", j)>>
    BY <2>1
  <2> HIDE DEF P, Q, block
  <2>8. Safe(N, <<Del("delayed", j)>>, P(i), Q)
    BY <2>4, <2>5, <2>6, OneCommand, Zenon
  <2>9. QED
    BY <2>3, <2>7, <2>8, Sequel, Zenon
<1> HIDE DEF P, T, Q, block
<1>5. \A i \in 1..n : Safe(Ps[i - 1], blocks[i], Ps[i], Q)
  <2>1. \A i \in 1..n : i - 1 \in 0..n /\ i \in 0..n
    OBVIOUS
  <2>2. QED
    BY <1>1, <1>4, <2>1
<1>6. /\ DOMAIN blocks = 1..n /\ Len(blocks) = n /\ n # 0 /\ n \in Nat
      /\ Ps[0] = P(0) /\ Ps[n] = P(n)
  BY <1>1
<1> HIDE DEF blocks, Ps
<1>7. Safe(Ps[0], FlattenSeq(blocks), Ps[n], Q)
  BY <1>2, <1>5, <1>6, Batch
<1>8. PromoteScript(b) = FlattenSeq(blocks)
  BY Zenon DEF PromoteScript, blocks, block
<1>9. P(n) \subseteq T
  BY <1>2
<1>10. Safe({db}, FlattenSeq(blocks), T, Q)
  BY <1>3, <1>6, <1>7, <1>9, Weaken
<1>11. QED
  BY <1>8, <1>10, Zenon DEF T, Q

\* luaSweep, of any distinct members of processing.
LEMMA SweepSafe ==
    ASSUME NEW done, db \in Sound(done, {}), NEW n \in Nat, NEW b \in [1..n -> ToSet(db.processing)],
           Distinct(b), Len(b) = n,
           aborts \in Nat, holds \in [Workers -> Job \cup {NoJob}]
    PROVE  Safe({db}, SweepScript(b), Sound(done, {}), Sound(done, URL))
<1> DEFINE orphans == {k \in Nat : b[k] \notin DOMAIN db.lease}
           rank(i) == RankOf(orphans, i)
           block(i) == IF b[i] \in DOMAIN db.lease THEN << >>
                       ELSE Push(OrphanRank(b, i), b[i].url) \o <<LRem("processing", b[i])>>
           blocks == [i \in DOMAIN b |-> block(i)]
           rest(i) == {b[k] : k \in {x \in i + 1..n : x \in orphans}}
           P(i) == Phase(done, {}, db.seq + rank(i), rest(i), {db.lease})
           Ps == [i \in 0..n |-> P(i)]
           T == Sound(done, {})
           Q == Sound(done, URL)
<1>1. /\ DOMAIN b = 1..n /\ db.seq \in Nat
      /\ \A i \in 1..n : b[i] \in Job /\ b[i] \in ToSet(db.processing)
      /\ \A i, k \in 1..n : i # k => b[i] # b[k]
  <2>1. ToSet(db.processing) \subseteq LiveIn(db) /\ db \in Keyspace
    BY DEF LiveIn, Sound
  <2>2. LiveIn(db) \subseteq Job /\ db.seq \in Nat
    BY <2>1, LiveJobs DEF Keyspace
  <2>3. QED
    BY <2>1, <2>2 DEF Distinct
<1>2. \A i \in Nat : P(i) \subseteq T /\ P(i) \subseteq Q
  BY Anywhere DEF Phase
<1>3. \A i \in Nat : rank(i) \in Nat /\ rank(i) = OrphanRank(b, i)
  <2>1. \A i \in Nat : {k \in 1..i : k \in orphans} = {k \in 1..i : b[k] \notin DOMAIN db.lease}
    OBVIOUS
  <2>2. \A i \in Nat : rank(i) \in Nat
    <3> HIDE DEF orphans
    <3>1. QED
      BY RankStep, Zenon
  <2>3. QED
    BY <2>1, <2>2, Zenon DEF OrphanRank, RankOf
<1>4. \A p \in Nat : /\ p + 1 \in orphans => rank(p + 1) = rank(p) + 1
                     /\ p + 1 \notin orphans => rank(p + 1) = rank(p)
  <2> HIDE DEF orphans
  <2>1. QED
    BY RankStep, Zenon
<1>5. {db} \subseteq P(0)
  <2>1. rest(0) \subseteq ToSet(db.processing)
    BY <1>1
  <2>2. rank(0) = 0
    <3> HIDE DEF orphans
    <3>1. 0 \in Nat
      OBVIOUS
    <3>2. QED
      BY <3>1, RankStep, Zenon
  <2> HIDE DEF rank, rest
  <2>3. QED
    BY <1>1, <2>1, <2>2 DEF Phase
<1>6. ASSUME NEW i \in 1..n
      PROVE  Safe(P(i - 1), block(i), P(i), Q)
  <2>1. i - 1 \in Nat /\ i \in Nat /\ (i - 1) + 1 = i
    OBVIOUS
  <2>2. CASE b[i] \in DOMAIN db.lease
    <3>1. i \notin orphans
      BY <2>2
    <3>2. rank(i) = rank(i - 1)
      <4> HIDE DEF orphans, rank
      <4>1. /\ (i - 1) + 1 \in orphans => rank((i - 1) + 1) = rank(i - 1) + 1
            /\ (i - 1) + 1 \notin orphans => rank((i - 1) + 1) = rank(i - 1)
        BY <1>4, <2>1, Zenon
      <4>2. QED
        BY <2>1, <3>1, <4>1, Zenon
    <3>3. rest(i) \subseteq rest(i - 1)
      <4>1. \A x \in i + 1..n : x \in (i - 1) + 1..n
        OBVIOUS
      <4> HIDE DEF orphans
      <4>2. QED
        BY <4>1
    <3>4. P(i - 1) \subseteq P(i)
      <4> HIDE DEF rank, rest
      <4>1. QED
        BY <3>2, <3>3 DEF Phase
    <3>5. block(i) = << >> /\ P(i - 1) \subseteq P(i - 1) /\ P(i - 1) \subseteq Q
      BY <1>2, <2>1, <2>2
    <3> HIDE DEF P, Q, block
    <3>6. Safe(P(i - 1), << >>, P(i - 1), Q)
      BY <3>5, NoCommand, Zenon
    <3>7. QED
      BY <3>4, <3>5, <3>6, Weaken, Zenon
  <2>3. CASE b[i] \notin DOMAIN db.lease
    <3>1. i \in orphans
      BY <2>3
    <3>2. rank(i) = rank(i - 1) + 1
      <4> HIDE DEF orphans, rank
      <4>1. /\ (i - 1) + 1 \in orphans => rank((i - 1) + 1) = rank(i - 1) + 1
            /\ (i - 1) + 1 \notin orphans => rank((i - 1) + 1) = rank(i - 1)
        BY <1>4, <2>1, Zenon
      <4>2. QED
        BY <2>1, <3>1, <4>1, Zenon
    <3>3. PICK j, js, m, k, Ls : /\ j = b[i] /\ js = rest(i - 1) /\ m = db.seq + rank(i - 1)
                                 /\ k = OrphanRank(b, i) /\ Ls = {db.lease}
      OBVIOUS
    <3>4. j \in Job /\ j \in js /\ \A z \in Ls : j \notin DOMAIN z
      <4>1. i \in {x \in (i - 1) + 1..n : x \in orphans}
        BY <2>1, <3>1
      <4>2. b[i] \in rest(i - 1)
        BY <4>1, Zenon
      <4>3. QED
        BY <1>1, <2>3, <3>3, <4>2
    <3>5. m \in Nat /\ k \in Nat /\ m + 1 = db.seq + k /\ m + 1 = db.seq + rank(i)
      <4>1. rank(i - 1) \in Nat /\ rank(i) \in Nat /\ rank(i) = OrphanRank(b, i)
        BY <1>3, <2>1, Zenon
      <4> HIDE DEF rank, rest, orphans
      <4>2. m = db.seq + rank(i - 1) /\ k = rank(i)
        BY <3>3, <4>1
      <4>3. QED
        BY <1>1, <3>2, <4>1, <4>2
    <3>6. PICK M : /\ Safe(Phase(done, {}, m, js, Ls), Push(k, j.url), M, Q)
                   /\ Safe(M, <<LRem("processing", j)>>, Phase(done, {}, m + 1, js \ {j}, Ls), Q)
      BY <3>4, <3>5, ReturnSafe
    <3>7. rest(i) \subseteq js \ {j}
      <4>1. \A x \in i + 1..n : x \in 1..n /\ x # i /\ x \in (i - 1) + 1..n
        OBVIOUS
      <4> HIDE DEF orphans
      <4>2. QED
        BY <1>1, <3>3, <4>1
    <3>8. Phase(done, {}, m + 1, js \ {j}, Ls) \subseteq P(i)
      <4> HIDE DEF rank, rest
      <4>1. QED
        BY <3>3, <3>5, <3>7 DEF Phase
    <3>9. /\ P(i - 1) = Phase(done, {}, m, js, Ls) /\ M \subseteq M
          /\ block(i) = Push(k, j.url) \o <<LRem("processing", j)>>
      BY <2>3, <3>3
    <3> HIDE DEF P, Q, block
    <3>10. Safe(M, <<LRem("processing", j)>>, P(i), Q)
      BY <3>6, <3>8, <3>9, Weaken, Zenon
    <3>11. QED
      BY <3>6, <3>9, <3>10, Sequel, Zenon
  <2>4. QED
    BY <2>2, <2>3
<1> HIDE DEF P, T, Q, block
<1>7. \A i \in 1..n : Safe(Ps[i - 1], blocks[i], Ps[i], Q)
  <2>1. \A i \in 1..n : i - 1 \in 0..n /\ i \in 0..n
    OBVIOUS
  <2>2. QED
    BY <1>1, <1>6, <2>1
<1>8. /\ DOMAIN blocks = 1..n /\ Len(blocks) = n /\ (n = 0 => blocks = << >>)
      /\ Ps[0] = P(0) /\ Ps[n] = P(n)
  BY <1>1
<1> HIDE DEF blocks, Ps
<1>9. Safe(Ps[0], FlattenSeq(blocks), Ps[n], Q)
  BY <1>2, <1>7, <1>8, Batch
<1>10. SweepScript(b) = FlattenSeq(blocks)
  BY Zenon DEF SweepScript, blocks, block
<1>11. P(n) \subseteq T
  BY <1>2
<1>12. Safe({db}, FlattenSeq(blocks), T, Q)
  BY <1>5, <1>8, <1>9, <1>11, Weaken
<1>13. QED
  BY <1>10, <1>12, Zenon DEF T, Q

\* luaScheduler, of a page of the due listings.
LEMMA SchedulerSafe ==
    ASSUME NEW done, db \in Sound(done, {}), NEW t \in Reading, now \in 1..MaxTime,
           NEW limit, NEW n \in Nat \ {0}, NEW b \in Page(db.next, t, limit, n),
           aborts \in Nat, holds \in [Workers -> Job \cup {NoJob}]
    PROVE  Safe({db}, SchedulerScript(b, t), Sound(done, {}), Sound(done, URL))
<1> DEFINE clear == {k \in Nat : ~Blocked(b[k], t)}
           rank(i) == RankOf(clear, i)
           Rank(i) == Cardinality({k \in 1..i : ~Blocked(b[k], t)})
           block(i) == IF ~Blocked(b[i], t)
                       THEN Unbury(b[i]) \o Push(Rank(i), b[i])
                            \o <<Put("next", b[i], PendingScore)>>
                       ELSE IF db.dead[b[i]] = 0 THEN <<Del("next", b[i])>>
                       ELSE <<Put("next", b[i], db.dead[b[i]])>>
           blocks == [i \in DOMAIN b |-> block(i)]
           rest(i) == {b[k] : k \in i + 1..n}
           P(i) == Free(done, db.seq + rank(i), rest(i))
           Ps == [i \in 0..n |-> P(i)]
           T == Sound(done, {})
           Q == Sound(done, URL)
<1>1. /\ DOMAIN b = 1..n /\ db.seq \in Nat
      /\ \A i \in 1..n : b[i] \in Listings /\ ~PendingIn(db, b[i])
      /\ \A i, k \in 1..n : i < k => b[i] # b[k]
  <2>1. b \in [1..n -> Due(db.next, t)] /\ \A i, k \in 1..n : i < k => b[i] # b[k]
    BY DEF Page
  <2>2. db.seq \in Nat /\ db.next \in Partial(Listings)
    BY DEF Sound, Keyspace
  <2>3. \A u \in Due(db.next, t) : u \in DOMAIN db.next /\ db.next[u] <= t
    BY DEF Due
  <2>4. DOMAIN db.next \subseteq Listings
    BY <2>2, ZSet
  <2>5. t \in Nat /\ t <= MaxTime /\ MaxTime \in Nat /\ PendingScore \in Nat /\ PendingScore > MaxTime
    BY Bounds, Clock
  <2>6. \A u \in Due(db.next, t) : u \in Listings /\ ~PendingIn(db, u)
    BY <2>3, <2>4, <2>5 DEF PendingIn
  <2>7. QED
    BY <2>1, <2>2, <2>6
<1>2. \A i \in Nat : P(i) \subseteq T /\ P(i) \subseteq Q
  BY Anywhere DEF Free
<1>3. \A i \in Nat : rank(i) \in Nat /\ rank(i) = Rank(i)
  <2>1. \A i \in Nat : {k \in 1..i : k \in clear} = {k \in 1..i : ~Blocked(b[k], t)}
    OBVIOUS
  <2>2. \A i \in Nat : rank(i) \in Nat
    <3> HIDE DEF clear
    <3>1. QED
      BY RankStep, Zenon
  <2>3. QED
    BY <2>1, <2>2, Zenon DEF RankOf
<1>4. \A p \in Nat : /\ p + 1 \in clear => rank(p + 1) = rank(p) + 1
                     /\ p + 1 \notin clear => rank(p + 1) = rank(p)
  <2> HIDE DEF clear
  <2>1. QED
    BY RankStep, Zenon
<1>5. {db} \subseteq P(0)
  <2>1. \A u \in rest(0) : ~PendingIn(db, u)
    BY <1>1
  <2>2. rank(0) = 0
    <3> HIDE DEF clear
    <3>1. 0 \in Nat
      OBVIOUS
    <3>2. QED
      BY <3>1, RankStep, Zenon
  <2> HIDE DEF rank, rest
  <2>3. QED
    BY <1>1, <2>1, <2>2 DEF Free
<1>6. ASSUME NEW i \in 1..n
      PROVE  Safe(P(i - 1), block(i), P(i), Q)
  <2>1. i - 1 \in Nat /\ i \in Nat /\ (i - 1) + 1 = i
    OBVIOUS
  <2>2. PICK u, us, m : u = b[i] /\ us = rest(i - 1) /\ m = db.seq + rank(i - 1)
    OBVIOUS
  <2>3. u \in Listings /\ u \in us /\ P(i - 1) = Free(done, m, us)
    <3>1. i \in (i - 1) + 1..n
      OBVIOUS
    <3>2. b[i] \in rest(i - 1)
      BY <3>1
    <3>3. QED
      BY <1>1, <2>2, <3>2
  <2>4. rest(i) \subseteq us \ {u}
    <3>1. \A x \in i + 1..n : x \in 1..n /\ i < x /\ x \in (i - 1) + 1..n
      OBVIOUS
    <3>2. QED
      BY <1>1, <2>2, <3>1
  <2>5. /\ (i - 1) + 1 \in clear => rank((i - 1) + 1) = rank(i - 1) + 1
        /\ (i - 1) + 1 \notin clear => rank((i - 1) + 1) = rank(i - 1)
        /\ rank(i - 1) \in Nat /\ rank(i) \in Nat /\ rank(i) = Rank(i)
    <3> HIDE DEF clear, rank, Rank
    <3>1. QED
      BY <1>3, <1>4, <2>1, Zenon
  <2>6. CASE ~Blocked(u, t)
    <3>1. i \in clear
      BY <2>2, <2>6
    <3>2. PICK k : k = Rank(i)
      OBVIOUS
    <3>3. rank(i) = rank(i - 1) + 1
      <4> HIDE DEF clear, rank
      <4>1. QED
        BY <2>1, <2>5, <3>1, Zenon
    <3>4. m \in Nat /\ k \in Nat /\ m + 1 = db.seq + k /\ m + 1 = db.seq + rank(i)
      <4>1. m = db.seq + rank(i - 1) /\ k = rank(i)
        BY <2>2, <2>5, <3>2
      <4> HIDE DEF rank, Rank, rest, clear
      <4>2. QED
        BY <1>1, <2>5, <3>3, <4>1
    <3>5. Safe(Free(done, m, us), Unbury(u), Free(done, m, us), Q)
      BY <2>3, UnburySafe
    <3>6. PICK N : /\ Safe(Free(done, m, us), Push(k, u), N, Q)
                   /\ Safe(N, <<Put("next", u, PendingScore)>>, Free(done, m + 1, us \ {u}), Q)
      BY <2>3, <3>4, MintSafe
    <3>7. Free(done, m + 1, us \ {u}) \subseteq P(i) /\ N \subseteq N
      <4> HIDE DEF rank, rest
      <4>1. QED
        BY <2>4, <3>4 DEF Free
    <3>8. block(i) = Unbury(u) \o Push(k, u) \o <<Put("next", u, PendingScore)>>
      BY <2>2, <2>6, <3>2
    <3> HIDE DEF P, Q, block
    <3>9. Safe(P(i - 1), Unbury(u) \o Push(k, u), N, Q)
      BY <2>3, <3>5, <3>6, Sequel, Zenon
    <3>10. Safe(N, <<Put("next", u, PendingScore)>>, P(i), Q)
      BY <3>6, <3>7, Weaken, Zenon
    <3>11. QED
      BY <3>8, <3>9, <3>10, Sequel, Zenon
  <2>7. CASE Blocked(u, t)
    <3>1. i \notin clear
      BY <2>2, <2>7
    <3>2. rank(i) = rank(i - 1)
      <4> HIDE DEF clear, rank
      <4>1. QED
        BY <2>1, <2>5, <3>1, Zenon
    <3>3. PICK v : v = db.dead[u]
      OBVIOUS
    <3>4. v \in Nat /\ v # 0 /\ v # PendingScore
      <4>1. v \in 1..PendingScore - 1
        BY <2>3, <2>7, <3>3, UrlAssumption DEF Sound, DeadUntil, Blocked
      <4>2. QED
        BY <4>1, Bounds
    <3>5. ASSUME NEW d \in P(i - 1)
          PROVE  Execute(d, Put("next", u, v)) \in P(i)
      <4>1. PICK e, extra : e = Execute(d, Put("next", u, v)) /\ extra = {}
        OBVIOUS
      <4>2. /\ d \in Sound(done, extra) /\ d.seq = m /\ ~PendingIn(d, u)
            /\ \A w \in us : ~PendingIn(d, w)
        BY <2>3, <4>1 DEF Free
      <4>3. (~PendingIn(d, u) => e \in Sound(done, extra)) /\ Rescheduled(e, d, u)
        <5>1. Timed(done, extra, d, e, u)
          BY <2>3, <3>4, <4>1, <4>2, DoSchedule, Zenon
        <5>2. QED
          BY <5>1, Zenon DEF Timed
      <4>4. m = db.seq + rank(i)
        BY <2>2, <3>2
      <4> HIDE DEF rank, rest
      <4>5. QED
        BY <2>4, <4>1, <4>2, <4>3, <4>4 DEF Rescheduled, OthersFree, Free
    <3>6. block(i) = <<Put("next", u, v)>>
      BY <2>2, <2>7, <3>3, <3>4
    <3>7. P(i - 1) \subseteq Q /\ P(i) \subseteq Q
      BY <1>2, <2>1
    <3> HIDE DEF P, Q, block
    <3>8. QED
      BY <3>5, <3>6, <3>7, OneCommand
  <2>8. QED
    BY <2>6, <2>7
<1>7. SchedulerScript(b, t) = FlattenSeq(blocks)
  BY Zenon DEF SchedulerScript
<1> HIDE DEF P, T, Q, block
<1>8. \A i \in 1..n : Safe(Ps[i - 1], blocks[i], Ps[i], Q)
  <2>1. \A i \in 1..n : i - 1 \in 0..n /\ i \in 0..n
    OBVIOUS
  <2>2. QED
    BY <1>1, <1>6, <2>1
<1>9. /\ DOMAIN blocks = 1..n /\ Len(blocks) = n /\ n # 0 /\ n \in Nat
      /\ Ps[0] = P(0) /\ Ps[n] = P(n)
  BY <1>1
<1> HIDE DEF blocks, Ps
<1>10. Safe(Ps[0], FlattenSeq(blocks), Ps[n], Q)
  BY <1>2, <1>8, <1>9, Batch
<1>11. P(n) \subseteq T
  BY <1>2
<1>12. Safe({db}, FlattenSeq(blocks), T, Q)
  BY <1>5, <1>9, <1>10, <1>11, Weaken
<1>13. QED
  BY <1>7, <1>12, Zenon DEF T, Q

\* What LRANGE reads of processing: distinct members.
LEMMA Window ==
    ASSUME NEW done, db \in Sound(done, {})
    PROVE  \E n \in Nat : /\ SweepWindow \in [1..n -> ToSet(db.processing)]
                          /\ Distinct(SweepWindow) /\ Len(SweepWindow) = n
<1> DEFINE s == db.processing
           len == Len(s)
           m == IF len > SweepBatchLimit THEN len - SweepBatchLimit + 1 ELSE 1
<1>1. s \in Seq(Job) /\ Distinct(s)
  BY DEF Sound, Keyspace, QueuesApart
<1>2. len \in Nat /\ DOMAIN s = 1..len
  BY <1>1
<1>3. m \in Nat \ {0} /\ m <= len + 1
  BY <1>2, LimitAssumption
<1>4. SweepWindow = SubSeq(s, m, len)
  BY Zenon DEF SweepWindow
<1> HIDE DEF m
<1>5. PICK w : w = SweepWindow
  OBVIOUS
<1>6. /\ Len(w) = len - m + 1 /\ DOMAIN w = 1..len - m + 1 /\ len - m + 1 \in Nat
      /\ \A i \in 1..len - m + 1 : w[i] = s[m + i - 1]
      /\ w \in Seq(Job)
  <2>1. \A i \in m..len : s[i] \in Job
    BY <1>1, <1>2, <1>3, ElementOfSeq
  <2>2. m \in Int /\ len \in Int
    BY <1>2, <1>3
  <2> HIDE DEF s, len
  <2>3. /\ w \in Seq(Job) /\ Len(w) = (IF m <= len THEN len - m + 1 ELSE 0)
        /\ \A i \in 1..len - m + 1 : w[i] = s[m + i - 1]
    BY <1>4, <1>5, <2>1, <2>2, SubSeqProperties
  <2>4. len - m + 1 \in Nat /\ (IF m <= len THEN len - m + 1 ELSE 0) = len - m + 1
    BY <1>2, <1>3
  <2>5. DOMAIN w = 1..Len(w)
    BY <2>3
  <2>6. QED
    BY <2>3, <2>4, <2>5
<1>7. \A i \in 1..len - m + 1 : m + i - 1 \in 1..len
  BY <1>2, <1>3
<1>8. \A i \in 1..len - m + 1 : w[i] \in ToSet(s)
  BY <1>2, <1>6, <1>7 DEF ToSet
<1>9. Distinct(w)
  <2>1. ASSUME NEW i \in 1..len - m + 1, NEW k \in 1..len - m + 1, w[i] = w[k]
        PROVE  i = k
    <3>1. PICK p, q \in 1..len : p = m + i - 1 /\ q = m + k - 1
      BY <1>7
    <3>2. s[p] = s[q]
      BY <1>6, <2>1, <3>1
    <3>3. p = q
      <4>1. p \in 1..Len(s) /\ q \in 1..Len(s)
        BY <3>1
      <4> HIDE DEF s, len
      <4>2. QED
        BY <1>1, <3>2, <4>1, Zenon DEF Distinct
    <3>4. QED
      BY <1>2, <1>3, <3>1, <3>3
  <2>2. QED
    BY <1>6, <2>1 DEF Distinct
<1>10. w \in [1..len - m + 1 -> ToSet(s)]
  <2>1. PICK k \in Nat : k = len - m + 1
    BY <1>6
  <2>2. w \in [1..k -> Job]
    <3>1. w \in Seq(Job) /\ Len(w) = k
      BY <1>6, <2>1
    <3>2. QED
      BY <3>1, LenProperties, Zenon
  <2>3. QED
    BY <1>8, <2>1, <2>2
<1>11. QED
  BY <1>5, <1>6, <1>9, <1>10

-----------------------------------------------------------------------------
(* The inductive invariant.                                                *)

\* What a step may not forget.
Kept == KnownIn(db, acked) \cup db'.bloom \subseteq KnownIn(db', acked')

\* Some members in the hands of the workers are dropped, others, that only the
\* keyspace the step ends in holds, are taken.
Handed ==
    \A w \in Workers : holds'[w] # NoJob /\ holds'[w] # holds[w] =>
        /\ holds'[w] \in ToSet(db'.processing)
        /\ holds'[w] \notin ToSet(db'.ready) \cup DOMAIN db'.delayed

\* Where a call ends, cut short or not, the keyspace is sound again: an aborted
\* script accounts for one more job.
LEMMA Lands ==
    ASSUME IInv, NEW done, acked \subseteq done, acked' = done, Handed,
           holds' \in [Workers -> Job \cup {NoJob}],
           \/ db' \in Sound(done, {}) /\ aborts' = aborts
           \/ db' \in Sound(done, URL) /\ aborts' = aborts + 1
    PROVE  aborts' \in Nat /\ db' \in Sound(acked, {})' /\ Kept
<1>1. PICK extra : /\ db' \in Sound(done, extra)
                   /\ \/ extra = {} /\ aborts' = aborts
                      \/ extra = URL /\ aborts' = aborts + 1
  OBVIOUS
<1>2. PICK d, held, m : d = db' /\ held = holds' /\ m = aborts'
  OBVIOUS
<1>3. /\ d \in Keyspace /\ IdsMinted(d) /\ QueuesApart(d) /\ DeadUntil(d) /\ PendingHasJob(d)
      /\ KnownIn(db, done) \cup d.bloom \subseteq KnownIn(d, done) /\ FewJobs(d, extra)
  BY <1>1, <1>2 DEF Sound
<1>4. aborts \in Nat /\ m \in Nat /\ aborts' \in Nat
  BY <1>1, <1>2 DEF IInv
<1>5. LiveIn(d) \subseteq Job /\ NoJob \notin Job
  BY <1>3, LiveJobs, UrlAssumption
<1>6. \A w \in Workers :
        \/ held[w] = NoJob
        \/ held[w] = holds[w]
        \/ held[w] \in ToSet(d.processing) /\ held[w] \notin ToSet(d.ready) \cup DOMAIN d.delayed
  BY <1>2 DEF Handed
<1>7. IdsMinted(d)'
  <2>1. ASSUME NEW w \in Workers, held[w] # NoJob
        PROVE  held[w].id <= d.seq
    BY <1>3, <1>6, <2>1 DEF IdsMinted, LiveIn
  <2>2. \A j \in LiveIn(d) : j.id <= d.seq
    BY <1>3 DEF IdsMinted
  <2>3. QED
    BY <1>2, <2>1, <2>2 DEF IdsMinted
<1>8. QueuesApart(d)'
  <2>1. ASSUME NEW w \in Workers
        PROVE  held[w] \notin ToSet(d.ready) \cup DOMAIN d.delayed
    <3>1. NoJob \notin ToSet(d.ready) \cup DOMAIN d.delayed
      BY <1>5 DEF LiveIn
    <3>2. holds[w] \notin ToSet(d.ready) \cup DOMAIN d.delayed
      BY <1>3 DEF QueuesApart
    <3>3. QED
      BY <1>6, <3>1, <3>2
  <2>2. QED
    BY <1>2, <1>3, <2>1 DEF QueuesApart
<1>9. FewJobs(d, {})'
  <2>1. ASSUME NEW u \in URL, Counted(d, u)
        PROVE  Cardinality(JobsIn(d, u)) <= Allowed(d, u) + m + (IF u \in {} THEN 1 ELSE 0)
    <3>1. Cardinality(JobsIn(d, u)) <= Allowed(d, u) + aborts + (IF u \in extra THEN 1 ELSE 0)
      BY <1>3, <2>1 DEF FewJobs
    <3>2. JobsIn(d, u) \in SUBSET LiveIn(d) /\ IsFiniteSet(LiveIn(d))
      BY <1>3 DEF FewJobs, JobsIn
    <3>3. Cardinality(JobsIn(d, u)) \in Nat /\ Allowed(d, u) \in Nat
      BY <3>2, FS_Subset, FS_CardinalityType DEF Allowed
    <3>4. QED
      BY <1>1, <1>2, <1>4, <3>1, <3>3
  <2>2. IsFiniteSet(LiveIn(d))
    BY <1>3 DEF FewJobs
  <2>3. QED
    BY <1>2, <2>1, <2>2 DEF FewJobs
<1>10. KnownIn(db, acked) \cup d.bloom \subseteq KnownIn(d, done)
  <2>1. KnownIn(db, acked) \subseteq KnownIn(db, done)
    BY DEF KnownIn, Settled
  <2>2. QED
    BY <1>3, <2>1
<1>11. db' \in Sound(acked, {})'
  <2>1. KnownIn(d, done) \cup d.bloom \subseteq KnownIn(d, done)
    BY <1>10
  <2>2. QED
    BY <1>2, <1>3, <1>7, <1>8, <1>9, <2>1 DEF Sound, DeadUntil, PendingHasJob, Keyspace
<1>12. QED
  BY <1>2, <1>4, <1>10, <1>11 DEF Kept

\* A call that takes no member keeps the invariant.
LEMMA CallKeeps ==
    ASSUME IInv, NEW done \in SUBSET Videos, acked \subseteq done, acked' = done,
           NEW script, Safe({db}, script, Sound(done, {}), Sound(done, URL)),
           Transaction(script), now' = now,
           NEW hs \in SUBSET Workers,
           holds' = [w \in Workers |-> IF w \in hs THEN NoJob ELSE holds[w]]
    PROVE  IInv' /\ Kept
<1>1. \/ db' \in Sound(done, {}) /\ aborts' = aborts
      \/ db' \in Sound(done, URL) /\ aborts' = aborts + 1
  BY Transacted
<1>2. /\ holds' \in [Workers -> Job \cup {NoJob}] /\ Handed
      /\ \A v, w \in Workers : holds'[v] = holds'[w] /\ holds'[v] # NoJob => v = w
  BY DEF IInv, Handed
<1>3. aborts' \in Nat /\ db' \in Sound(acked, {})' /\ Kept
  BY <1>1, <1>2, Lands
<1>4. QED
  BY <1>2, <1>3 DEF IInv

\* The same of a call of no worker.
LEMMA ScriptKeeps ==
    ASSUME IInv, NEW script, Safe({db}, script, Sound(acked, {}), Sound(acked, URL)),
           Call(script)
    PROVE  IInv' /\ Kept
<1>1. PICK done, hs : done = acked /\ hs = {}
  OBVIOUS
<1>2. /\ done \in SUBSET Videos /\ acked \subseteq done /\ acked' = done /\ now' = now
      /\ hs \in SUBSET Workers
      /\ Safe({db}, script, Sound(done, {}), Sound(done, URL)) /\ Transaction(script)
  BY <1>1 DEF IInv, Call
<1>3. holds' = [w \in Workers |-> IF w \in hs THEN NoJob ELSE holds[w]]
  BY <1>1 DEF IInv, Call
<1>4. QED
  BY <1>2, <1>3, CallKeeps

\* The same of a resolution.
LEMMA ResolveKeeps ==
    ASSUME IInv, NEW done \in SUBSET Videos, acked \subseteq done, acked' = done,
           NEW script, Safe({db}, script, Sound(done, {}), Sound(done, URL)),
           NEW w \in Workers, Resolve(w, script)
    PROVE  IInv' /\ Kept
<1>1. PICK hs : hs = {w}
  OBVIOUS
<1>2. hs \in SUBSET Workers /\ Transaction(script) /\ now' = now
  BY <1>1 DEF Resolve
<1>3. holds' = [v \in Workers |-> IF v \in hs THEN NoJob ELSE holds[v]]
  BY <1>1 DEF IInv, Resolve
<1>4. QED
  BY <1>2, <1>3, CallKeeps

\* What the safety of a script assumes.
LEMMA IInvParts ==
    ASSUME IInv
    PROVE  /\ now \in 1..MaxTime /\ aborts \in Nat /\ acked \in SUBSET Videos
           /\ holds \in [Workers -> Job \cup {NoJob}] /\ db \in Sound(acked, {})
BY DEF IInv

\* An empty keyspace is sound.
LEMMA IInvInit ==
    ASSUME Init
    PROVE  IInv
<1>1. /\ \A S : << >> \in Partial(S)
      /\ \A S : << >> \in Seq(S)
      /\ ToSet(<< >>) = {} /\ DOMAIN << >> = {} /\ Distinct(<< >>)
  <2>1. \A S : << >> \in [{} -> Nat] /\ {} \in SUBSET S
    OBVIOUS
  <2>2. QED
    BY <2>1 DEF Partial, ToSet, Distinct
<1>2. /\ db.seq = 0 /\ db.bloom = {} /\ db.ready = << >> /\ db.processing = << >>
      /\ db.lease = << >> /\ db.delayed = << >> /\ db.dead = << >> /\ db.next = << >>
      /\ db \in Keyspace
  BY <1>1 DEF Init, Keyspace
<1>3. LiveIn(db) = {} /\ DOMAIN db.lease = {} /\ DOMAIN db.delayed = {}
      /\ DOMAIN db.dead = {} /\ DOMAIN db.next = {}
  BY <1>1, <1>2 DEF LiveIn
<1>4. \A u : JobsIn(db, u) = {} /\ ~PendingIn(db, u)
  BY <1>3 DEF JobsIn, PendingIn
<1>5. \A w \in Workers : holds[w] = NoJob
  BY DEF Init
<1>6. IdsMinted(db) /\ DeadUntil(db) /\ PendingHasJob(db)
  BY <1>3, <1>4, <1>5 DEF IdsMinted, DeadUntil, PendingHasJob
<1>7. QueuesApart(db)
  BY <1>1, <1>2, <1>3 DEF QueuesApart
<1>8. FewJobs(db, {})
  <2>1. \A u : Allowed(db, u) \in Nat
    BY DEF Allowed
  <2>2. aborts = 0
    BY DEF Init
  <2>3. IsFiniteSet({}) /\ Cardinality({}) = 0
    BY FS_EmptySet
  <2>4. ASSUME NEW u
        PROVE  Cardinality(JobsIn(db, u)) <= Allowed(db, u) + aborts + (IF u \in {} THEN 1 ELSE 0)
    <3>1. Cardinality(JobsIn(db, u)) = 0
      BY <1>4, <2>3
    <3>2. Allowed(db, u) \in Nat
      BY <2>1
    <3>3. QED
      BY <2>2, <3>1, <3>2
  <2>5. QED
    BY <1>3, <2>3, <2>4 DEF FewJobs
<1>9. db \in Sound(acked, {})
  BY <1>2, <1>6, <1>7, <1>8 DEF Sound
<1>10. QED
  BY <1>5, <1>9, TimeAssumption DEF Init, IInv

\* No more job in anyone's hands, no new one.
LEMMA LeaseKeeps ==
    ASSUME IInv, NEW w \in Workers, NEW t \in Reading, Lease(w, t)
    PROVE  IInv' /\ Kept
<1> DEFINE j == Last(db.ready)
           R == {d \in Sound(acked, {}) : /\ j \in ToSet(d.processing)
                                          /\ j \notin ToSet(d.ready) \cup DOMAIN d.delayed}
<1>1. /\ Safe({db}, LeaseScript(t), R, Sound(acked, URL))
      /\ j \in ToSet(db.ready) \cap Job
  <2>1. PICK done : done = acked
    OBVIOUS
  <2>2. /\ db \in Sound(done, {}) /\ db.ready # << >> /\ aborts \in Nat
        /\ holds \in [Workers -> Job \cup {NoJob}]
    BY <2>1 DEF IInv, Lease
  <2>3. /\ Safe({db}, LeaseScript(t),
                {d \in Sound(done, {}) :
                    /\ Last(db.ready) \in ToSet(d.processing)
                    /\ Last(db.ready) \notin ToSet(d.ready) \cup DOMAIN d.delayed},
                Sound(done, URL))
        /\ Last(db.ready) \in ToSet(db.ready) \cap Job
    BY <2>2, LeaseSafe
  <2>4. QED
    BY <2>1, <2>3, Zenon
<1>2. \/ db' \in R /\ aborts' = aborts
      \/ db' \in Sound(acked, URL) /\ aborts' = aborts + 1
  <2> HIDE DEF R
  <2>1. db \in {db} /\ Transaction(LeaseScript(t))
    BY DEF Lease
  <2>2. QED
    BY <1>1, <2>1, Transacted, Zenon
<1>3. PICK done : done = acked /\ acked' = done /\ done \subseteq Videos /\ acked \subseteq done
  BY DEF Lease, IInv
<1>4. aborts \in Nat /\ now' = now /\ holds \in [Workers -> Job \cup {NoJob}]
  BY DEF IInv, Lease
<1>5. holds' = IF aborts' = aborts THEN [holds EXCEPT ![w] = j] ELSE holds
  BY DEF Lease
<1>6. holds' \in [Workers -> Job \cup {NoJob}]
  BY <1>1, <1>4, <1>5
<1>7. Handed
  <2>1. CASE aborts' = aborts
    <3>1. db' \in R
      BY <1>2, <1>4, <2>1
    <3>2. \A v \in Workers : holds'[v] = holds[v] \/ holds'[v] = j
      BY <1>4, <1>5, <2>1
    <3>3. QED
      BY <3>1, <3>2 DEF Handed
  <2>2. CASE aborts' # aborts
    BY <1>5, <2>2 DEF Handed
  <2>3. QED
    BY <2>1, <2>2
<1>8. \A v, x \in Workers : holds'[v] = holds'[x] /\ holds'[v] # NoJob => v = x
  <2>1. \A v \in Workers : holds[v] # j
    BY <1>1 DEF IInv, Sound, QueuesApart
  <2>2. QED
    BY <1>4, <1>5, <2>1 DEF IInv
<1>9. \/ db' \in Sound(done, {}) /\ aborts' = aborts
      \/ db' \in Sound(done, URL) /\ aborts' = aborts + 1
  BY <1>2, <1>3
<1>10. aborts' \in Nat /\ db' \in Sound(acked, {})' /\ Kept
  BY <1>3, <1>6, <1>7, <1>9, Lands
<1>11. QED
  BY <1>3, <1>4, <1>6, <1>8, <1>10 DEF IInv

\* A worker that gives up what it holds.
LEMMA DropKeeps ==
    ASSUME IInv, NEW w \in Workers, Drop(w)
    PROVE  IInv' /\ Kept
<1>1. PICK done : done = acked /\ acked' = done /\ acked \subseteq done
  BY DEF Drop
<1>2. aborts' = aborts /\ db' = db /\ now' = now /\ holds' = [holds EXCEPT ![w] = NoJob]
  BY DEF Drop
<1>3. /\ holds' \in [Workers -> Job \cup {NoJob}] /\ Handed
      /\ \A v, x \in Workers : holds'[v] = holds'[x] /\ holds'[v] # NoJob => v = x
  BY <1>2 DEF IInv, Handed
<1>4. db' \in Sound(done, {})
  BY <1>1, <1>2 DEF IInv
<1>5. aborts' \in Nat /\ db' \in Sound(acked, {})' /\ Kept
  BY <1>1, <1>2, <1>3, <1>4, Lands
<1>6. QED
  BY <1>1, <1>2, <1>3, <1>5 DEF IInv

\* The resolutions of what worker w holds.
LEMMA ResolutionsKeep ==
    ASSUME IInv, NEW w \in Workers,
           \/ Ack(w) \/ Nack(w)
           \/ \E t \in Reading : Terminal(w, t)
           \/ \E t \in Reading, class \in FailClass : Fail(w, class, t)
           \/ \E t \in Reading, fresh \in BOOLEAN : CompleteListing(w, fresh, t)
    PROVE  IInv' /\ Kept
<1>1. PICK done : done = acked
  OBVIOUS
<1>2. /\ now \in 1..MaxTime /\ aborts \in Nat /\ done \in SUBSET Videos
      /\ holds \in [Workers -> Job \cup {NoJob}] /\ db \in Sound(done, {})
      /\ acked \subseteq done
  BY <1>1 DEF IInv
<1>3. holds[w] \in DOMAIN db.lease
  BY DEF Ack, Nack, Terminal, Fail, CompleteListing, Resolve
<1>4. CASE Ack(w)
  <2>1. PICK more : more = done \cup {holds[w].url}
    OBVIOUS
  <2>2. /\ holds[w].url \in Videos \cap more /\ acked' = more /\ more \in SUBSET Videos
        /\ done \subseteq more /\ acked \subseteq more /\ Resolve(w, AckScript(holds[w]))
    BY <1>1, <1>2, <1>4, <2>1 DEF Ack
  <2>3. db \in Sound(more, {})
    BY <1>2, <2>2, DoneMore
  <2>4. Safe({db}, AckScript(holds[w]), Sound(more, {}), Sound(more, URL))
    BY <1>2, <1>3, <2>2, <2>3, AckSafe
  <2>5. QED
    BY <2>2, <2>4, ResolveKeeps
<1>5. CASE Nack(w)
  <2>1. Resolve(w, NackScript(holds[w])) /\ acked' = done
    BY <1>1, <1>5 DEF Nack
  <2>2. Safe({db}, NackScript(holds[w]), Sound(done, {}), Sound(done, URL))
    BY <1>2, <1>3, NackSafe
  <2>3. QED
    BY <1>2, <2>1, <2>2, ResolveKeeps
<1>6. ASSUME NEW t \in Reading, Terminal(w, t)
      PROVE  IInv' /\ Kept
  <2>1. Resolve(w, TerminalScript(holds[w], t)) /\ acked' = done
    BY <1>1, <1>6 DEF Terminal
  <2>2. Safe({db}, TerminalScript(holds[w], t), Sound(done, {}), Sound(done, URL))
    BY <1>2, <1>3, TerminalSafe
  <2>3. QED
    BY <1>2, <2>1, <2>2, ResolveKeeps
<1>7. ASSUME NEW t \in Reading, NEW class \in FailClass, Fail(w, class, t)
      PROVE  IInv' /\ Kept
  <2>1. Resolve(w, FailScript(holds[w], class, t)) /\ acked' = done
    BY <1>1, <1>7 DEF Fail
  <2>2. Safe({db}, FailScript(holds[w], class, t), Sound(done, {}), Sound(done, URL))
    BY <1>2, <1>3, FailSafe
  <2>3. QED
    BY <1>2, <2>1, <2>2, ResolveKeeps
<1>8. ASSUME NEW t \in Reading, NEW fresh \in BOOLEAN, CompleteListing(w, fresh, t)
      PROVE  IInv' /\ Kept
  <2>1. /\ Resolve(w, CompleteListingScript(holds[w], fresh, t)) /\ acked' = done
        /\ holds[w].url \in Listings
    BY <1>1, <1>8 DEF CompleteListing
  <2>2. Safe({db}, CompleteListingScript(holds[w], fresh, t), Sound(done, {}), Sound(done, URL))
    BY <1>2, <1>3, <2>1, CompleteSafe
  <2>3. QED
    BY <1>2, <2>1, <2>2, ResolveKeeps
<1>9. QED
  BY <1>4, <1>5, <1>6, <1>7, <1>8

\* The calls that no worker makes for a member it holds.
LEMMA CallsKeep ==
    ASSUME IInv,
           \/ SeedListing \/ Sweep
           \/ \E u \in Videos, t \in Reading : AdmitVideo(u, t)
           \/ \E u \in Listings, t \in Reading : AdmitListing(u, t)
           \/ \E t \in Reading : Reap(t) \/ Promote(t) \/ RunListingScheduler(t)
    PROVE  IInv' /\ Kept
<1>1. PICK done : done = acked
  OBVIOUS
<1>2. /\ now \in 1..MaxTime /\ aborts \in Nat
      /\ holds \in [Workers -> Job \cup {NoJob}] /\ db \in Sound(done, {})
  BY <1>1 DEF IInv
<1>3. ASSUME NEW script, Safe({db}, script, Sound(done, {}), Sound(done, URL)), Call(script)
      PROVE  IInv' /\ Kept
  BY <1>1, <1>3, ScriptKeeps
<1>4. CASE SeedListing
  <2>1. Safe({db}, <<Put("next", BaseUrl, 0)>>, Sound(done, {}), Sound(done, URL))
    BY <1>2, <1>4, SeedSafe DEF SeedListing
  <2>2. QED
    BY <1>3, <1>4, <2>1 DEF SeedListing
<1>5. CASE Sweep
  <2>1. PICK n \in Nat : /\ SweepWindow \in [1..n -> ToSet(db.processing)]
                         /\ Distinct(SweepWindow) /\ Len(SweepWindow) = n
    BY <1>2, Window
  <2>2. Safe({db}, SweepScript(SweepWindow), Sound(done, {}), Sound(done, URL))
    BY <1>2, <2>1, SweepSafe
  <2>3. QED
    BY <1>3, <1>5, <2>2 DEF Sweep
<1>6. ASSUME NEW u \in Videos, NEW t \in Reading, AdmitVideo(u, t)
      PROVE  IInv' /\ Kept
  <2>1. PICK present \in BOOLEAN : (~present => u \notin db.bloom) /\ Call(AdmitVideoScript(u, present))
    BY <1>6 DEF AdmitVideo
  <2>2. ~Blocked(u, t)
    BY <1>6 DEF AdmitVideo
  <2>3. Safe({db}, AdmitVideoScript(u, present), Sound(done, {}), Sound(done, URL))
    BY <1>2, <2>1, <2>2, AdmitVideoSafe
  <2>4. QED
    BY <1>3, <2>1, <2>3
<1>7. ASSUME NEW u \in Listings, NEW t \in Reading, AdmitListing(u, t)
      PROVE  IInv' /\ Kept
  <2>1. Safe({db}, AdmitListingScript(u, t), Sound(done, {}), Sound(done, URL))
    BY <1>2, AdmitListingSafe
  <2>2. QED
    BY <1>3, <1>7, <2>1 DEF AdmitListing
<1>8. ASSUME NEW t \in Reading, Reap(t)
      PROVE  IInv' /\ Kept
  <2>1. PICK n, b : /\ n \in 1..ReapBatchLimit
                   /\ b \in Page(db.lease, t, ReapBatchLimit, n)
                   /\ Call(ReapScript(b))
    BY <1>8 DEF Reap
  <2>2. n \in Nat \ {0}
    BY <2>1
  <2>3. Safe({db}, ReapScript(b), Sound(done, {}), Sound(done, URL))
    BY <1>2, <2>1, <2>2, ReapSafe
  <2>4. QED
    BY <1>3, <2>1, <2>3
<1>9. ASSUME NEW t \in Reading, Promote(t)
      PROVE  IInv' /\ Kept
  <2>1. PICK n, b : /\ n \in 1..PromoteBatchLimit
                   /\ b \in Page(db.delayed, t, PromoteBatchLimit, n)
                   /\ Call(PromoteScript(b))
    BY <1>9 DEF Promote
  <2>2. n \in Nat \ {0}
    BY <2>1
  <2>3. Safe({db}, PromoteScript(b), Sound(done, {}), Sound(done, URL))
    BY <1>2, <2>1, <2>2, PromoteSafe
  <2>4. QED
    BY <1>3, <2>1, <2>3
<1>10. ASSUME NEW t \in Reading, RunListingScheduler(t)
       PROVE  IInv' /\ Kept
  <2>1. PICK n, b : /\ n \in 1..SchedulerBatchLimit
                   /\ b \in Page(db.next, t, SchedulerBatchLimit, n)
                   /\ Call(SchedulerScript(b, t))
    BY <1>10 DEF RunListingScheduler
  <2>2. n \in Nat \ {0}
    BY <2>1
  <2>3. Safe({db}, SchedulerScript(b, t), Sound(done, {}), Sound(done, URL))
    BY <1>2, <2>1, <2>2, SchedulerSafe
  <2>4. QED
    BY <1>3, <2>1, <2>3
<1>11. QED
  BY <1>4, <1>5, <1>6, <1>7, <1>8, <1>9, <1>10

\* Every step keeps the invariant and forgets no url.
LEMMA IInvNext ==
    ASSUME IInv, [Next]_vars
    PROVE  IInv' /\ Kept
<1>1. CASE Tick
  <2>1. now' \in 1..MaxTime
    BY <1>1, TimeAssumption DEF IInv, Tick
  <2>2. UNCHANGED <<holds, acked, db, aborts>>
    BY <1>1 DEF Tick
  <2>3. KnownIn(db, acked) \cup db.bloom \subseteq KnownIn(db, acked)
    BY DEF IInv, Sound
  <2>4. db' \in Sound(acked, {})'
    BY <2>2 DEF IInv, Sound, IdsMinted, QueuesApart, FewJobs
  <2>5. QED
    BY <2>1, <2>2, <2>3, <2>4 DEF IInv, Kept
<1>2. CASE UNCHANGED vars
  <2>1. UNCHANGED <<now, holds, acked, db, aborts>>
    BY <1>2 DEF vars
  <2>2. KnownIn(db, acked) \cup db.bloom \subseteq KnownIn(db, acked)
    BY DEF IInv, Sound
  <2>3. db' \in Sound(acked, {})'
    BY <2>1 DEF IInv, Sound, IdsMinted, QueuesApart, FewJobs
  <2>4. QED
    BY <2>1, <2>2, <2>3 DEF IInv, Kept
<1>3. ASSUME NEW w \in Workers, Work(w)
      PROVE  IInv' /\ Kept
  <2>1. CASE LeaseNothing(w)
    BY <1>2, <2>1 DEF LeaseNothing
  <2>2. CASE Drop(w)
    BY <2>2, DropKeeps
  <2>3. ASSUME NEW t \in Reading, Lease(w, t)
        PROVE  IInv' /\ Kept
    BY <2>3, LeaseKeeps
  <2>4. CASE \/ Ack(w) \/ Nack(w)
             \/ \E t \in Reading : Terminal(w, t)
             \/ \E t \in Reading, class \in FailClass : Fail(w, class, t)
             \/ \E t \in Reading, fresh \in BOOLEAN : CompleteListing(w, fresh, t)
    BY <2>4, ResolutionsKeep
  <2>5. QED
    BY <1>3, <2>1, <2>2, <2>3, <2>4, Zenon DEF Work
<1>4. CASE \/ SeedListing \/ Sweep
           \/ \E u \in Videos, t \in Reading : AdmitVideo(u, t)
           \/ \E u \in Listings, t \in Reading : AdmitListing(u, t)
           \/ \E t \in Reading : Reap(t) \/ Promote(t) \/ RunListingScheduler(t)
  BY <1>4, CallsKeep
<1>5. QED
  BY <1>1, <1>2, <1>3, <1>4, Zenon DEF Next

\* The invariant holds in every state.
LEMMA IInvCorrect == Spec => []IInv
BY IInvInit, IInvNext, PTL DEF Spec

-----------------------------------------------------------------------------
(* The theorems.                                                           *)

\* A cut-short script never leaves a listing PENDING without a job: luaScheduler
\* and luaAdmitListing push the job before they write PENDING.
THEOREM NoneStuck == Spec => []NoStuckListing
<1>1. IInv => NoStuckListing
  <2>1. SUFFICES ASSUME IInv, NEW u \in Listings, F!Pending(u)
                 PROVE  F!HasJob(u)
    BY DEF NoStuckListing
  <2>2. PendingIn(db, u)
    BY <2>1 DEF F!Pending, PendingIn
  <2>3. JobsIn(db, u) # {}
    BY <2>1, <2>2 DEF IInv, Sound, PendingHasJob
  <2>4. QED
    BY <2>3 DEF JobsIn, LiveIn, F!HasJob, F!Live
<1>2. QED
  BY <1>1, IInvCorrect, PTL

\* Each script cut short costs at most one more job of a claimed or scheduled
\* url.
THEOREM DuplicatesBounded == Spec => []BoundedDuplicates
<1>1. IInv => BoundedDuplicates
  <2>1. SUFFICES ASSUME IInv, NEW u \in Listings \cup db.bloom
                 PROVE  JobsOf(u) <= 1 + aborts
    BY DEF BoundedDuplicates
  <2>2. db \in Keyspace /\ FewJobs(db, {}) /\ aborts \in Nat
    BY <2>1 DEF IInv, Sound
  <2>3. u \in URL /\ Counted(db, u)
    BY <2>2 DEF Keyspace, Counted, URL
  <2>4. Cardinality(JobsIn(db, u)) <= Allowed(db, u) + aborts + (IF u \in {} THEN 1 ELSE 0)
    BY <2>2, <2>3 DEF FewJobs
  <2>5. Allowed(db, u) \in 0..1
    BY DEF Allowed
  <2>6. JobsIn(db, u) \in SUBSET LiveIn(db) /\ IsFiniteSet(LiveIn(db))
    BY <2>2 DEF FewJobs, JobsIn
  <2>7. Cardinality(JobsIn(db, u)) \in Nat
    BY <2>6, FS_Subset, FS_CardinalityType
  <2>8. Cardinality(JobsIn(db, u)) <= 1 + aborts
    BY <2>2, <2>4, <2>5, <2>7
  <2>9. JobsOf(u) = Cardinality(JobsIn(db, u))
    BY DEF JobsOf, JobsIn, LiveIn, F!Live
  <2>10. QED
    BY <2>8, <2>9
<1>2. QED
  BY <1>1, IInvCorrect, PTL

\* However many jobs of one url the aborts leave, a member in a worker's hands
\* cannot be leased to a second worker.
THEOREM FencedCorrect == Spec => []FencedDespiteAborts
<1>1. IInv => FencedDespiteAborts
  BY DEF IInv, Sound, QueuesApart, FencedDespiteAborts, F!LeaseAtMostOnce
<1>2. QED
  BY <1>1, IInvCorrect, PTL

\* Whatever script is cut short anywhere, no url is forgotten that was known,
\* nor one that is claimed in the filter (frontier.go:180).
THEOREM NothingLostCorrect == Spec => NothingLost
<1>1. ASSUME IInv, IInv', Kept, NEW u \in URL, Known(u) \/ u \in db.bloom'
      PROVE  Known(u)'
  <2>1. ASSUME NEW d \in Keyspace, NEW done, done \subseteq Videos
        PROVE  u \in KnownIn(d, done) <=>
                 \/ \E j \in LiveIn(d) : j.url = u
                 \/ u \in done
                 \/ u \in Videos /\ u \in DOMAIN d.dead
                 \/ u \in Listings /\ u \in DOMAIN d.next
    <3>1. d.next \in Partial(Listings)
      BY DEF Keyspace
    <3>2. DOMAIN d.next \subseteq Listings
      BY <3>1, ZSet
    <3>3. QED
      BY <3>2 DEF KnownIn, JobsIn, Settled
  <2>2. db \in Keyspace /\ db' \in Keyspace /\ acked \subseteq Videos /\ acked' \subseteq Videos
    BY <1>1 DEF IInv, Sound, Keyspace
  <2>3. Known(u) => u \in KnownIn(db, acked)
    BY <2>1, <2>2 DEF Known, F!HasJob, F!Live, LiveIn
  <2>4. u \in KnownIn(db', acked')
    BY <1>1, <2>3 DEF Kept
  <2>5. PICK d, done : d = db' /\ done = acked'
    OBVIOUS
  <2>6. \/ \E j \in LiveIn(d) : j.url = u
        \/ u \in done
        \/ u \in Videos /\ u \in DOMAIN d.dead
        \/ u \in Listings /\ u \in DOMAIN d.next
    BY <2>1, <2>2, <2>4, <2>5
  <2>7. QED
    BY <2>5, <2>6 DEF Known, F!HasJob, F!Live, LiveIn
<1>2. ASSUME IInv, [Next]_vars
      PROVE  [\A u \in URL : Known(u) \/ u \in db.bloom' => Known(u)']_vars
  <2>1. IInv' /\ Kept
    BY <1>2, IInvNext
  <2>2. \A u \in URL : Known(u) \/ u \in db.bloom' => Known(u)'
    BY <1>1, <1>2, <2>1
  <2>3. QED
    BY <2>2
<1>3. QED
  BY <1>2, IInvCorrect, PTL DEF Spec, NothingLost
=============================================================================
