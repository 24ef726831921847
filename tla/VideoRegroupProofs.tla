------------------------- MODULE VideoRegroupProofs -------------------------
(***************************************************************************)
(* VideoRegroup for any storyboard, any number of tasks and any limit of    *)
(* images, with and without batches: the cards always partition the shots,  *)
(* the result of a card is one of its videos, and regrouping keeps the      *)
(* shots in their order and, while no batch is run, every video in sight.    *)
(*                                                                          *)
(* First what FlattenSeq makes of a sequence of sequences, then the         *)
(* histories of statuses and the parts of cards, then one lemma for any     *)
(* replacement of neighbouring cards, which the five regroupings use.       *)
(***************************************************************************)
EXTENDS VideoRegroup, SequenceTheorems, FiniteSetTheorems, WellFoundedInduction, TLAPS

(***************************************************************************)
(* Induction over numbers and sequences, with the induction predicate given *)
(* as a set (the library's theorems take an operator as a parameter).       *)
(***************************************************************************)
\* Every non-empty set of naturals has a least element.
LEMMA LeastNatural ==
  ASSUME NEW T, T \subseteq Nat, T # {}
  PROVE  \E m \in T : \A k \in T : m <= k
<1>1. IsWellFoundedOn(OpToRel(<, Nat), Nat)
  BY NatLessThanWellFounded
<1>2. \A x, y \in Nat : x < y => <<x, y>> \in OpToRel(<, Nat)
  BY DEF OpToRel
<1>3. PICK R : /\ IsWellFoundedOn(R, Nat)
               /\ \A x, y \in Nat : x < y => <<x, y>> \in R
  BY <1>1, <1>2, Zenon
<1>4. \A Q, S : IsWellFoundedOn(Q, S) =>
        \A X : X \subseteq S /\ X # {} =>
          \E x \in X : \A y \in X : ~ (<<y, x>> \in Q)
  BY WFMin
<1>5. \A X : X \subseteq Nat /\ X # {} =>
        \E x \in X : \A y \in X : ~ (<<y, x>> \in R)
  BY <1>3, <1>4
<1>6. PICK x \in T : \A y \in T : ~ (<<y, x>> \in R)
  BY <1>5
<1>7. ASSUME NEW y \in T PROVE x <= y
  <2>1. ~ (y < x)
    BY <1>3, <1>6
  <2>2. QED
    BY <2>1
<1>8. QED
  BY <1>7

\* Induction on 0..n, with the induction predicate given as a set.
LEMMA IntervalInduction ==
  ASSUME NEW n \in Nat, NEW S,
         0 \in S,
         \A k \in 0..n : k \in S /\ k < n => k + 1 \in S
  PROVE  n \in S /\ \A k \in 0..n : k \in S
<1> DEFINE Rest == {k \in 0..n : k \notin S}
<1>1. SUFFICES ASSUME Rest # {} PROVE FALSE
  OBVIOUS
<1>2. PICK m \in Rest : \A k \in Rest : m <= k
  <2>1. Rest \subseteq Nat
    OBVIOUS
  <2>2. QED
    BY <1>1, <2>1, LeastNatural
<1>3. m # 0 /\ m - 1 \in 0..n /\ m - 1 < n
  BY <1>2
<1>4. m - 1 \in S
  BY <1>2, <1>3
<1>5. m \in S
  <2>1. (m - 1) + 1 \in S
    BY <1>3, <1>4
  <2>2. QED
    BY <2>1, <1>2
<1>6. QED
  BY <1>2, <1>5


\* Induction over sequences, appending one element at a time.
LEMMA SequenceInduction ==
  ASSUME NEW S, NEW T,
         <<>> \in T,
         \A s \in Seq(S), e \in S : s \in T => Append(s, e) \in T
  PROVE  \A s \in Seq(S) : s \in T
<1>1. SUFFICES ASSUME NEW s \in Seq(S) PROVE s \in T
  OBVIOUS
<1> DEFINE n == Len(s)
           K == {k \in 0..n : SubSeq(s, 1, k) \in T}
<1>2. n \in Nat
  OBVIOUS
<1>3. 0 \in K
  <2>1. SubSeq(s, 1, 0) = <<>>
    BY SubSeqEmpty
  <2>2. SubSeq(s, 1, 0) \in T
    BY Zenon, <2>1
  <2>3. 0 \in 0..n
    BY <1>2
  <2>4. QED
    BY <2>2, <2>3
<1>4. ASSUME NEW k \in 0..n, k \in K, k < n PROVE k + 1 \in K
  <2>1. k + 1 \in 1..n /\ s[k + 1] \in S
    BY <1>2, <1>4
  <2>2. SubSeq(s, 1, k) \in Seq(S)
    BY <1>2, <1>4, SubSeqProperties
  <2>3. SubSeq(s, 1, k + 1) = Append(SubSeq(s, 1, k), s[k + 1])
    <3>1. SubSeq(s, 1, k + 1) = SubSeq(s, 1, (k + 1) - 1) \o <<s[k + 1]>>
      <4>1. 1 \in 1..Len(s) /\ k + 1 \in 1..Len(s)
        BY <1>2, <2>1
      <4>2. QED
        BY <4>1, SubSeqRecursiveSecond
    <3>2. (k + 1) - 1 = k
      BY <1>4
    <3>3. Append(SubSeq(s, 1, k), s[k + 1]) = SubSeq(s, 1, k) \o <<s[k + 1]>>
      BY <2>1, <2>2, AppendIsConcat
    <3>4. QED
      BY <3>1, <3>2, <3>3
  <2>4. SubSeq(s, 1, k + 1) \in T
    BY <1>1, <1>4, <2>1, <2>2, <2>3
  <2>5. QED
    BY <2>1, <2>4, <1>2
<1>5. n \in K
  <2> HIDE DEF K, n
  <2>1. QED
    BY <1>2, <1>3, <1>4, IntervalInduction
<1>6. QED
  <2>1. SubSeq(s, 1, Len(s)) = s
    BY SubSeqFull
  <2>2. QED
    BY Zenon, <1>5, <2>1

-----------------------------------------------------------------------------
(***************************************************************************)
(* What FlattenSeq, whose definition is recursive, does to sequences.       *)
(***************************************************************************)
Solves(g, seqs, n) ==
  g = [i \in 1..n |-> IF i = 1 THEN seqs[i] ELSE g[i - 1] \o seqs[i]]

Prefixed(g, seqs, n) == \A i \in 1..n : g[i] = IF i = 1 THEN seqs[i] ELSE g[i - 1] \o seqs[i]

\* The concatenations of the first, the first two, ... of the sequences exist.
LEMMA PrefixesExist ==
  ASSUME NEW S, NEW seqs \in Seq(Seq(S))
  PROVE  \E g \in [1..Len(seqs) -> Seq(S)] : Prefixed(g, seqs, Len(seqs))
<1> DEFINE n == Len(seqs)
           K == {m \in 0..n : \E g \in [1..m -> Seq(S)] : Prefixed(g, seqs, m)}
<1>1. n \in Nat /\ \A i \in 1..n : seqs[i] \in Seq(S)
  OBVIOUS
<1>2. 0 \in K
  <2> DEFINE z == [i \in 1..0 |-> <<>>]
  <2>1. z \in [1..0 -> Seq(S)] /\ Prefixed(z, seqs, 0)
    BY DEF Prefixed
  <2> HIDE DEF z
  <2>2. \E g \in [1..0 -> Seq(S)] : Prefixed(g, seqs, 0)
    BY Zenon, <2>1
  <2>3. 0 \in 0..n
    BY <1>1
  <2>4. QED
    BY <2>2, <2>3
<1>3. ASSUME NEW m \in 0..n, m \in K, m < n PROVE m + 1 \in K
  <2>1. PICK g \in [1..m -> Seq(S)] : Prefixed(g, seqs, m)
    BY <1>3
  <2> DEFINE x == IF m = 0 THEN seqs[m + 1] ELSE g[m] \o seqs[m + 1]
             h == [i \in 1..(m + 1) |-> IF i = m + 1 THEN x ELSE g[i]]
  <2>2. m + 1 \in 1..n /\ seqs[m + 1] \in Seq(S)
    BY <1>1, <1>3
  <2>3. x \in Seq(S)
    <3>1. CASE m = 0
      BY <2>2, <3>1
    <3>2. CASE m # 0
      <4>1. g[m] \in Seq(S)
        BY <1>3, <3>2
      <4>2. g[m] \o seqs[m + 1] \in Seq(S)
        BY <2>2, <4>1, ConcatProperties
      <4>3. QED
        BY <3>2, <4>2
    <3>3. QED
      BY <3>1, <3>2
  <2>4. h[m + 1] = x /\ \A i \in 1..m : h[i] = g[i]
    <3> HIDE DEF x
    <3>1. m \in Nat
      BY <1>3
    <3>2. QED
      BY <3>1
  <2>5. h \in [1..(m + 1) -> Seq(S)]
    <3> HIDE DEF x
    <3>1. \A i \in 1..(m + 1) : i # m + 1 => i \in 1..m
      BY <1>3
    <3>2. QED
      BY <2>1, <2>3, <3>1
  <2>6. x = IF m = 0 THEN seqs[m + 1] ELSE g[m] \o seqs[m + 1]
    OBVIOUS
  <2> HIDE DEF h, x
  <2>7. ASSUME NEW i \in 1..(m + 1)
        PROVE  h[i] = IF i = 1 THEN seqs[i] ELSE h[i - 1] \o seqs[i]
    <3>1. CASE i = m + 1
      <4>1. CASE m = 0
        BY <2>4, <2>6, <3>1, <4>1
      <4>2. CASE m # 0
        <5>1. i # 1 /\ i - 1 = m /\ m \in 1..m
          BY <1>3, <3>1, <4>2
        <5>2. h[i - 1] = g[m]
          BY <2>4, <5>1
        <5>3. QED
          BY <2>4, <2>6, <3>1, <4>2, <5>1, <5>2
      <4>3. QED
        BY <4>1, <4>2
    <3>2. CASE i # m + 1
      <4>1. i \in 1..m /\ (i # 1 => i - 1 \in 1..m)
        BY <1>3, <2>7, <3>2
      <4>2. g[i] = IF i = 1 THEN seqs[i] ELSE g[i - 1] \o seqs[i]
        BY <2>1, <4>1 DEF Prefixed
      <4>3. QED
        BY <2>4, <4>1, <4>2
    <3>3. QED
      BY <3>1, <3>2
  <2>8. \E e \in [1..(m + 1) -> Seq(S)] : Prefixed(e, seqs, m + 1)
    BY <2>5, <2>7 DEF Prefixed
  <2>9. QED
    BY <1>1, <2>2, <2>8
<1>4. n \in K
  <2> HIDE DEF K, n
  <2>1. QED
    BY <1>1, <1>2, <1>3, IntervalInduction
<1>5. QED
  BY <1>4

\* They depend on the sequences concatenated only.
LEMMA PrefixesUnique ==
  ASSUME NEW n \in Nat, NEW seqs, NEW t, NEW g, NEW h,
         Prefixed(g, seqs, n), Prefixed(h, t, n),
         \A i \in 1..n : t[i] = seqs[i]
  PROVE  \A i \in 1..n : g[i] = h[i]
<1> DEFINE K == {m \in 0..n : m # 0 => g[m] = h[m]}
<1>1. 0 \in K
  OBVIOUS
<1>2. ASSUME NEW m \in 0..n, m \in K, m < n PROVE m + 1 \in K
  <2>1. m + 1 \in 1..n /\ (m + 1 # 1 => m # 0) /\ (m + 1) - 1 = m
    BY <1>2
  <2>2. /\ g[m + 1] = IF m + 1 = 1 THEN seqs[m + 1] ELSE g[(m + 1) - 1] \o seqs[m + 1]
        /\ h[m + 1] = IF m + 1 = 1 THEN t[m + 1] ELSE h[(m + 1) - 1] \o t[m + 1]
    BY <2>1 DEF Prefixed
  <2>3. g[m + 1] = h[m + 1]
    BY <1>2, <2>1, <2>2
  <2>4. QED
    BY <2>1, <2>3
<1>3. \A m \in 0..n : m \in K
  <2> HIDE DEF K
  <2>1. QED
    BY <1>1, <1>2, IntervalInduction
<1>4. QED
  BY <1>3

\* FlattenSeq is the last of them.
LEMMA FlattenIsPrefix ==
  ASSUME NEW S, NEW seqs \in Seq(Seq(S)), Len(seqs) # 0
  PROVE  \E g : Prefixed(g, seqs, Len(seqs)) /\ FlattenSeq(seqs) = g[Len(seqs)]
<1> DEFINE n == Len(seqs)
           f == CHOOSE g : Solves(g, seqs, n)
<1>1. \E g : Solves(g, seqs, n)
  <2>1. PICK g \in [1..n -> Seq(S)] : Prefixed(g, seqs, n)
    BY PrefixesExist
  <2>2. Solves(g, seqs, n)
    BY <2>1 DEF Prefixed, Solves
  <2>3. QED
    BY <2>2
<1>2. Solves(f, seqs, n)
  BY <1>1
<1>3. FlattenSeq(seqs) = f[n]
  BY DEF FlattenSeq, Solves
<1> HIDE DEF f
<1>4. f = [i \in 1..n |-> IF i = 1 THEN seqs[i] ELSE f[i - 1] \o seqs[i]]
  BY <1>2 DEF Solves
<1>5. Prefixed(f, seqs, n)
  <2>1. \A F : F = [i \in 1..n |-> IF i = 1 THEN seqs[i] ELSE f[i - 1] \o seqs[i]]
           => \A i \in 1..n : F[i] = IF i = 1 THEN seqs[i] ELSE f[i - 1] \o seqs[i]
    OBVIOUS
  <2>2. QED
    BY <1>4, <2>1 DEF Prefixed
<1>6. QED
  BY <1>3, <1>5

\* Nothing to flatten.
LEMMA FlattenEmpty == FlattenSeq(<<>>) = <<>>
BY DEF FlattenSeq

\* FlattenSeq makes one sequence over the same elements.
LEMMA FlattenType ==
  ASSUME NEW S, NEW seqs \in Seq(Seq(S))
  PROVE  FlattenSeq(seqs) \in Seq(S)
<1>1. CASE Len(seqs) = 0
  <2>1. seqs = <<>>
    BY <1>1
  <2>2. QED
    BY <2>1, FlattenEmpty, EmptySeq
<1>2. CASE Len(seqs) # 0
  <2>1. PICK g : Prefixed(g, seqs, Len(seqs)) /\ FlattenSeq(seqs) = g[Len(seqs)]
    BY <1>2, FlattenIsPrefix
  <2>2. PICK h \in [1..Len(seqs) -> Seq(S)] : Prefixed(h, seqs, Len(seqs))
    BY PrefixesExist
  <2>3. Len(seqs) \in Nat /\ Len(seqs) \in 1..Len(seqs)
    BY <1>2
  <2>4. g[Len(seqs)] = h[Len(seqs)]
    BY <2>1, <2>2, <2>3, PrefixesUnique
  <2>5. QED
    BY <2>1, <2>2, <2>3, <2>4
<1>3. QED
  BY <1>1, <1>2

\* A sequence appended comes last in the result.
LEMMA FlattenAppend ==
  ASSUME NEW S, NEW seqs \in Seq(Seq(S)), NEW x \in Seq(S)
  PROVE  FlattenSeq(Append(seqs, x)) = FlattenSeq(seqs) \o x
<1> DEFINE n == Len(seqs)
           t == Append(seqs, x)
<1>1. /\ n \in Nat /\ t \in Seq(Seq(S)) /\ Len(t) = n + 1
      /\ \A i \in 1..n : t[i] = seqs[i]
      /\ t[n + 1] = x
  BY AppendProperties
<1> HIDE DEF t
<1>2. PICK g : Prefixed(g, t, n + 1) /\ FlattenSeq(t) = g[n + 1]
  <2>1. Len(t) # 0
    BY <1>1
  <2>2. QED
    BY <1>1, <2>1, FlattenIsPrefix
<1>3. CASE n = 0
  <2>1. g[1] = x
    BY <1>1, <1>2, <1>3 DEF Prefixed
  <2>2. seqs = <<>>
    BY <1>3
  <2>3. FlattenSeq(seqs) = <<>>
    BY <2>2, FlattenEmpty
  <2>4. QED
    BY <1>2, <1>3, <2>1, <2>3, ConcatEmptySeq DEF t
<1>4. CASE n # 0
  <2>1. PICK h : Prefixed(h, seqs, n) /\ FlattenSeq(seqs) = h[n]
    BY <1>4, FlattenIsPrefix
  <2>2. Prefixed(g, t, n)
    <3>1. \A i \in 1..n : i \in 1..(n + 1)
      BY <1>1
    <3>2. QED
      BY <1>2, <3>1 DEF Prefixed
  <2>3. h[n] = g[n]
    <3>1. \A i \in 1..n : h[i] = g[i]
      <4> HIDE DEF n
      <4>1. n \in Nat /\ \A i \in 1..n : t[i] = seqs[i]
        BY <1>1
      <4>2. QED
        BY <2>1, <2>2, <4>1, PrefixesUnique
    <3>2. QED
      BY <1>1, <1>4, <3>1
  <2>4. g[n + 1] = g[n] \o x
    <3>1. n + 1 \in 1..(n + 1) /\ n + 1 # 1 /\ (n + 1) - 1 = n
      BY <1>1, <1>4
    <3>2. g[n + 1] = IF n + 1 = 1 THEN t[n + 1] ELSE g[(n + 1) - 1] \o t[n + 1]
      BY <1>2, <3>1 DEF Prefixed
    <3>3. QED
      BY <1>1, <3>1, <3>2
  <2>5. QED
    BY <1>2, <2>1, <2>3, <2>4 DEF t
<1>5. QED
  BY <1>3, <1>4

\* One sequence flattens to itself.
LEMMA FlattenSingle ==
  ASSUME NEW S, NEW x \in Seq(S)
  PROVE  FlattenSeq(<<x>>) = x
<1>1. <<>> \in Seq(Seq(S))
  BY EmptySeq
<1>2. Append(<<>>, x) = <<>> \o <<x>> /\ <<>> \o <<x>> = <<x>>
  <2>1. <<x>> \in Seq(Seq(S))
    OBVIOUS
  <2>2. QED
    BY <1>1, <2>1, AppendIsConcat, ConcatEmptySeq
<1>3. FlattenSeq(Append(<<>>, x)) = FlattenSeq(<<>>) \o x
  BY <1>1, FlattenAppend
<1>4. <<>> \o x = x
  BY ConcatEmptySeq
<1>5. QED
  BY <1>2, <1>3, <1>4, FlattenEmpty

\* FlattenSeq distributes over concatenation.
LEMMA FlattenConcat ==
  ASSUME NEW S, NEW s \in Seq(Seq(S)), NEW t \in Seq(Seq(S))
  PROVE  FlattenSeq(s \o t) = FlattenSeq(s) \o FlattenSeq(t)
<1> DEFINE T == {u \in Seq(Seq(S)) : FlattenSeq(s \o u) = FlattenSeq(s) \o FlattenSeq(u)}
<1>1. FlattenSeq(s) \in Seq(S)
  BY FlattenType
<1>2. <<>> \in T
  <2>1. s \o <<>> = s /\ FlattenSeq(s) \o <<>> = FlattenSeq(s) /\ <<>> \in Seq(Seq(S))
    BY <1>1, ConcatEmptySeq, EmptySeq
  <2>2. QED
    BY <2>1, FlattenEmpty
<1>3. ASSUME NEW u \in Seq(Seq(S)), NEW x \in Seq(S), u \in T PROVE Append(u, x) \in T
  <2>1. Append(u, x) \in Seq(Seq(S)) /\ s \o u \in Seq(Seq(S)) /\ FlattenSeq(u) \in Seq(S)
    BY AppendProperties, ConcatProperties, FlattenType
  <2>2. s \o Append(u, x) = Append(s \o u, x)
    <3>1. <<x>> \in Seq(Seq(S))
      OBVIOUS
    <3>2. s \o (u \o <<x>>) = (s \o u) \o <<x>>
      BY <3>1, ConcatAssociative
    <3>3. Append(u, x) = u \o <<x>> /\ Append(s \o u, x) = (s \o u) \o <<x>>
      BY <2>1, AppendIsConcat
    <3>4. QED
      BY <3>2, <3>3
  <2>3. FlattenSeq(Append(s \o u, x)) = FlattenSeq(s \o u) \o x
    BY <2>1, FlattenAppend
  <2>4. FlattenSeq(Append(u, x)) = FlattenSeq(u) \o x
    BY FlattenAppend
  <2>5. (FlattenSeq(s) \o FlattenSeq(u)) \o x = FlattenSeq(s) \o (FlattenSeq(u) \o x)
    <3>1. \A a, b, c \in Seq(S) : (a \o b) \o c = a \o (b \o c)
      BY SMTT(20), ConcatAssociative
    <3>2. FlattenSeq(s) \in Seq(S) /\ FlattenSeq(u) \in Seq(S)
      BY Zenon, <2>1, FlattenType
    <3>3. QED
      BY Zenon, <1>1, <2>1, <3>1, <3>2
  <2>6. FlattenSeq(s \o u) = FlattenSeq(s) \o FlattenSeq(u)
    BY <1>3
  <2>7. FlattenSeq(s \o Append(u, x)) = FlattenSeq(s) \o FlattenSeq(Append(u, x))
    BY <2>2, <2>3, <2>4, <2>5, <2>6
  <2>8. QED
    BY <2>1, <2>7
<1>4. \A u \in Seq(Seq(S)) : u \in T
  <2> HIDE DEF T
  <2>1. QED
    BY <1>2, <1>3, SequenceInduction
<1>5. QED
  BY <1>4

\* A sequence of length one is its element.
LEMMA LengthOne ==
  ASSUME NEW S, NEW s \in Seq(S), Len(s) = 1
  PROVE  s = <<s[1]>>
OBVIOUS

\* The elements before position i.
LEMMA PrefixFacts ==
  ASSUME NEW S, NEW s \in Seq(S), NEW i \in 1..(Len(s) + 1)
  PROVE  /\ SubSeq(s, 1, i - 1) \in Seq(S)
         /\ Len(SubSeq(s, 1, i - 1)) = i - 1
         /\ \A k \in 1..(i - 1) : SubSeq(s, 1, i - 1)[k] = s[k]
<1>1. /\ Len(s) \in Nat /\ i \in Int /\ i - 1 \in Int /\ 1 <= i /\ i <= Len(s) + 1 /\ 1 \in Int
      /\ \A k \in 1..(i - 1) : s[k] \in S
  OBVIOUS
<1>2. /\ SubSeq(s, 1, i - 1) \in Seq(S)
      /\ Len(SubSeq(s, 1, i - 1)) = IF 1 <= i - 1 THEN (i - 1) - 1 + 1 ELSE 0
      /\ \A k \in 1..((i - 1) - 1 + 1) : SubSeq(s, 1, i - 1)[k] = s[1 + k - 1]
  BY <1>1, SubSeqProperties
<1>3. (i - 1) - 1 + 1 = i - 1 /\ (~ (1 <= i - 1) => i - 1 = 0)
  BY <1>1
<1>4. \A k \in Int : 1 + k - 1 = k
  OBVIOUS
<1>5. QED
  BY <1>2, <1>3, <1>4

\* The elements after position j.
LEMMA SuffixFacts ==
  ASSUME NEW S, NEW s \in Seq(S), NEW j \in 0..Len(s)
  PROVE  /\ SubSeq(s, j + 1, Len(s)) \in Seq(S)
         /\ Len(SubSeq(s, j + 1, Len(s))) = Len(s) - j
         /\ \A k \in 1..(Len(s) - j) : SubSeq(s, j + 1, Len(s))[k] = s[j + k]
<1>1. /\ Len(s) \in Nat /\ j \in Int /\ j + 1 \in Int /\ 0 <= j /\ j <= Len(s) /\ Len(s) \in Int
      /\ \A k \in (j + 1)..Len(s) : s[k] \in S
  OBVIOUS
<1>2. /\ SubSeq(s, j + 1, Len(s)) \in Seq(S)
      /\ Len(SubSeq(s, j + 1, Len(s))) =
           IF j + 1 <= Len(s) THEN Len(s) - (j + 1) + 1 ELSE 0
      /\ \A k \in 1..(Len(s) - (j + 1) + 1) :
           SubSeq(s, j + 1, Len(s))[k] = s[(j + 1) + k - 1]
  BY <1>1, SubSeqProperties
<1>3. Len(s) - (j + 1) + 1 = Len(s) - j /\ (~ (j + 1 <= Len(s)) => Len(s) - j = 0)
  BY <1>1
<1>4. \A k \in Int : (j + 1) + k - 1 = j + k
  BY <1>1
<1>5. Len(SubSeq(s, j + 1, Len(s))) = Len(s) - j
  BY <1>2, <1>3
<1>6. ASSUME NEW k \in 1..(Len(s) - j)
      PROVE  SubSeq(s, j + 1, Len(s))[k] = s[j + k]
  <2>1. 1..(Len(s) - (j + 1) + 1) = 1..(Len(s) - j)
    BY Zenon, <1>3
  <2>2. k \in Int
    BY <1>1
  <2>3. SubSeq(s, j + 1, Len(s))[k] = s[(j + 1) + k - 1]
    BY Zenon, <1>2, <1>6, <2>1
  <2>4. QED
    BY Zenon, <1>4, <2>2, <2>3
<1>7. QED
  BY <1>2, <1>5, <1>6

\* The elements from position i to position j.
LEMMA MiddleFacts ==
  ASSUME NEW S, NEW s \in Seq(S), NEW i \in 1..Len(s), NEW j \in i..Len(s)
  PROVE  /\ SubSeq(s, i, j) \in Seq(S)
         /\ Len(SubSeq(s, i, j)) = j - i + 1
         /\ \A k \in 1..(j - i + 1) : SubSeq(s, i, j)[k] = s[i + k - 1]
<1>1. /\ i \in Int /\ j \in Int /\ 1 <= i /\ i <= j /\ j <= Len(s)
      /\ \A k \in i..j : s[k] \in S
  OBVIOUS
<1>2. /\ SubSeq(s, i, j) \in Seq(S)
      /\ Len(SubSeq(s, i, j)) = IF i <= j THEN j - i + 1 ELSE 0
      /\ \A k \in 1..(j - i + 1) : SubSeq(s, i, j)[k] = s[i + k - 1]
  BY <1>1, SubSeqProperties
<1>3. QED
  BY <1>1, <1>2

\* A sequence is what precedes i, what is from i to j and what follows j.
LEMMA Around ==
  ASSUME NEW S, NEW s \in Seq(S), NEW i \in 1..Len(s), NEW j \in i..Len(s)
  PROVE  s = (SubSeq(s, 1, i - 1) \o SubSeq(s, i, j)) \o SubSeq(s, j + 1, Len(s))
<1>1. /\ Len(s) \in Nat /\ i \in Int /\ j \in Int /\ i - 1 \in Int
      /\ 1 <= i /\ i <= j /\ j <= Len(s)
  OBVIOUS
<1>2. SubSeq(s, 1, i - 1) \o SubSeq(s, (i - 1) + 1, j) = SubSeq(s, 1, j)
  <2>1. 1 \in 1..(Len(s) + 1) /\ i - 1 \in (1 - 1)..Len(s) /\ j \in (i - 1)..Len(s)
    BY <1>1
  <2>2. QED
    BY <2>1, ConcatAdjacentSubSeq
<1>3. SubSeq(s, 1, j) \o SubSeq(s, j + 1, Len(s)) = SubSeq(s, 1, Len(s))
  <2>1. 1 \in 1..(Len(s) + 1) /\ j \in (1 - 1)..Len(s) /\ Len(s) \in j..Len(s)
    BY <1>1
  <2>2. QED
    BY <2>1, ConcatAdjacentSubSeq
<1>4. (i - 1) + 1 = i /\ SubSeq(s, 1, Len(s)) = s
  BY <1>1, SubSeqFull
<1>5. QED
  BY <1>2, <1>3, <1>4

\* The sequence from i to i.
LEMMA SubSeqOne ==
  ASSUME NEW S, NEW s \in Seq(S), NEW i \in 1..Len(s)
  PROVE  SubSeq(s, i, i) = <<s[i]>>
<1>1. i \in i..Len(s) /\ <<s[i]>> \in Seq(S)
  OBVIOUS
<1>2. SubSeq(s, i, i) = <<s[i]>> \o SubSeq(s, i + 1, i)
  BY <1>1, SubSeqRecursiveFirst
<1>3. SubSeq(s, i + 1, i) = <<>>
  BY SubSeqEmpty
<1>4. <<s[i]>> \o <<>> = <<s[i]>>
  BY <1>1, ConcatEmptySeq
<1>5. QED
  BY Zenon, <1>2, <1>3, <1>4

\* A sequence is what precedes i, the element at i and what follows.
LEMMA AroundOne ==
  ASSUME NEW S, NEW s \in Seq(S), NEW i \in 1..Len(s)
  PROVE  s = (SubSeq(s, 1, i - 1) \o <<s[i]>>) \o SubSeq(s, i + 1, Len(s))
<1>1. i \in i..Len(s)
  OBVIOUS
<1>2. s = (SubSeq(s, 1, i - 1) \o SubSeq(s, i, i)) \o SubSeq(s, i + 1, Len(s))
  BY <1>1, Around
<1>3. QED
  BY Zenon, <1>2, SubSeqOne

\* Where the elements of seqs[i] are in the flattened sequence.
Offset(seqs, i) == Len(FlattenSeq(SubSeq(seqs, 1, i - 1)))

\* Every sequence has a range of its own in the result of FlattenSeq, in order.
LEMMA FlattenOffset ==
  ASSUME NEW S, NEW seqs \in Seq(Seq(S)), NEW i \in 1..Len(seqs)
  PROVE  /\ Offset(seqs, i) \in Nat
         /\ \A k \in 1..Len(seqs[i]) :
              /\ Offset(seqs, i) + k \in 1..Len(FlattenSeq(seqs))
              /\ FlattenSeq(seqs)[Offset(seqs, i) + k] = seqs[i][k]
         /\ \A j \in 1..Len(seqs) : i < j => Offset(seqs, i) + Len(seqs[i]) <= Offset(seqs, j)
<1> DEFINE A == SubSeq(seqs, 1, i - 1)
           B == SubSeq(seqs, i + 1, Len(seqs))
           F == FlattenSeq(A)
           G == FlattenSeq(B)
<1>1. /\ A \in Seq(Seq(S)) /\ B \in Seq(Seq(S)) /\ seqs[i] \in Seq(S)
      /\ seqs = (A \o <<seqs[i]>>) \o B /\ <<seqs[i]>> \in Seq(Seq(S))
  <2>1. /\ SubSeq(seqs, 1, i - 1) \in Seq(Seq(S))
        /\ SubSeq(seqs, i + 1, Len(seqs)) \in Seq(Seq(S))
        /\ seqs = (SubSeq(seqs, 1, i - 1) \o <<seqs[i]>>) \o SubSeq(seqs, i + 1, Len(seqs))
    <3>1. i \in 1..(Len(seqs) + 1) /\ i \in 0..Len(seqs)
      OBVIOUS
    <3>2. SubSeq(seqs, 1, i - 1) \in Seq(Seq(S))
      BY <3>1, PrefixFacts
    <3>3. SubSeq(seqs, i + 1, Len(seqs)) \in Seq(Seq(S))
      BY <3>1, SuffixFacts
    <3>4. QED
      BY <3>2, <3>3, AroundOne
  <2>2. seqs[i] \in Seq(S) /\ <<seqs[i]>> \in Seq(Seq(S))
    OBVIOUS
  <2>3. QED
    BY Zenon, <2>1, <2>2 DEF A, B
<1> HIDE DEF A, B
<1>2. /\ F \in Seq(S) /\ G \in Seq(S) /\ F \o seqs[i] \in Seq(S)
      /\ FlattenSeq(seqs) = (F \o seqs[i]) \o G
      /\ FlattenSeq(A \o <<seqs[i]>>) = F \o seqs[i]
  <2>1. F \in Seq(S) /\ G \in Seq(S)
    BY <1>1, FlattenType
  <2>2. FlattenSeq(A \o <<seqs[i]>>) = F \o seqs[i]
    <3>1. FlattenSeq(<<seqs[i]>>) = seqs[i]
      BY <1>1, FlattenSingle
    <3>2. FlattenSeq(A \o <<seqs[i]>>) = F \o FlattenSeq(<<seqs[i]>>)
      BY <1>1, FlattenConcat
    <3>3. QED
      BY <3>1, <3>2
  <2>3. A \o <<seqs[i]>> \in Seq(Seq(S))
    BY <1>1, ConcatProperties
  <2>4. FlattenSeq((A \o <<seqs[i]>>) \o B) = FlattenSeq(A \o <<seqs[i]>>) \o G
    BY <1>1, <2>3, FlattenConcat
  <2>5. QED
    BY <1>1, <2>1, <2>2, <2>4, ConcatProperties
<1>3. Offset(seqs, i) = Len(F) /\ Len(F) \in Nat /\ Len(G) \in Nat /\ Len(seqs[i]) \in Nat
  <2>1. Offset(seqs, i) = Len(F)
    BY Zenon DEF Offset, A
  <2>2. F \in Seq(S) /\ G \in Seq(S) /\ seqs[i] \in Seq(S)
    BY Zenon, <1>1, <1>2
  <2>3. \A x : x \in Seq(S) => Len(x) \in Nat
    OBVIOUS
  <2>4. QED
    BY Zenon, <2>1, <2>2, <2>3
<1> HIDE DEF F, G
<1>4. ASSUME NEW k \in 1..Len(seqs[i])
      PROVE  /\ Len(F) + k \in 1..Len(FlattenSeq(seqs))
             /\ FlattenSeq(seqs)[Len(F) + k] = seqs[i][k]
  <2>1. /\ Len(F \o seqs[i]) = Len(F) + Len(seqs[i])
        /\ \A m \in 1..(Len(F) + Len(seqs[i])) : (F \o seqs[i])[m] =
             IF m <= Len(F) THEN F[m] ELSE seqs[i][m - Len(F)]
    BY <1>1, <1>2, ConcatProperties
  <2>2. /\ Len(FlattenSeq(seqs)) = Len(F \o seqs[i]) + Len(G)
        /\ \A m \in 1..(Len(F \o seqs[i]) + Len(G)) : FlattenSeq(seqs)[m] =
             IF m <= Len(F \o seqs[i]) THEN (F \o seqs[i])[m] ELSE G[m - Len(F \o seqs[i])]
    BY <1>2, ConcatProperties
  <2>3. /\ Len(F) + k \in 1..(Len(F) + Len(seqs[i])) /\ ~ (Len(F) + k <= Len(F))
        /\ (Len(F) + k) - Len(F) = k /\ Len(F) + k <= Len(F) + Len(seqs[i])
        /\ Len(F) + k \in 1..((Len(F) + Len(seqs[i])) + Len(G))
    BY <1>3
  <2>4. (F \o seqs[i])[Len(F) + k] = seqs[i][k]
    BY <2>1, <2>3
  <2>5. FlattenSeq(seqs)[Len(F) + k] = (F \o seqs[i])[Len(F) + k]
    BY <2>1, <2>2, <2>3
  <2>6. QED
    BY <2>1, <2>2, <2>3, <2>4, <2>5
<1>5. ASSUME NEW j \in 1..Len(seqs), i < j
      PROVE  Len(F) + Len(seqs[i]) <= Offset(seqs, j)
  <2> DEFINE C == SubSeq(seqs, i + 1, j - 1)
  <2>1. /\ 1 \in 1..(Len(seqs) + 1) /\ i \in (1 - 1)..Len(seqs) /\ j - 1 \in i..Len(seqs)
        /\ i - 1 \in (1 - 1)..Len(seqs) /\ i \in (i - 1)..Len(seqs) /\ (i - 1) + 1 = i
        /\ i + 1 \in Int /\ j - 1 \in Int /\ \A k \in (i + 1)..(j - 1) : k \in 1..Len(seqs)
    BY <1>5
  <2>2. SubSeq(seqs, 1, i) \o C = SubSeq(seqs, 1, j - 1)
    BY <2>1, ConcatAdjacentSubSeq
  <2>3. SubSeq(seqs, 1, i) = A \o <<seqs[i]>>
    <3>1. 1 \in 1..Len(seqs) /\ i \in 1..Len(seqs)
      BY <2>1
    <3>2. QED
      BY <3>1, SubSeqRecursiveSecond DEF A
  <2>4. C \in Seq(Seq(S))
    <3>1. \A k \in (i + 1)..(j - 1) : seqs[k] \in Seq(S)
      BY <2>1
    <3>2. QED
      BY <2>1, <3>1, SubSeqProperties
  <2>5. SubSeq(seqs, 1, i) \in Seq(Seq(S))
    BY <1>1, <2>3, ConcatProperties
  <2> HIDE DEF C
  <2>6. FlattenSeq(SubSeq(seqs, 1, j - 1)) = (F \o seqs[i]) \o FlattenSeq(C)
    <3>1. FlattenSeq(SubSeq(seqs, 1, i) \o C) =
            FlattenSeq(SubSeq(seqs, 1, i)) \o FlattenSeq(C)
      BY Zenon, <2>4, <2>5, FlattenConcat
    <3>2. FlattenSeq(SubSeq(seqs, 1, i)) = F \o seqs[i]
      BY Zenon, <1>2, <2>3
    <3>3. QED
      BY Zenon, <2>2, <3>1, <3>2
  <2>7. FlattenSeq(C) \in Seq(S) /\ Len(FlattenSeq(C)) \in Nat
    BY <2>4, FlattenType
  <2>8. /\ Len((F \o seqs[i]) \o FlattenSeq(C)) = Len(F \o seqs[i]) + Len(FlattenSeq(C))
        /\ Len(F \o seqs[i]) = Len(F) + Len(seqs[i])
    BY <1>1, <1>2, <2>7, ConcatProperties
  <2>9. QED
    <3>1. Offset(seqs, j) = (Len(F) + Len(seqs[i])) + Len(FlattenSeq(C))
      BY Zenon, <2>6, <2>8 DEF Offset
    <3>2. \A p, q, r \in Nat : p + q <= (p + q) + r
      OBVIOUS
    <3>3. QED
      BY Zenon, <1>3, <2>7, <3>1, <3>2
<1>6. QED
  BY <1>3, <1>4, <1>5

\* No element is in two sequences when it is in the flattened one at most once.
LEMMA FlattenApart ==
  ASSUME NEW S, NEW seqs \in Seq(Seq(S)), IsInjective(FlattenSeq(seqs)),
         NEW i \in 1..Len(seqs), NEW j \in 1..Len(seqs),
         NEW k \in 1..Len(seqs[i]), NEW m \in 1..Len(seqs[j]), seqs[i][k] = seqs[j][m]
  PROVE  i = j /\ k = m
<1> DEFINE F == FlattenSeq(seqs)
<1>1. /\ F \in Seq(S) /\ DOMAIN F = 1..Len(F)
      /\ seqs[i] \in Seq(S) /\ seqs[j] \in Seq(S)
      /\ i \in Nat /\ j \in Nat /\ k \in Nat /\ m \in Nat
      /\ 1 <= k /\ k <= Len(seqs[i]) /\ 1 <= m /\ m <= Len(seqs[j])
      /\ Len(seqs[i]) \in Nat /\ Len(seqs[j]) \in Nat
  BY FlattenType
<1> HIDE DEF F
<1> DEFINE p == Offset(seqs, i)
           q == Offset(seqs, j)
<1>2. /\ p \in Nat /\ p + k \in 1..Len(F) /\ F[p + k] = seqs[i][k]
      /\ i < j => p + Len(seqs[i]) <= q
  BY FlattenOffset DEF F
<1>3. /\ q \in Nat /\ q + m \in 1..Len(F) /\ F[q + m] = seqs[j][m]
      /\ j < i => q + Len(seqs[j]) <= p
  BY FlattenOffset DEF F
<1> HIDE DEF p, q
<1>4. p + k = q + m
  BY <1>1, <1>2, <1>3 DEF IsInjective, F
<1>5. i = j
  <2>1. \A a, b, x, y, n \in Nat : x <= n /\ 1 <= y /\ a + n <= b => a + x # b + y
    OBVIOUS
  <2>2. ~ (i < j)
    BY Zenon, <1>1, <1>2, <1>3, <1>4, <2>1
  <2>3. ~ (j < i)
    BY Zenon, <1>1, <1>2, <1>3, <1>4, <2>1
  <2>4. QED
    BY <1>1, <2>2, <2>3
<1>6. p = q
  BY <1>5 DEF p, q
<1>7. QED
  BY <1>1, <1>2, <1>3, <1>4, <1>5, <1>6

\* What is in the flattened sequence is in one of the sequences, and the other way round.
LEMMA FlattenElements ==
  ASSUME NEW S, NEW seqs \in Seq(Seq(S))
  PROVE  ToSet(FlattenSeq(seqs)) = UNION {ToSet(seqs[i]) : i \in DOMAIN seqs}
<1> DEFINE All(s) == UNION {ToSet(s[i]) : i \in DOMAIN s}
           T == {s \in Seq(Seq(S)) : ToSet(FlattenSeq(s)) = All(s)}
<1>1. <<>> \in T
  <2>1. ToSet(FlattenSeq(<<>>)) = {} /\ All(<<>>) = {} /\ <<>> \in Seq(Seq(S))
    BY FlattenEmpty, EmptySeq DEF ToSet
  <2>2. QED
    BY <2>1
<1>2. ASSUME NEW s \in Seq(Seq(S)), NEW x \in Seq(S), s \in T PROVE Append(s, x) \in T
  <2>1. /\ FlattenSeq(Append(s, x)) = FlattenSeq(s) \o x
        /\ FlattenSeq(s) \in Seq(S) /\ Append(s, x) \in Seq(Seq(S))
    BY FlattenAppend, FlattenType, AppendProperties
  <2>2. ToSet(FlattenSeq(s) \o x) = ToSet(FlattenSeq(s)) \cup ToSet(x)
    <3>1. Range(FlattenSeq(s) \o x) = Range(FlattenSeq(s)) \cup Range(x)
      BY <2>1, RangeConcatenation
    <3>2. \A f : ToSet(f) = Range(f)
      BY DEF ToSet, Range
    <3>3. QED
      BY <3>1, <3>2
  <2>3. All(Append(s, x)) = All(s) \cup ToSet(x)
    <3>1. /\ DOMAIN Append(s, x) = 1..(Len(s) + 1) /\ DOMAIN s = 1..Len(s) /\ Len(s) \in Nat
          /\ \A i \in 1..Len(s) : Append(s, x)[i] = s[i]
          /\ Append(s, x)[Len(s) + 1] = x
      BY AppendProperties
    <3>2. /\ \A i \in 1..(Len(s) + 1) : i \in 1..Len(s) \/ i = Len(s) + 1
          /\ \A i \in 1..Len(s) : i \in 1..(Len(s) + 1)
          /\ Len(s) + 1 \in 1..(Len(s) + 1)
      BY <3>1
    <3>3. ASSUME NEW e PROVE e \in All(Append(s, x)) <=> e \in All(s) \/ e \in ToSet(x)
      <4>1. e \in All(Append(s, x)) <=> \E i \in 1..(Len(s) + 1) : e \in ToSet(Append(s, x)[i])
        BY <3>1
      <4>2. e \in All(s) <=> \E i \in 1..Len(s) : e \in ToSet(s[i])
        BY <3>1
      <4> HIDE DEF All
      <4>3. QED
        BY <3>1, <3>2, <4>1, <4>2
    <3> HIDE DEF All
    <3>4. QED
      BY <3>3
  <2>4. QED
    BY <1>2, <2>1, <2>2, <2>3
<1>3. \A s \in Seq(Seq(S)) : s \in T
  <2> HIDE DEF T
  <2>1. QED
    BY <1>1, <1>2, SequenceInduction
<1>4. QED
  BY <1>3

-----------------------------------------------------------------------------
(***************************************************************************)
(* The shots of cards, and of parts.                                        *)
(***************************************************************************)
ShotLists(list) == [i \in DOMAIN list |-> list[i].shots]
Shots(C) == \A c \in C : c.shots \in Seq(ShotIds)

\* The lists of shots of the elements of a list.
LEMMA ShotListsType ==
  ASSUME NEW C, Shots(C), NEW list \in Seq(C)
  PROVE  /\ ShotLists(list) \in Seq(Seq(ShotIds)) /\ Len(ShotLists(list)) = Len(list)
         /\ \A i \in 1..Len(list) : ShotLists(list)[i] = list[i].shots
<1>1. /\ Len(list) \in Nat /\ DOMAIN list = 1..Len(list)
      /\ \A i \in 1..Len(list) : list[i].shots \in Seq(ShotIds)
  BY DEF Shots
<1>2. ShotLists(list) = [i \in 1..Len(list) |-> list[i].shots]
  BY <1>1 DEF ShotLists
<1>3. \A n \in Nat : \A f : (f = [i \in 1..n |-> list[i].shots]
        /\ \A i \in 1..n : list[i].shots \in Seq(ShotIds)) =>
         f \in Seq(Seq(ShotIds)) /\ Len(f) = n /\ \A i \in 1..n : f[i] = list[i].shots
  OBVIOUS
<1>4. QED
  BY <1>1, <1>2, <1>3

\* AllShots is FlattenSeq of those lists.
LEMMA AllShotsType ==
  ASSUME NEW C, Shots(C), NEW list \in Seq(C)
  PROVE  AllShots(list) \in Seq(ShotIds) /\ AllShots(list) = FlattenSeq(ShotLists(list))
<1>1. AllShots(list) = FlattenSeq(ShotLists(list))
  BY DEF AllShots, ShotLists
<1>2. QED
  BY <1>1, ShotListsType, FlattenType

\* No element, no shot.
LEMMA AllShotsEmpty == AllShots(<<>>) = <<>>
<1>1. ShotLists(<<>>) = <<>>
  BY DEF ShotLists
<1>2. QED
  BY <1>1, FlattenEmpty DEF AllShots, ShotLists

\* AllShots distributes over concatenation.
LEMMA AllShotsConcat ==
  ASSUME NEW C, Shots(C), NEW s \in Seq(C), NEW t \in Seq(C)
  PROVE  AllShots(s \o t) = AllShots(s) \o AllShots(t)
<1>1. s \o t \in Seq(C) /\ Len(s \o t) = Len(s) + Len(t) /\ Len(s) \in Nat /\ Len(t) \in Nat
  BY ConcatProperties
<1>2. ASSUME NEW i \in 1..(Len(s) + Len(t))
      PROVE  ShotLists(s \o t)[i] = (ShotLists(s) \o ShotLists(t))[i]
  <2>1. /\ (s \o t)[i] = IF i <= Len(s) THEN s[i] ELSE t[i - Len(s)]
        /\ ShotLists(s \o t)[i] = (s \o t)[i].shots
    BY <1>1, ConcatProperties, ShotListsType
  <2>2. (ShotLists(s) \o ShotLists(t))[i] =
          IF i <= Len(s) THEN ShotLists(s)[i] ELSE ShotLists(t)[i - Len(s)]
    BY ShotListsType, ConcatProperties
  <2>3. IF i <= Len(s) THEN i \in 1..Len(s) ELSE i - Len(s) \in 1..Len(t)
    BY <1>1
  <2>4. QED
    BY <2>1, <2>2, <2>3, ShotListsType
<1>3. ShotLists(s \o t) = ShotLists(s) \o ShotLists(t)
  <2>1. /\ ShotLists(s \o t) \in Seq(Seq(ShotIds)) /\ Len(ShotLists(s \o t)) = Len(s) + Len(t)
        /\ ShotLists(s) \in Seq(Seq(ShotIds)) /\ ShotLists(t) \in Seq(Seq(ShotIds))
        /\ Len(ShotLists(s)) = Len(s) /\ Len(ShotLists(t)) = Len(t)
    BY <1>1, ShotListsType
  <2>2. /\ ShotLists(s) \o ShotLists(t) \in Seq(Seq(ShotIds))
        /\ Len(ShotLists(s) \o ShotLists(t)) = Len(s) + Len(t)
    <3>1. \A a, b \in Seq(Seq(ShotIds)) :
            a \o b \in Seq(Seq(ShotIds)) /\ Len(a \o b) = Len(a) + Len(b)
      BY ConcatProperties
    <3>2. QED
      BY <2>1, <3>1
  <2>3. QED
    BY <1>2, <2>1, <2>2, SeqEqual
<1>4. FlattenSeq(ShotLists(s) \o ShotLists(t)) =
        FlattenSeq(ShotLists(s)) \o FlattenSeq(ShotLists(t))
  BY ShotListsType, FlattenConcat
<1>5. \A list \in Seq(C) : AllShots(list) = FlattenSeq(ShotLists(list))
  BY AllShotsType
<1>6. QED
  BY Zenon, <1>1, <1>3, <1>4, <1>5

\* The shots of one element.
LEMMA AllShotsOne ==
  ASSUME NEW c, c.shots \in Seq(ShotIds)
  PROVE  AllShots(<<c>>) = c.shots
<1>1. ShotLists(<<c>>) = <<c.shots>>
  BY DEF ShotLists
<1>2. AllShots(<<c>>) = FlattenSeq(<<c.shots>>)
  BY <1>1 DEF AllShots, ShotLists
<1>3. QED
  BY <1>2, FlattenSingle

\* A shot of the list is a shot of one of its elements.
LEMMA AllShotsElements ==
  ASSUME NEW C, Shots(C), NEW list \in Seq(C)
  PROVE  ToSet(AllShots(list)) = UNION {ToSet(list[i].shots) : i \in DOMAIN list}
<1>1. ToSet(AllShots(list)) = UNION {ToSet(ShotLists(list)[i]) : i \in DOMAIN ShotLists(list)}
  BY AllShotsType, ShotListsType, FlattenElements
<1>2. DOMAIN ShotLists(list) = DOMAIN list
  BY DEF ShotLists
<1>3. \A i \in DOMAIN list : ShotLists(list)[i] = list[i].shots
  BY DEF ShotLists
<1>4. QED
  BY <1>1, <1>2, <1>3

\* No shot is in two cards when the shots of all cards are different.
LEMMA ShotsApart ==
  ASSUME NEW C, Shots(C), NEW list \in Seq(C), IsInjective(AllShots(list)),
         NEW i \in 1..Len(list), NEW j \in 1..Len(list),
         NEW k \in 1..Len(list[i].shots), NEW m \in 1..Len(list[j].shots),
         list[i].shots[k] = list[j].shots[m]
  PROVE  i = j /\ k = m
<1>1. /\ ShotLists(list) \in Seq(Seq(ShotIds)) /\ Len(ShotLists(list)) = Len(list)
      /\ ShotLists(list)[i] = list[i].shots /\ ShotLists(list)[j] = list[j].shots
      /\ IsInjective(FlattenSeq(ShotLists(list)))
  BY AllShotsType, ShotListsType
<1>2. PICK seqs : seqs = ShotLists(list)
  OBVIOUS
<1>3. /\ seqs \in Seq(Seq(ShotIds)) /\ IsInjective(FlattenSeq(seqs))
      /\ i \in 1..Len(seqs) /\ j \in 1..Len(seqs)
      /\ seqs[i] = list[i].shots /\ seqs[j] = list[j].shots
  BY Zenon, <1>1, <1>2
<1>4. k \in 1..Len(seqs[i]) /\ m \in 1..Len(seqs[j]) /\ seqs[i][k] = seqs[j][m]
  BY Zenon, <1>3
<1>5. \A a, b \in 1..Len(seqs) :
        \A x \in 1..Len(seqs[a]), y \in 1..Len(seqs[b]) :
          seqs[a][x] = seqs[b][y] => a = b /\ x = y
  BY <1>3, FlattenApart
<1>6. QED
  <2>1. \A x \in 1..Len(seqs[i]), y \in 1..Len(seqs[j]) :
          seqs[i][x] = seqs[j][y] => i = j /\ x = y
    BY Zenon, <1>3, <1>5
  <2>2. QED
    BY <1>4, <2>1

\* A sequence is a function on its positions.
LEMMA SequenceAsFunction ==
  ASSUME NEW S, NEW s \in Seq(S)
  PROVE  s = [i \in 1..Len(s) |-> s[i]]
OBVIOUS

\* The shots of flattened lists of parts.
LEMMA AllShotsFlatten ==
  ASSUME NEW C, Shots(C), NEW L \in Seq(Seq(C))
  PROVE  /\ AllShots(FlattenSeq(L)) = FlattenSeq([i \in DOMAIN L |-> AllShots(L[i])])
         /\ [i \in DOMAIN L |-> AllShots(L[i])] \in Seq(Seq(ShotIds))
<1> DEFINE M(s) == [i \in 1..Len(s) |-> AllShots(s[i])]
           T == {s \in Seq(Seq(C)) : /\ AllShots(FlattenSeq(s)) = FlattenSeq(M(s))
                                     /\ M(s) \in Seq(Seq(ShotIds))}
<1>1. <<>> \in T
  <2>1. M(<<>>) = <<>> /\ <<>> \in Seq(Seq(ShotIds)) /\ <<>> \in Seq(Seq(C))
    BY EmptySeq
  <2> HIDE DEF M
  <2>2. QED
    BY <2>1, FlattenEmpty, AllShotsEmpty
<1>2. ASSUME NEW s \in Seq(Seq(C)), NEW x \in Seq(C), s \in T PROVE Append(s, x) \in T
  <2>1. /\ FlattenSeq(Append(s, x)) = FlattenSeq(s) \o x /\ FlattenSeq(s) \in Seq(C)
        /\ Append(s, x) \in Seq(Seq(C)) /\ AllShots(x) \in Seq(ShotIds)
    BY FlattenAppend, FlattenType, AppendProperties, AllShotsType
  <2>2. AllShots(FlattenSeq(s) \o x) = AllShots(FlattenSeq(s)) \o AllShots(x)
    BY <2>1, AllShotsConcat
  <2>3. M(Append(s, x)) = Append(M(s), AllShots(x))
    <3>1. /\ Len(Append(s, x)) = Len(s) + 1 /\ Len(s) \in Nat
          /\ \A i \in 1..Len(s) : Append(s, x)[i] = s[i]
          /\ Append(s, x)[Len(s) + 1] = x
      BY AppendProperties
    <3>2. M(s) \in Seq(Seq(ShotIds)) /\ Len(M(s)) = Len(s)
      BY <1>2, <3>1
    <3>3. /\ Append(M(s), AllShots(x)) \in Seq(Seq(ShotIds))
          /\ Len(Append(M(s), AllShots(x))) = Len(s) + 1
          /\ \A i \in 1..Len(s) : Append(M(s), AllShots(x))[i] = M(s)[i]
          /\ Append(M(s), AllShots(x))[Len(s) + 1] = AllShots(x)
      <4> HIDE DEF M
      <4>1. QED
        BY <2>1, <3>2, AppendProperties
    <3>4. ASSUME NEW i \in 1..(Len(s) + 1)
          PROVE  AllShots(Append(s, x)[i]) = Append(M(s), AllShots(x))[i]
      <4>1. CASE i = Len(s) + 1
        BY <3>1, <3>3, <4>1
      <4>2. CASE i # Len(s) + 1
        <5>1. i \in 1..Len(s)
          BY <3>1, <4>2
        <5>2. M(s)[i] = AllShots(s[i])
          BY <5>1
        <5> HIDE DEF M
        <5>3. QED
          BY <3>1, <3>3, <5>1, <5>2
      <4>3. QED
        BY <4>1, <4>2
    <3>5. M(Append(s, x)) = [i \in 1..(Len(s) + 1) |-> AllShots(Append(s, x)[i])]
      BY <3>1
    <3>6. Append(M(s), AllShots(x)) =
            [i \in 1..(Len(s) + 1) |-> Append(M(s), AllShots(x))[i]]
      <4> HIDE DEF M
      <4>1. QED
        BY <3>3, SequenceAsFunction
    <3> HIDE DEF M
    <3>7. QED
      BY <3>4, <3>5, <3>6
  <2> HIDE DEF M
  <2>4. M(s) \in Seq(Seq(ShotIds)) /\ AllShots(FlattenSeq(s)) = FlattenSeq(M(s))
    BY <1>2
  <2>5. FlattenSeq(M(Append(s, x))) = FlattenSeq(M(s)) \o AllShots(x)
    BY <2>1, <2>3, <2>4, FlattenAppend
  <2>6. M(Append(s, x)) \in Seq(Seq(ShotIds))
    BY <2>1, <2>3, <2>4, AppendProperties
  <2>7. QED
    BY <2>1, <2>2, <2>4, <2>5, <2>6
<1>3. \A s \in Seq(Seq(C)) : s \in T
  <2> HIDE DEF T
  <2>1. QED
    BY <1>1, <1>2, SequenceInduction
<1>4. DOMAIN L = 1..Len(L)
  OBVIOUS
<1>5. QED
  BY <1>3, <1>4

\* Cards of one shot each have as many shots as there are cards.
LEMMA OneShotEach ==
  ASSUME NEW C, Shots(C), NEW list \in Seq(C),
         \A k \in 1..Len(list) : list[k].shots = <<list[k].shots[1]>>
  PROVE  /\ Len(AllShots(list)) = Len(list)
         /\ \A k \in 1..Len(list) : AllShots(list)[k] = list[k].shots[1]
<1> DEFINE D == {c \in C : c.shots = <<c.shots[1]>>}
           T == {s \in Seq(D) : /\ Len(AllShots(s)) = Len(s)
                                /\ \A k \in 1..Len(s) : AllShots(s)[k] = s[k].shots[1]}
<1>1. Shots(D) /\ list \in Seq(D)
  <2>1. \A k \in 1..Len(list) : list[k] \in D
    OBVIOUS
  <2>2. \A n \in Nat : \A X, f : f \in [1..n -> C] /\ (\A k \in 1..n : f[k] \in X) => f \in Seq(X)
    OBVIOUS
  <2>3. list \in [1..Len(list) -> C] /\ Len(list) \in Nat
    OBVIOUS
  <2> HIDE DEF D
  <2>4. list \in Seq(D)
    BY <2>1, <2>2, <2>3
  <2>5. Shots(D)
    BY DEF Shots, D
  <2>6. QED
    BY <2>4, <2>5
<1>2. <<>> \in T
  <2>1. <<>> \in Seq(D) /\ Len(<<>>) = 0 /\ AllShots(<<>>) = <<>>
    BY EmptySeq, AllShotsEmpty
  <2>2. QED
    BY <2>1
<1>3. ASSUME NEW s \in Seq(D), NEW x \in D, s \in T PROVE Append(s, x) \in T
  <2>1. x.shots = <<x.shots[1]>> /\ x.shots \in Seq(ShotIds)
    BY DEF Shots
  <2> HIDE DEF D
  <2>2. /\ <<x>> \in Seq(D) /\ Append(s, x) = s \o <<x>> /\ Append(s, x) \in Seq(D)
        /\ Len(Append(s, x)) = Len(s) + 1 /\ Len(s) \in Nat
        /\ \A k \in 1..Len(s) : Append(s, x)[k] = s[k]
        /\ Append(s, x)[Len(s) + 1] = x
    <3>1. <<x>> \in Seq(D)
      OBVIOUS
    <3>2. QED
      BY <3>1, AppendProperties, AppendIsConcat
  <2>3. AllShots(Append(s, x)) = AllShots(s) \o AllShots(<<x>>)
    BY <1>1, <2>2, AllShotsConcat
  <2>4. AllShots(<<x>>) = x.shots /\ AllShots(s) \in Seq(ShotIds)
    BY <1>1, <2>1, AllShotsOne, AllShotsType
  <2>5. Len(AllShots(s)) = Len(s) /\ \A k \in 1..Len(s) : AllShots(s)[k] = s[k].shots[1]
    BY <1>3
  <2>6. Len(x.shots) = 1
    <3>1. \A y : Len(<<y>>) = 1
      OBVIOUS
    <3>2. QED
      BY Zenon, <2>1, <3>1
  <2>7. /\ Len(AllShots(s) \o x.shots) = Len(s) + 1
        /\ \A k \in 1..(Len(s) + 1) : (AllShots(s) \o x.shots)[k] =
             IF k <= Len(s) THEN AllShots(s)[k] ELSE x.shots[k - Len(s)]
    BY <2>1, <2>4, <2>5, <2>6, ConcatProperties
  <2>8. ASSUME NEW k \in 1..(Len(s) + 1)
        PROVE  AllShots(Append(s, x))[k] = Append(s, x)[k].shots[1]
    <3>1. CASE k = Len(s) + 1
      <4>1. ~ (k <= Len(s)) /\ k - Len(s) = 1
        BY <2>2, <3>1
      <4>2. QED
        BY <2>2, <2>3, <2>4, <2>7, <3>1, <4>1
    <3>2. CASE k # Len(s) + 1
      <4>1. k <= Len(s) /\ k \in 1..Len(s)
        BY <2>2, <3>2
      <4>2. QED
        BY <2>2, <2>3, <2>4, <2>5, <2>7, <4>1
    <3>3. QED
      BY <3>1, <3>2
  <2>9. QED
    BY <2>2, <2>3, <2>4, <2>7, <2>8
<1>4. \A s \in Seq(D) : s \in T
  <2> HIDE DEF D, T
  <2>1. QED
    BY <1>2, <1>3, SequenceInduction
<1>5. QED
  BY <1>1, <1>4

-----------------------------------------------------------------------------
(***************************************************************************)
(* The inductive invariant.                                                 *)
(***************************************************************************)
CardType ==
  [uuid : Uuids, shots : Seq(ShotIds), parts : Seq(Part), kind : {"single", "merged", "pair"}]

\* The result is one of the videos.
Picked(status) == status.result \in {NoVideo} \cup status.videos
PartVideos(parts) == UNION {parts[k].status.videos : k \in DOMAIN parts}

\* A part is a card of one shot, known by it.
PartFit(part) ==
  part.shots = part.uuid /\ part.uuid = <<part.uuid[1]>> /\ Picked(part.status)

\* A card has the shots of its parts, and the uuid of a card that began with its first shot.
Whole(card) ==
  /\ card.shots # <<>> /\ card.uuid[1] = card.shots[1]
  /\ IF card.kind = "single"
     THEN card.parts = <<>> /\ card.shots = card.uuid /\ card.uuid = <<card.uuid[1]>>
     ELSE /\ Len(card.parts) > 1 /\ card.shots = AllShots(card.parts)
          /\ \A k \in DOMAIN card.parts : PartFit(card.parts[k])

Types ==
  /\ cards \in Seq(CardType)
  /\ statuses \in [Uuids -> Status]
  /\ task \in [Tasks -> {NoTask} \cup [uuid : Uuids, state : {"running", "done", "failed"}]]
  /\ polls \in [Uuids -> Tasks \cup {NoVideo}]
  /\ held \subseteq Seq(CardType)

\* The cards a batch will set back are as sound as those of the page.
RegroupInv ==
  /\ Types
  /\ IsInjective(AllShots(cards))
  /\ \A i \in DOMAIN cards : Whole(cards[i])
  /\ \A list \in held : IsInjective(AllShots(list)) /\ \A i \in DOMAIN list : Whole(list[i])
  /\ \A id \in Uuids : Picked(statuses[id])

-----------------------------------------------------------------------------
(***************************************************************************)
(* Histories of statuses (videoTaskMerge.ts).                               *)
(***************************************************************************)
LEMMA AbsentStatus == Absent \in Status /\ Absent.videos = {} /\ Picked(Absent)
BY DEF Absent, Status, Picked

\* The fields of a part.
LEMMA PartType ==
  ASSUME NEW p \in Part
  PROVE  p.uuid \in Uuids /\ p.shots \in Seq(ShotIds) /\ p.status \in Status
BY DEF Part

\* The fields of a status.
LEMMA StatusType ==
  ASSUME NEW s \in Status
  PROVE  /\ s.state \in {"absent", "active", "settled"}
         /\ s.videos \subseteq Videos /\ s.result \in Videos \cup {NoVideo}
         /\ s.task \in Tasks \cup {NoVideo}
BY DEF Status

\* mergeTaskStatuses keeps every video, and its result is one of them.
LEMMA CombinedFacts ==
  ASSUME NEW list \in Seq(Status)
  PROVE  /\ Combined(list) \in Status
         /\ Combined(list).videos = UNION {list[i].videos : i \in DOMAIN list}
         /\ (\A i \in DOMAIN list : Picked(list[i])) => Picked(Combined(list))
<1> DEFINE real == {i \in DOMAIN list : list[i] # Absent}
           all == UNION {list[i].videos : i \in real}
           i1 == CHOOSE i \in real : \A j \in real : i <= j
<1>1. Combined(list) = IF real = {} THEN Absent ELSE [list[i1] EXCEPT !.videos = all]
  BY DEF Combined
<1>2. DOMAIN list = 1..Len(list) /\ real \subseteq Nat /\ \A i \in DOMAIN list : list[i] \in Status
  OBVIOUS
<1>3. all = UNION {list[i].videos : i \in DOMAIN list}
  BY AbsentStatus
<1>4. all \subseteq Videos
  BY <1>2, StatusType
<1>5. CASE real = {}
  <2>1. all = {}
    BY <1>5
  <2> HIDE DEF all, real
  <2>2. QED
    BY <1>1, <1>3, <1>5, <2>1, AbsentStatus
<1>6. CASE real # {}
  <2>1. i1 \in real
    <3>1. \E i \in real : \A j \in real : i <= j
      BY <1>2, <1>6, LeastNatural
    <3>2. QED
      BY <3>1
  <2>2. list[i1] \in Status /\ i1 \in DOMAIN list /\ list[i1].videos \subseteq all
    BY <1>2, <2>1
  <2> HIDE DEF all, real, i1
  <2> DEFINE r == [list[i1] EXCEPT !.videos = all]
  <2>3. /\ r \in Status /\ r.videos = all /\ r.result = list[i1].result
    BY <1>4, <2>2 DEF Status
  <2>4. r = Combined(list)
    BY <1>1, <1>6
  <2> HIDE DEF r
  <2>5. Picked(list[i1]) => Picked(r)
    BY <2>2, <2>3 DEF Picked
  <2>6. QED
    BY <1>3, <2>2, <2>3, <2>4, <2>5
<1>7. QED
  BY <1>5, <1>6

\* The status without what its parts had keeps every other video.
LEMMA DeltaFacts ==
  ASSUME NEW status \in Status, NEW parts
  PROVE  /\ Delta(status, parts) \in Status
         /\ Delta(status, parts).videos = status.videos \ PartVideos(parts)
         /\ Picked(Delta(status, parts))
<1> DEFINE fresh == status.videos \ PartVideos(parts)
           r == [status EXCEPT !.videos = fresh,
                               !.result = IF @ \in fresh THEN @ ELSE NoVideo]
<1>1. Delta(status, parts) = IF fresh = {} THEN Absent ELSE r
  BY DEF Delta, PartVideos
<1>2. fresh \subseteq Videos
  BY StatusType
<1>3. r \in Status /\ r.videos = fresh /\ r.result \in {NoVideo} \cup fresh
  <2> HIDE DEF fresh
  <2>1. QED
    BY <1>2 DEF Status
<1> HIDE DEF fresh, r
<1>4. CASE fresh = {}
  BY <1>1, <1>4, AbsentStatus DEF fresh
<1>5. CASE fresh # {}
  <2>1. Picked(r)
    BY <1>3 DEF Picked
  <2>2. Delta(status, parts) = r
    BY <1>1, <1>5
  <2>3. QED
    BY <1>3, <2>1, <2>2 DEF fresh
<1>6. QED
  BY <1>4, <1>5

\* Parts and cards have shots.
LEMMA PartsShots ==
  Shots(Part) /\ Shots(CardType)
BY DEF Shots, Part, CardType

\* The parts of a card once the first has inherited what came later.
LEMMA WithExtraFacts ==
  ASSUME NEW parts \in Seq(Part), parts # <<>>, NEW status \in Status,
         \A k \in DOMAIN parts : PartFit(parts[k])
  PROVE  /\ WithExtra(parts, status) \in Seq(Part)
         /\ Len(WithExtra(parts, status)) = Len(parts)
         /\ \A k \in 1..Len(parts) :
              /\ WithExtra(parts, status)[k].uuid = parts[k].uuid
              /\ WithExtra(parts, status)[k].shots = parts[k].shots
              /\ PartFit(WithExtra(parts, status)[k])
         /\ status.videos \subseteq PartVideos(WithExtra(parts, status))
         /\ PartVideos(parts) \subseteq PartVideos(WithExtra(parts, status))
<1> DEFINE extra == Delta(status, parts)
           both == <<parts[1].status, extra>>
           st == Combined(both)
           p1 == [parts[1] EXCEPT !.status = st]
           q == [parts EXCEPT ![1] = p1]
<1>1. /\ Len(parts) \in Nat /\ DOMAIN parts = 1..Len(parts) /\ 1 \in 1..Len(parts)
      /\ \A k \in 1..Len(parts) : parts[k] \in Part
  BY EmptySeq
<1>2. /\ extra \in Status /\ extra.videos = status.videos \ PartVideos(parts)
      /\ Picked(extra)
  BY DeltaFacts
<1>3. PartFit(parts[1]) /\ parts[1].status \in Status /\ parts[1] \in Part
  BY <1>1, PartType
<1>4. WithExtra(parts, status) = IF extra = Absent THEN parts ELSE q
  BY <1>1 DEF WithExtra
<1>5. CASE extra = Absent
  <2>1. status.videos \subseteq PartVideos(parts)
    BY <1>2, <1>5, AbsentStatus
  <2>2. WithExtra(parts, status) = parts
    BY <1>4, <1>5
  <2>3. QED
    BY <1>1, <2>1, <2>2
<1>6. CASE extra # Absent
  <2> HIDE DEF extra
  <2>1. /\ both \in Seq(Status) /\ DOMAIN both = {1, 2}
        /\ both[1] = parts[1].status /\ both[2] = extra
    BY <1>2, <1>3
  <2> HIDE DEF both
  <2>2. /\ st \in Status /\ Picked(st)
        /\ st.videos = parts[1].status.videos \cup extra.videos
    <3>1. \A i \in DOMAIN both : Picked(both[i])
      BY <1>2, <1>3, <2>1 DEF PartFit
    <3>2. UNION {both[i].videos : i \in DOMAIN both} =
            parts[1].status.videos \cup extra.videos
      BY <2>1
    <3>3. QED
      BY <2>1, <3>1, <3>2, CombinedFacts
  <2> HIDE DEF st
  <2>3. /\ p1 \in Part /\ p1.uuid = parts[1].uuid /\ p1.shots = parts[1].shots
        /\ p1.status = st
    BY <1>3, <2>2 DEF Part
  <2> HIDE DEF p1
  <2>5. PartFit(p1)
    <3>1. parts[1].shots = parts[1].uuid /\ parts[1].uuid = <<parts[1].uuid[1]>>
      BY <1>3 DEF PartFit
    <3>2. p1.shots = p1.uuid /\ p1.uuid = <<p1.uuid[1]>>
      BY Zenon, <2>3, <3>1
    <3>3. QED
      BY <2>2, <2>3, <3>2 DEF PartFit
  <2>6. /\ q \in Seq(Part) /\ Len(q) = Len(parts)
        /\ \A j \in 1..Len(parts) : q[j] = IF j = 1 THEN p1 ELSE parts[j]
    BY <1>1, <2>3, ExceptSeq
  <2>7. WithExtra(parts, status) = q
    BY <1>4, <1>6
  <2> HIDE DEF q
  <2>8. ASSUME NEW k \in 1..Len(parts)
        PROVE  q[k].uuid = parts[k].uuid /\ q[k].shots = parts[k].shots /\ PartFit(q[k])
    <3>1. CASE k = 1
      BY <2>3, <2>5, <2>6, <3>1
    <3>2. CASE k # 1
      BY <1>1, <2>6, <3>2
    <3>3. QED
      BY <3>1, <3>2
  <2>9. DOMAIN q = 1..Len(parts) /\ q[1].status = st
    BY <1>1, <2>3, <2>6
  <2>10. PartVideos(parts) \subseteq PartVideos(q)
    <3>1. ASSUME NEW k \in 1..Len(parts) PROVE parts[k].status.videos \subseteq q[k].status.videos
      <4>1. CASE k = 1
        BY <2>2, <2>9, <4>1
      <4>2. CASE k # 1
        BY <2>6, <4>2
      <4>3. QED
        BY <4>1, <4>2
    <3>2. QED
      BY <1>1, <2>9, <3>1 DEF PartVideos
  <2>11. status.videos \subseteq PartVideos(q)
    <3>1. st.videos \subseteq PartVideos(q)
      BY <1>1, <2>9 DEF PartVideos
    <3>2. QED
      BY <1>2, <2>2, <2>10, <3>1
  <2>12. QED
    BY <2>6, <2>7, <2>8, <2>10, <2>11
<1>7. QED
  BY <1>5, <1>6

\* The parts of a card have its shots.
LEMMA SameShots ==
  ASSUME NEW p \in Seq(Part), NEW q \in Seq(Part), Len(p) = Len(q),
         \A k \in 1..Len(p) : q[k].shots = p[k].shots
  PROVE  AllShots(q) = AllShots(p)
<1>1. DOMAIN p = 1..Len(p) /\ DOMAIN q = 1..Len(p)
  OBVIOUS
<1>2. [i \in DOMAIN q |-> q[i].shots] = [i \in DOMAIN p |-> p[i].shots]
  BY <1>1
<1>3. QED
  BY <1>2 DEF AllShots

\* What the invariant says of one card.
LEMMA CardFacts ==
  ASSUME RegroupInv, NEW i \in DOMAIN cards
  PROVE  /\ i \in 1..Len(cards) /\ cards[i] \in CardType /\ Whole(cards[i])
         /\ cards[i].uuid \in Uuids /\ cards[i].shots \in Seq(ShotIds)
         /\ cards[i].parts \in Seq(Part) /\ cards[i].kind \in {"single", "merged", "pair"}
         /\ statuses[cards[i].uuid] \in Status /\ Picked(statuses[cards[i].uuid])
         /\ Len(cards[i].shots) \in Nat \ {0}
<1>1. i \in 1..Len(cards) /\ cards[i] \in CardType /\ Whole(cards[i])
  BY DEF RegroupInv, Types
<1>2. /\ cards[i].uuid \in Uuids /\ cards[i].shots \in Seq(ShotIds)
      /\ cards[i].parts \in Seq(Part) /\ cards[i].kind \in {"single", "merged", "pair"}
  BY <1>1 DEF CardType
<1>3. statuses[cards[i].uuid] \in Status /\ Picked(statuses[cards[i].uuid])
  BY <1>2 DEF RegroupInv, Types
<1>4. Len(cards[i].shots) \in Nat \ {0}
  BY <1>1, <1>2, EmptySeq DEF Whole
<1>5. QED
  BY <1>1, <1>2, <1>3, <1>4

\* A card has one shot exactly if it is single.
LEMMA SingleShot ==
  ASSUME NEW card \in CardType, Whole(card)
  PROVE  /\ card.kind = "single" <=> Len(card.shots) = 1
         /\ card.kind # "single" =>
              /\ Len(card.shots) = Len(card.parts)
              /\ \A k \in 1..Len(card.parts) : card.shots[k] = card.parts[k].uuid[1]
<1>1. card.parts \in Seq(Part) /\ DOMAIN card.parts = 1..Len(card.parts)
  BY DEF CardType
<1>2. CASE card.kind = "single"
  <2>1. card.shots = <<card.uuid[1]>>
    BY <1>2 DEF Whole
  <2>2. \A y : Len(<<y>>) = 1
    OBVIOUS
  <2>3. QED
    BY Zenon, <1>2, <2>1, <2>2
<1>3. CASE card.kind # "single"
  <2>1. /\ Len(card.parts) > 1 /\ card.shots = AllShots(card.parts)
        /\ \A k \in 1..Len(card.parts) : PartFit(card.parts[k])
    BY <1>1, <1>3 DEF Whole
  <2>2. ASSUME NEW k \in 1..Len(card.parts)
        PROVE  /\ card.parts[k].shots = <<card.parts[k].shots[1]>>
               /\ card.parts[k].shots = card.parts[k].uuid
    BY Zenon, <2>1 DEF PartFit
  <2>3. /\ Len(AllShots(card.parts)) = Len(card.parts)
        /\ \A k \in 1..Len(card.parts) : AllShots(card.parts)[k] = card.parts[k].shots[1]
    BY <1>1, <2>2, PartsShots, OneShotEach
  <2>4. Len(card.shots) # 1
    BY <1>1, <2>1, <2>3
  <2>5. \A k \in 1..Len(card.parts) : card.shots[k] = card.parts[k].uuid[1]
    BY <2>1, <2>2, <2>3
  <2>6. QED
    BY <1>3, <2>1, <2>3, <2>4, <2>5
<1>4. QED
  BY <1>2, <1>3

\* The parts a card has in a merge show its shots and its videos.
LEMMA ChildrenFacts ==
  ASSUME RegroupInv, NEW i \in DOMAIN cards
  PROVE  /\ Children(cards[i]) \in Seq(Part) /\ Children(cards[i]) # <<>>
         /\ \A k \in 1..Len(Children(cards[i])) : PartFit(Children(cards[i])[k])
         /\ AllShots(Children(cards[i])) = cards[i].shots
         /\ statuses[cards[i].uuid].videos \subseteq PartVideos(Children(cards[i]))
<1> DEFINE c == cards[i]
           st == statuses[c.uuid]
<1>1. /\ Whole(c) /\ c.uuid \in Uuids /\ c.shots \in Seq(ShotIds)
      /\ c.parts \in Seq(Part) /\ st \in Status /\ Picked(st)
  BY CardFacts
<1>2. CASE c.kind = "single"
  <2> DEFINE p == [uuid |-> c.uuid, shots |-> c.shots, status |-> st]
  <2>1. c.parts = <<>> /\ c.shots = c.uuid /\ c.uuid = <<c.uuid[1]>> /\ c.uuid[1] = c.shots[1]
    BY <1>1, <1>2 DEF Whole
  <2>2. Children(c) = <<p>>
    BY <2>1 DEF Children
  <2>3. /\ p \in Part /\ p.uuid = c.uuid /\ p.shots = c.shots /\ p.status = st
    BY <1>1 DEF Part
  <2> HIDE DEF p, c
  <2>5. PartFit(p)
    <3>1. p.shots = p.uuid /\ p.uuid = <<p.uuid[1]>>
      BY Zenon, <2>1, <2>3
    <3>2. QED
      BY <1>1, <2>3, <3>1 DEF PartFit
  <2>6. <<p>> \in Seq(Part) /\ <<p>> # <<>> /\ Len(<<p>>) = 1 /\ DOMAIN <<p>> = {1} /\ <<p>>[1] = p
    BY <2>3
  <2>7. AllShots(<<p>>) = c.shots
    BY <1>1, <2>3, AllShotsOne
  <2>8. PartVideos(<<p>>) = st.videos
    BY <2>3, <2>6 DEF PartVideos
  <2>9. \A k \in 1..Len(<<p>>) : PartFit(<<p>>[k])
    BY <2>5, <2>6
  <2>10. QED
    BY <2>2, <2>6, <2>7, <2>8, <2>9 DEF c
<1>3. CASE c.kind # "single"
  <2>1. /\ Len(c.parts) > 1 /\ c.shots = AllShots(c.parts) /\ c.uuid[1] = c.shots[1]
        /\ \A k \in DOMAIN c.parts : PartFit(c.parts[k])
    BY <1>1, <1>3 DEF Whole
  <2>2. c.parts # <<>> /\ 1 \in 1..Len(c.parts)
    BY <1>1, <2>1
  <2>4. Children(c) = WithExtra(c.parts, st)
    BY <2>2 DEF Children
  <2> DEFINE q == WithExtra(c.parts, st)
  <2> HIDE DEF c, st
  <2>6. /\ q \in Seq(Part) /\ Len(q) = Len(c.parts)
        /\ \A k \in 1..Len(c.parts) : q[k].shots = c.parts[k].shots /\ PartFit(q[k])
        /\ st.videos \subseteq PartVideos(q)
    BY <1>1, <2>1, <2>2, WithExtraFacts
  <2> HIDE DEF q
  <2>7. AllShots(q) = c.shots
    BY <1>1, <2>1, <2>6, SameShots
  <2>8. q # <<>>
    BY <2>1, <2>6, EmptySeq
  <2>9. QED
    BY <2>4, <2>6, <2>7, <2>8 DEF c, st, q
<1>4. QED
  BY <1>2, <1>3

\* A card's uuid begins with its first shot, so that no two cards share a uuid.
Rooted(card) == card.shots # <<>> /\ card.uuid[1] = card.shots[1]

\* Two cards of a partition whose uuids start with the same shot are one card.
LEMMA Distinct ==
  ASSUME NEW list \in Seq(CardType), IsInjective(AllShots(list)),
         NEW i \in 1..Len(list), NEW j \in 1..Len(list), Rooted(list[i]), Rooted(list[j]),
         list[i].uuid[1] = list[j].uuid[1]
  PROVE  i = j
<1>1. list[i].shots \in Seq(ShotIds) /\ list[j].shots \in Seq(ShotIds)
  <2>1. list[i] \in CardType /\ list[j] \in CardType
    OBVIOUS
  <2>2. QED
    BY <2>1 DEF CardType
<1>2. 1 \in 1..Len(list[i].shots) /\ 1 \in 1..Len(list[j].shots)
  BY <1>1, EmptySeq DEF Rooted
<1>3. list[i].shots[1] = list[j].shots[1]
  BY DEF Rooted
<1>4. QED
  BY <1>2, <1>3, PartsShots, ShotsApart

\* The cards after the cards from i to j were replaced.
LEMMA SplicedFacts ==
  ASSUME RegroupInv, NEW i \in 1..Len(cards), NEW j \in i..Len(cards),
         NEW list \in Seq(CardType)
  PROVE  /\ Spliced(i, j, list) \in Seq(CardType)
         /\ Len(Spliced(i, j, list)) = (i - 1) + Len(list) + (Len(cards) - j)
         /\ \A k \in 1..(i - 1) : Spliced(i, j, list)[k] = cards[k]
         /\ \A m \in 1..Len(list) : Spliced(i, j, list)[(i - 1) + m] = list[m]
         /\ \A k \in 1..(Len(cards) - j) :
              Spliced(i, j, list)[(i - 1) + Len(list) + k] = cards[j + k]
         /\ AllShots(list) = AllShots(SubSeq(cards, i, j)) =>
              AllShots(Spliced(i, j, list)) = AllShots(cards)
<1> DEFINE A == SubSeq(cards, 1, i - 1)
           M == SubSeq(cards, i, j)
           B == SubSeq(cards, j + 1, Len(cards))
           s == (A \o list) \o B
<1>1. cards \in Seq(CardType) /\ Len(cards) \in Nat /\ Len(list) \in Nat
  BY DEF RegroupInv, Types
<1>2. i \in 1..(Len(cards) + 1) /\ j \in 0..Len(cards) /\ i \in Int /\ j \in Int
      /\ 1 <= i /\ i <= j /\ j <= Len(cards)
  BY <1>1
<1>3. A \in Seq(CardType) /\ Len(A) = i - 1 /\ \A k \in 1..(i - 1) : A[k] = cards[k]
  BY <1>1, <1>2, PrefixFacts
<1>4. B \in Seq(CardType) /\ Len(B) = Len(cards) - j
      /\ \A k \in 1..(Len(cards) - j) : B[k] = cards[j + k]
  BY <1>1, <1>2, SuffixFacts
<1>5. M \in Seq(CardType)
  BY <1>1, MiddleFacts
<1>6. cards = (A \o M) \o B
  BY <1>1, Around
<1>7. Spliced(i, j, list) = (A \o list) \o B
  BY <1>1, <1>3, <1>4, ConcatAssociative DEF Spliced
<1> HIDE DEF A, B, M
<1> DEFINE h == A \o list
<1>c. \A x, y \in Seq(CardType) :
        /\ x \o y \in Seq(CardType) /\ Len(x \o y) = Len(x) + Len(y)
        /\ \A k \in 1..(Len(x) + Len(y)) :
             (x \o y)[k] = IF k <= Len(x) THEN x[k] ELSE y[k - Len(x)]
  BY ConcatProperties
<1>8. /\ h \in Seq(CardType) /\ Len(h) = (i - 1) + Len(list)
      /\ \A k \in 1..((i - 1) + Len(list)) :
           h[k] = IF k <= i - 1 THEN A[k] ELSE list[k - (i - 1)]
  <2>1. /\ h \in Seq(CardType) /\ Len(h) = Len(A) + Len(list)
        /\ \A k \in 1..(Len(A) + Len(list)) :
             h[k] = IF k <= Len(A) THEN A[k] ELSE list[k - Len(A)]
    BY Zenon, <1>3, <1>c
  <2>2. Len(A) = i - 1
    BY <1>3
  <2> HIDE DEF h
  <2>3. QED
    BY Zenon, <2>1, <2>2
<1> HIDE DEF h
<1>9. /\ s \in Seq(CardType) /\ Len(s) = (i - 1) + Len(list) + (Len(cards) - j)
      /\ \A k \in 1..((i - 1) + Len(list) + (Len(cards) - j)) :
           s[k] = IF k <= (i - 1) + Len(list) THEN h[k]
                  ELSE B[k - ((i - 1) + Len(list))]
  <2>1. s = h \o B
    BY DEF h
  <2> HIDE DEF s
  <2>2. /\ s \in Seq(CardType) /\ Len(s) = Len(h) + Len(B)
        /\ \A k \in 1..(Len(h) + Len(B)) :
             s[k] = IF k <= Len(h) THEN h[k] ELSE B[k - Len(h)]
    BY Zenon, <1>4, <1>8, <1>c, <2>1
  <2>3. Len(h) = (i - 1) + Len(list) /\ Len(B) = Len(cards) - j
    BY <1>4, <1>8
  <2>4. QED
    BY Zenon, <2>2, <2>3
<1> HIDE DEF s
<1>10. ASSUME NEW k \in 1..(i - 1) PROVE s[k] = cards[k]
  <2>1. /\ k \in 1..((i - 1) + Len(list) + (Len(cards) - j)) /\ k <= (i - 1) + Len(list)
        /\ k \in 1..((i - 1) + Len(list)) /\ k <= i - 1
    BY <1>1, <1>2
  <2>2. QED
    BY <1>3, <1>8, <1>9, <2>1
<1>11. ASSUME NEW m \in 1..Len(list) PROVE s[(i - 1) + m] = list[m]
  <2>1. /\ (i - 1) + m \in 1..((i - 1) + Len(list) + (Len(cards) - j))
        /\ (i - 1) + m <= (i - 1) + Len(list) /\ (i - 1) + m \in 1..((i - 1) + Len(list))
        /\ ~ ((i - 1) + m <= i - 1) /\ ((i - 1) + m) - (i - 1) = m
    BY <1>1, <1>2
  <2>2. QED
    BY <1>8, <1>9, <2>1
<1>12. ASSUME NEW k \in 1..(Len(cards) - j)
       PROVE  s[(i - 1) + Len(list) + k] = cards[j + k]
  <2>1. /\ (i - 1) + Len(list) + k \in 1..((i - 1) + Len(list) + (Len(cards) - j))
        /\ ~ ((i - 1) + Len(list) + k <= (i - 1) + Len(list))
        /\ ((i - 1) + Len(list) + k) - ((i - 1) + Len(list)) = k
    BY <1>1, <1>2
  <2>2. QED
    BY <1>4, <1>9, <2>1
<1>13. AllShots(list) = AllShots(M) => AllShots(s) = AllShots(cards)
  <2>1. \A x, y \in Seq(CardType) : AllShots(x \o y) = AllShots(x) \o AllShots(y)
    BY PartsShots, AllShotsConcat
  <2>2. AllShots(s) = (AllShots(A) \o AllShots(list)) \o AllShots(B)
    BY Zenon, <1>3, <1>4, <1>8, <2>1 DEF s, h
  <2>3. A \o M \in Seq(CardType)
    BY <1>3, <1>5, ConcatProperties
  <2>4. AllShots(cards) = (AllShots(A) \o AllShots(M)) \o AllShots(B)
    BY Zenon, <1>3, <1>4, <1>5, <1>6, <2>1, <2>3
  <2>5. QED
    BY Zenon, <2>2, <2>4
<1>14. QED
  BY Zenon, <1>7, <1>9, <1>10, <1>11, <1>12, <1>13 DEF s, M

\* The uuid of a whole card starts with one of its shots.
LEMMA WholeRooted ==
  ASSUME NEW card \in CardType, Whole(card)
  PROVE  Rooted(card)
BY DEF Whole, Rooted

\* No two cards of the page have the same uuid.
LEMMA DistinctCards ==
  ASSUME RegroupInv, NEW k \in DOMAIN cards, NEW m \in DOMAIN cards,
         cards[k].uuid[1] = cards[m].uuid[1]
  PROVE  k = m
<1>1. cards \in Seq(CardType) /\ IsInjective(AllShots(cards))
  BY DEF RegroupInv, Types
<1>2. k \in 1..Len(cards) /\ m \in 1..Len(cards) /\ Rooted(cards[k]) /\ Rooted(cards[m])
  BY CardFacts, WholeRooted
<1>3. QED
  BY <1>1, <1>2, Distinct

\* Where the cards are after the cards from i to j were replaced: each is one of the
\* replacements or has stayed, and a card that has stayed shares its uuid with none that
\* was replaced, and with no replacement.
Replaced(i, j, list, new) ==
  /\ new \in Seq(CardType) /\ AllShots(new) = AllShots(cards)
  /\ \A p \in 1..Len(new) :
       \/ \E k \in (1..Len(cards)) \ (i..j) : new[p] = cards[k]
       \/ \E m \in 1..Len(list) : new[p] = list[m]
  /\ \A k \in (1..Len(cards)) \ (i..j) : \E p \in 1..Len(new) : new[p] = cards[k]
  /\ \A m \in 1..Len(list) : \E p \in 1..Len(new) : new[p] = list[m]
  /\ \A k \in (1..Len(cards)) \ (i..j) :
       /\ \A h \in i..j : cards[h].uuid # cards[k].uuid
       /\ \A m \in 1..Len(list) : list[m].uuid # cards[k].uuid

\* Cards that show the same shots, put in the place of others, partition the shots again.
LEMMA Stayed ==
  ASSUME RegroupInv, NEW i \in 1..Len(cards), NEW j \in i..Len(cards),
         NEW list \in Seq(CardType), AllShots(list) = AllShots(SubSeq(cards, i, j)),
         \A m \in 1..Len(list) : Whole(list[m]),
         NEW new, new = Spliced(i, j, list)
  PROVE  Replaced(i, j, list, new)
<1> DEFINE n == Len(cards)
           l == Len(list)
<1>1. /\ n \in Nat /\ l \in Nat /\ i \in Int /\ j \in Int /\ 1 <= i /\ i <= j /\ j <= n
      /\ DOMAIN cards = 1..n
  BY DEF RegroupInv, Types
<1>2. /\ new \in Seq(CardType) /\ Len(new) = (i - 1) + l + (n - j)
      /\ \A k \in 1..(i - 1) : new[k] = cards[k]
      /\ \A m \in 1..l : new[(i - 1) + m] = list[m]
      /\ \A k \in 1..(n - j) : new[(i - 1) + l + k] = cards[j + k]
      /\ AllShots(new) = AllShots(cards)
  BY SplicedFacts
<1> HIDE DEF n, l
<1>3. ASSUME NEW k \in (1..n) \ (i..j)
      PROVE  \E p \in 1..Len(new) : /\ new[p] = cards[k]
                                    /\ \A m \in 1..l : p # (i - 1) + m
  <2>1. CASE k < i
    <3>1. k \in 1..(i - 1) /\ k \in 1..Len(new) /\ \A m \in 1..l : k # (i - 1) + m
      BY <1>1, <1>2, <2>1
    <3>2. QED
      BY <1>2, <3>1
  <2>2. CASE k > j
    <3>1. /\ k - j \in 1..(n - j) /\ j + (k - j) = k
          /\ (i - 1) + l + (k - j) \in 1..Len(new)
          /\ \A m \in 1..l : (i - 1) + l + (k - j) # (i - 1) + m
      BY <1>1, <1>2, <2>2
    <3>2. new[(i - 1) + l + (k - j)] = cards[k]
      BY <1>2, <3>1
    <3>3. QED
      BY <3>1, <3>2
  <2>3. k < i \/ k > j
    BY <1>1
  <2>4. QED
    BY Zenon, <2>1, <2>2, <2>3
<1>4. ASSUME NEW m \in 1..l
      PROVE  (i - 1) + m \in 1..Len(new) /\ new[(i - 1) + m] = list[m]
  BY <1>1, <1>2
<1>5. ASSUME NEW p \in 1..Len(new)
      PROVE  \/ \E k \in (1..n) \ (i..j) : new[p] = cards[k]
             \/ \E m \in 1..l : new[p] = list[m]
  <2>1. CASE p < i
    <3>1. p \in 1..(i - 1) /\ p \in (1..n) \ (i..j)
      BY <1>1, <1>2, <2>1
    <3>2. QED
      BY <1>2, <3>1
  <2>2. CASE i <= p /\ p <= (i - 1) + l
    <3>1. p - (i - 1) \in 1..l /\ (i - 1) + (p - (i - 1)) = p
      BY <1>1, <1>2, <2>2
    <3>2. QED
      BY <1>2, <3>1
  <2>3. CASE p > (i - 1) + l
    <3>1. /\ p - (i - 1) - l \in 1..(n - j) /\ (i - 1) + l + (p - (i - 1) - l) = p
          /\ j + (p - (i - 1) - l) \in (1..n) \ (i..j)
      BY <1>1, <1>2, <2>3
    <3>2. QED
      BY <1>2, <3>1
  <2>4. QED
    BY <1>1, <2>1, <2>2, <2>3
<1>6. ASSUME NEW k \in (1..n) \ (i..j), NEW h \in i..j PROVE cards[h].uuid # cards[k].uuid
  <2>1. h \in DOMAIN cards /\ k \in DOMAIN cards /\ h # k
    BY <1>1
  <2>2. QED
    BY <2>1, DistinctCards
<1>7. ASSUME NEW k \in (1..n) \ (i..j), NEW m \in 1..l PROVE list[m].uuid # cards[k].uuid
  <2>1. PICK p \in 1..Len(new) : new[p] = cards[k] /\ p # (i - 1) + m
    BY <1>3
  <2>2. k \in DOMAIN cards /\ m \in 1..Len(list)
    BY <1>1 DEF l
  <2>3. Rooted(cards[k])
    BY <2>2, CardFacts, WholeRooted
  <2>4. Rooted(list[m])
    BY <2>2, WholeRooted
  <2>5. IsInjective(AllShots(new))
    BY <1>2 DEF RegroupInv
  <2>6. ASSUME list[m].uuid = cards[k].uuid PROVE FALSE
    <3>1. /\ new[(i - 1) + m] = list[m] /\ (i - 1) + m \in 1..Len(new)
          /\ new[p].uuid[1] = new[(i - 1) + m].uuid[1]
          /\ Rooted(new[p]) /\ Rooted(new[(i - 1) + m])
      BY <1>4, <2>1, <2>3, <2>4, <2>6
    <3>2. QED
      BY <1>2, <2>1, <2>5, <3>1, Distinct
  <2>7. QED
    BY <2>6
<1>8. QED
  BY <1>2, <1>3, <1>4, <1>5, <1>6, <1>7 DEF n, l, Replaced

\* The cards from i to j give way to those of list, which have the same shots; fresh has
\* statuses of them.
Replacement(i, j, list, gone, fresh) ==
  /\ i \in 1..Len(cards) /\ j \in i..Len(cards) /\ list \in Seq(CardType)
  /\ cards' = Spliced(i, j, list)
  /\ statuses' = Restated(gone, fresh)
  /\ UNCHANGED <<task, polls, held>>
  /\ gone = {cards[k].uuid : k \in i..j}
  /\ AllShots(list) = AllShots(SubSeq(cards, i, j))
  /\ \A m \in 1..Len(list) : Whole(list[m])
  /\ DOMAIN fresh \subseteq {list[m].uuid : m \in 1..Len(list)}
  /\ \A id \in DOMAIN fresh : fresh[id] \in Status /\ Picked(fresh[id])

\* What the cards from i to j showed, those of list show after the step.
StillShown(i, j, list) ==
  \A k \in i..j : \A v \in statuses[cards[k].uuid].videos :
    \E m \in 1..Len(list) : v \in statuses'[list[m].uuid].videos

\* The callbacks attached to the polls change neither the videos nor the result.
LEMMA AttachedFacts ==
  ASSUME NEW list, NEW polled,
         \A id \in Uuids : list[id] \in Status /\ polled[id] \in Tasks \cup {NoVideo}
  PROVE  /\ Attached(list, polled) \in [Uuids -> Status]
         /\ \A id \in Uuids :
              /\ Attached(list, polled)[id].videos = list[id].videos
              /\ Attached(list, polled)[id].result = list[id].result
              /\ Picked(list[id]) => Picked(Attached(list, polled)[id])
<1>1. PICK at : at = Attached(list, polled)
  OBVIOUS
<1>2. at = [id \in Uuids |-> IF polled[id] = NoVideo THEN list[id]
                             ELSE [list[id] EXCEPT !.state = "active", !.task = polled[id]]]
  BY <1>1 DEF Attached
<1>3. ASSUME NEW id \in Uuids
      PROVE  /\ at[id] \in Status /\ at[id].videos = list[id].videos
             /\ at[id].result = list[id].result
             /\ Picked(list[id]) => Picked(at[id])
  <2>1. PICK s : s = list[id]
    OBVIOUS
  <2>2. s \in Status /\ polled[id] \in Tasks \cup {NoVideo}
    BY <2>1
  <2>3. at[id] = IF polled[id] = NoVideo THEN s
                 ELSE [s EXCEPT !.state = "active", !.task = polled[id]]
    BY <1>2, <2>1
  <2>4. at[id] \in Status /\ at[id].videos = s.videos /\ at[id].result = s.result
    <3>1. CASE polled[id] = NoVideo
      BY <2>2, <2>3, <3>1
    <3>2. CASE polled[id] # NoVideo
      <4>1. at[id] = [s EXCEPT !.state = "active", !.task = polled[id]]
        BY <2>3, <3>2
      <4>2. QED
        BY <2>2, <4>1 DEF Status
    <3>3. QED
      BY <3>1, <3>2
  <2>5. QED
    BY <2>1, <2>4 DEF Picked
<1>4. at \in [Uuids -> Status]
  BY <1>2, <1>3
<1>5. QED
  BY <1>1, <1>3, <1>4

\* The statuses once those of cards that have gone were taken away and others set.
LEMMA RestatedFacts ==
  ASSUME RegroupInv, NEW gone, NEW fresh,
         \A id \in DOMAIN fresh : fresh[id] \in Status /\ Picked(fresh[id])
  PROVE  /\ Restated(gone, fresh) \in [Uuids -> Status]
         /\ \A id \in Uuids :
              /\ Picked(Restated(gone, fresh)[id])
              /\ id \in DOMAIN fresh => Restated(gone, fresh)[id].videos = fresh[id].videos
              /\ id \notin DOMAIN fresh /\ id \notin gone =>
                   Restated(gone, fresh)[id].videos = statuses[id].videos
<1>1. PICK base : base = [id \in Uuids |-> IF id \in DOMAIN fresh THEN fresh[id]
                                           ELSE IF id \in gone THEN Absent ELSE statuses[id]]
  OBVIOUS
<1>2. /\ statuses \in [Uuids -> Status] /\ polls \in [Uuids -> Tasks \cup {NoVideo}]
      /\ \A id \in Uuids : Picked(statuses[id])
  BY DEF RegroupInv, Types
<1>3. \A id \in Uuids : base[id] \in Status /\ Picked(base[id])
  BY <1>1, <1>2, AbsentStatus
<1>4. \A id \in Uuids : polls[id] \in Tasks \cup {NoVideo}
  BY <1>2
<1>5. PICK new : new = Attached(base, polls)
  OBVIOUS
<1>6. /\ new \in [Uuids -> Status]
      /\ \A id \in Uuids : new[id].videos = base[id].videos /\ (Picked(base[id]) => Picked(new[id]))
  BY <1>3, <1>4, <1>5, AttachedFacts
<1>7. \A id \in Uuids :
        /\ id \in DOMAIN fresh => base[id].videos = fresh[id].videos
        /\ id \notin DOMAIN fresh /\ id \notin gone => base[id].videos = statuses[id].videos
  BY <1>1
<1>8. Restated(gone, fresh) = new
  BY <1>1, <1>5 DEF Restated
<1>9. \A id \in Uuids :
        /\ Picked(new[id])
        /\ id \in DOMAIN fresh => new[id].videos = fresh[id].videos
        /\ id \notin DOMAIN fresh /\ id \notin gone => new[id].videos = statuses[id].videos
  <2>1. ASSUME NEW id \in Uuids
        PROVE  /\ Picked(new[id])
               /\ id \in DOMAIN fresh => new[id].videos = fresh[id].videos
               /\ id \notin DOMAIN fresh /\ id \notin gone => new[id].videos = statuses[id].videos
    <3>1. new[id].videos = base[id].videos /\ Picked(new[id])
      BY <1>3, <1>6
    <3>2. /\ id \in DOMAIN fresh => base[id].videos = fresh[id].videos
          /\ id \notin DOMAIN fresh /\ id \notin gone => base[id].videos = statuses[id].videos
      BY <1>7
    <3>3. QED
      BY Zenon, <3>1, <3>2
  <2>2. QED
    BY <2>1
<1>10. QED
  BY Zenon, <1>6, <1>8, <1>9

\* What the invariant says of the cards a batch will set back holds as long as they stay.
LEMMA HeldFacts ==
  ASSUME RegroupInv, UNCHANGED held
  PROVE  \A list \in held' : IsInjective(AllShots(list)) /\ \A i \in DOMAIN list : Whole(list[i])
BY DEF RegroupInv

\* A replacement of cards by others of the same shots keeps the invariant.
LEMMA RegroupStep ==
  ASSUME RegroupInv, NEW i, NEW j, NEW list, NEW gone, NEW fresh,
         Replacement(i, j, list, gone, fresh)
  PROVE  /\ RegroupInv'
         /\ AllShots(cards') = AllShots(cards)
         /\ StillShown(i, j, list) => Shown \subseteq Shown'
<1>0. /\ i \in 1..Len(cards) /\ j \in i..Len(cards) /\ list \in Seq(CardType)
      /\ cards' = Spliced(i, j, list)
      /\ statuses' = Restated(gone, fresh)
      /\ UNCHANGED <<task, polls, held>>
      /\ gone = {cards[k].uuid : k \in i..j}
      /\ AllShots(list) = AllShots(SubSeq(cards, i, j))
      /\ \A m \in 1..Len(list) : Whole(list[m])
      /\ DOMAIN fresh \subseteq {list[m].uuid : m \in 1..Len(list)}
      /\ \A id \in DOMAIN fresh : fresh[id] \in Status /\ Picked(fresh[id])
  BY DEF Replacement
<1> USE <1>0
<1>1. PICK new : new = cards'
  OBVIOUS
<1>2. PICK st : st = statuses'
  OBVIOUS
<1>3. /\ cards \in Seq(CardType) /\ statuses \in [Uuids -> Status]
      /\ IsInjective(AllShots(cards)) /\ DOMAIN cards = 1..Len(cards)
  BY DEF RegroupInv, Types
<1>4. /\ new \in Seq(CardType) /\ AllShots(new) = AllShots(cards)
      /\ \A p \in 1..Len(new) :
           \/ \E k \in (1..Len(cards)) \ (i..j) : new[p] = cards[k]
           \/ \E m \in 1..Len(list) : new[p] = list[m]
      /\ \A k \in (1..Len(cards)) \ (i..j) : \E p \in 1..Len(new) : new[p] = cards[k]
      /\ \A m \in 1..Len(list) : \E p \in 1..Len(new) : new[p] = list[m]
      /\ \A k \in (1..Len(cards)) \ (i..j) :
           /\ \A h \in i..j : cards[h].uuid # cards[k].uuid
           /\ \A m \in 1..Len(list) : list[m].uuid # cards[k].uuid
  <2>1. new = Spliced(i, j, list)
    BY <1>1
  <2>2. Replaced(i, j, list, new)
    BY <2>1, Stayed
  <2>3. QED
    BY Zenon, <2>2 DEF Replaced
<1>5. \A m \in 1..Len(list) : /\ list[m] \in CardType /\ list[m].uuid \in Uuids
                               /\ list[m].kind \in {"single", "merged", "pair"}
  <2>1. \A m \in 1..Len(list) : list[m] \in CardType
    OBVIOUS
  <2>2. QED
    BY <2>1 DEF CardType
<1>6. /\ st \in [Uuids -> Status]
      /\ \A id \in Uuids :
           /\ Picked(st[id])
           /\ id \notin DOMAIN fresh /\ id \notin gone => st[id].videos = statuses[id].videos
  <2>1. \A id \in DOMAIN fresh : fresh[id] \in Status /\ Picked(fresh[id])
    BY <1>0
  <2>2. /\ Restated(gone, fresh) \in [Uuids -> Status]
        /\ \A id \in Uuids :
             /\ Picked(Restated(gone, fresh)[id])
             /\ id \notin DOMAIN fresh /\ id \notin gone =>
                  Restated(gone, fresh)[id].videos = statuses[id].videos
    BY <2>1, RestatedFacts
  <2>3. st = Restated(gone, fresh)
    BY <1>0, <1>2
  <2>4. QED
    BY Zenon, <2>2, <2>3
<1>8. ASSUME NEW k \in (1..Len(cards)) \ (i..j)
      PROVE  st[cards[k].uuid].videos = statuses[cards[k].uuid].videos
  <2>1. \A h \in i..j : cards[h].uuid # cards[k].uuid
    BY Zenon, <1>4, <1>8
  <2>3. \A m \in 1..Len(list) : list[m].uuid # cards[k].uuid
    BY Zenon, <1>4, <1>8
  <2>4. cards[k].uuid \notin gone
    BY Zenon, <2>1
  <2>5. cards[k].uuid \notin DOMAIN fresh
    BY Zenon, <2>3
  <2>2. cards[k].uuid \in Uuids
    BY <1>3, CardFacts
  <2>6. QED
    BY <1>6, <2>2, <2>4, <2>5
<1>11. ASSUME NEW p \in 1..Len(new) PROVE Whole(cards'[p])
  <2>1. Whole(new[p])
    <3>1. CASE \E k \in (1..Len(cards)) \ (i..j) : new[p] = cards[k]
      <4>1. PICK k \in (1..Len(cards)) \ (i..j) : new[p] = cards[k]
        BY <3>1
      <4>2. Whole(cards[k])
        BY <1>3, CardFacts
      <4>3. QED
        BY Zenon, <4>1, <4>2
    <3>2. CASE \E m \in 1..Len(list) : new[p] = list[m]
      BY Zenon, <3>2
    <3>3. QED
      BY <1>4, <3>1, <3>2
  <2>2. QED
    BY Zenon, <1>1, <2>1
<1>15. Types'
  <2>1. /\ task \in [Tasks -> {NoTask} \cup [uuid : Uuids, state : {"running", "done", "failed"}]]
        /\ polls \in [Uuids -> Tasks \cup {NoVideo}] /\ held \subseteq Seq(CardType)
    BY DEF RegroupInv, Types
  <2>2. QED
    BY <1>1, <1>2, <1>4, <1>6, <2>1 DEF Types
<1>16. IsInjective(AllShots(cards'))
  BY <1>1, <1>3, <1>4
<1>17. RegroupInv'
  <2>1. \A p \in DOMAIN cards' : Whole(cards'[p])
    <3>1. DOMAIN cards' = 1..Len(new)
      BY <1>1, <1>4
    <3>2. QED
      BY Zenon, <1>11, <3>1
  <2>2. \A id \in Uuids : Picked(statuses'[id])
    BY <1>2, <1>6
  <2>3. \A c \in held' : IsInjective(AllShots(c)) /\ \A k \in DOMAIN c : Whole(c[k])
    BY HeldFacts
  <2>4. QED
    BY <1>15, <1>16, <2>1, <2>2, <2>3 DEF RegroupInv
<1>18. ASSUME StillShown(i, j, list) PROVE  Shown \subseteq Shown'
  <2>1. ASSUME NEW v \in Shown PROVE \E p \in 1..Len(new) : v \in st[new[p].uuid].videos
    <3>1. PICK k \in 1..Len(cards) : v \in statuses[cards[k].uuid].videos
      BY <1>3 DEF Shown, Ids
    <3>2. CASE k \in i..j
      <4>1. PICK m \in 1..Len(list) : v \in st[list[m].uuid].videos
        BY <1>2, <1>18, <3>1, <3>2 DEF StillShown
      <4>2. QED
        BY <1>4, <4>1
    <3>3. CASE k \notin i..j
      <4>1. k \in (1..Len(cards)) \ (i..j)
        BY <3>3
      <4>2. PICK p \in 1..Len(new) : new[p] = cards[k]
        BY <1>4, <4>1
      <4>3. QED
        BY <1>8, <3>1, <4>1, <4>2
    <3>4. QED
      BY <3>2, <3>3
  <2>2. ASSUME NEW v \in Shown PROVE v \in Shown'
    <3>1. PICK p \in 1..Len(new) : v \in st[new[p].uuid].videos
      BY <2>1
    <3>2. p \in DOMAIN cards' /\ v \in statuses'[cards'[p].uuid].videos
      <4>1. DOMAIN new = 1..Len(new)
        BY <1>4
      <4>2. QED
        BY Zenon, <1>1, <1>2, <3>1, <4>1
    <3>3. cards'[p].uuid \in Ids'
      BY <3>2 DEF Ids
    <3>4. QED
      BY <3>2, <3>3 DEF Shown
  <2>3. QED
    BY <2>2
<1>19. AllShots(cards') = AllShots(cards)
  BY <1>1, <1>4
<1>20. QED
  BY <1>17, <1>18, <1>19

-----------------------------------------------------------------------------
(***************************************************************************)
(* Cards made of parts.                                                     *)
(***************************************************************************)
\* Two parts of one shot each, the shots being distinct, have different uuids.
LEMMA PartsApart ==
  ASSUME NEW parts \in Seq(Part), IsInjective(AllShots(parts)),
         \A k \in 1..Len(parts) : PartFit(parts[k]),
         NEW k \in 1..Len(parts), NEW m \in 1..Len(parts), parts[k].uuid[1] = parts[m].uuid[1]
  PROVE  k = m
<1>1. /\ parts[k].shots = parts[k].uuid /\ parts[k].uuid = <<parts[k].uuid[1]>>
      /\ parts[m].shots = parts[m].uuid /\ parts[m].uuid = <<parts[m].uuid[1]>>
  BY DEF PartFit
<1>2. \A y : Len(<<y>>) = 1
  OBVIOUS
<1>3. Len(parts[k].shots) = 1 /\ Len(parts[m].shots) = 1
  BY Zenon, <1>1, <1>2
<1>4. 1 \in 1..Len(parts[k].shots) /\ 1 \in 1..Len(parts[m].shots)
  BY <1>3
<1>5. parts[k].shots[1] = parts[m].shots[1]
  BY <1>1
<1>6. QED
  BY <1>4, <1>5, PartsShots, ShotsApart

\* No shot is twice in a card.
LEMMA CardInjective ==
  ASSUME RegroupInv, NEW i \in DOMAIN cards
  PROVE  IsInjective(cards[i].shots)
<1>1. cards \in Seq(CardType) /\ IsInjective(AllShots(cards)) /\ i \in 1..Len(cards)
  BY CardFacts DEF RegroupInv, Types
<1>2. cards[i].shots \in Seq(ShotIds)
  BY CardFacts
<1>3. DOMAIN cards[i].shots = 1..Len(cards[i].shots)
  BY <1>2
<1>4. ASSUME NEW k \in 1..Len(cards[i].shots), NEW m \in 1..Len(cards[i].shots),
             cards[i].shots[k] = cards[i].shots[m]
      PROVE  k = m
  BY <1>1, <1>4, PartsShots, ShotsApart
<1>5. QED
  BY <1>3, <1>4 DEF IsInjective

\* The cards made of the parts of a card that is not single.
LEMMA OwnParts ==
  ASSUME RegroupInv, NEW i \in DOMAIN cards, cards[i].kind # "single",
         NEW parts, parts = WithExtra(cards[i].parts, statuses[cards[i].uuid])
  PROVE  /\ parts \in Seq(Part) /\ parts # <<>>
         /\ Len(parts) \in Nat /\ DOMAIN parts = 1..Len(parts) /\ 1 \in 1..Len(parts)
         /\ \A k \in 1..Len(parts) : PartFit(parts[k])
         /\ AllShots(parts) = cards[i].shots /\ IsInjective(AllShots(parts))
         /\ statuses[cards[i].uuid].videos \subseteq PartVideos(parts)
<1>1. cards[i].parts # <<>>
  <2>1. Len(cards[i].parts) > 1
    BY CardFacts DEF Whole
  <2>2. Len(<<>>) = 0
    BY EmptySeq
  <2>3. QED
    BY <2>1, <2>2
<1>2. parts = Children(cards[i])
  BY <1>1 DEF Children
<1>3. /\ parts \in Seq(Part) /\ parts # <<>>
      /\ \A k \in 1..Len(parts) : PartFit(parts[k])
      /\ AllShots(parts) = cards[i].shots
      /\ statuses[cards[i].uuid].videos \subseteq PartVideos(parts)
  BY <1>2, ChildrenFacts
<1>4. IsInjective(AllShots(parts))
  BY <1>3, CardInjective
<1>5. Len(parts) \in Nat /\ DOMAIN parts = 1..Len(parts) /\ 1 \in 1..Len(parts)
  BY <1>3, EmptySeq
<1>6. QED
  BY <1>3, <1>4, <1>5

\* A part made a card of its own is whole.
LEMMA SingleFacts ==
  ASSUME NEW part \in Part, PartFit(part)
  PROVE  /\ Single(part) \in CardType /\ Whole(Single(part))
         /\ Single(part).uuid = part.uuid /\ Single(part).shots = part.shots
         /\ Single(part).parts = <<>> /\ Single(part).kind = "single"
<1>1. /\ part.shots = part.uuid /\ part.uuid = <<part.uuid[1]>>
      /\ part.uuid \in Uuids /\ part.shots \in Seq(ShotIds)
  BY PartType DEF PartFit
<1>2. /\ Single(part).uuid = part.uuid /\ Single(part).shots = part.shots
      /\ Single(part).parts = <<>> /\ Single(part).kind = "single"
  BY DEF Single
<1>3. Single(part) \in CardType
  <2>1. <<>> \in Seq(Part)
    OBVIOUS
  <2>2. QED
    BY <1>1, <2>1 DEF Single, CardType
<1>4. part.shots # <<>>
  <2>1. \A y : <<y>> # <<>>
    OBVIOUS
  <2>2. QED
    BY Zenon, <1>1, <2>1
<1>5. Whole(Single(part))
  <2> DEFINE s == Single(part)
  <2>1. /\ s.shots = s.uuid /\ s.uuid = <<s.uuid[1]>> /\ s.shots # <<>>
        /\ s.parts = <<>> /\ s.kind = "single"
    BY Zenon, <1>1, <1>2, <1>4
  <2> HIDE DEF s
  <2>2. s.uuid[1] = s.shots[1]
    BY <2>1
  <2>3. Whole(s)
    BY <2>1, <2>2 DEF Whole
  <2>4. QED
    BY <2>3 DEF s
<1>6. QED
  BY <1>2, <1>3, <1>5

\* The shots of the range of cards from i to i.
LEMMA OneCard ==
  ASSUME RegroupInv, NEW i \in DOMAIN cards
  PROVE  AllShots(SubSeq(cards, i, i)) = cards[i].shots
<1>1. cards \in Seq(CardType) /\ i \in 1..Len(cards) /\ cards[i].shots \in Seq(ShotIds)
  BY CardFacts DEF RegroupInv, Types
<1>2. SubSeq(cards, i, i) = <<cards[i]>>
  BY <1>1, SubSeqOne
<1>3. QED
  BY <1>1, <1>2, AllShotsOne

\* splitMergedCard and unlinkGroup: every part is a card again, and those that have a
\* status get it back.
Apart(i, parts, known, fresh) ==
  /\ parts = WithExtra(cards[i].parts, statuses[cards[i].uuid])
  /\ known \in SUBSET DOMAIN parts
  /\ \A k \in DOMAIN parts : k \notin known => parts[k].status = Absent
  /\ DOMAIN fresh = {parts[k].uuid : k \in known}
  /\ \A id \in DOMAIN fresh :
       fresh[id] = parts[CHOOSE k \in DOMAIN parts : parts[k].uuid = id].status
  /\ cards' = Spliced(i, i, [k \in DOMAIN parts |-> Single(parts[k])])
  /\ statuses' = Restated({cards[i].uuid}, fresh)
  /\ UNCHANGED <<task, polls, held>>

\* Parts become cards again: the invariant holds, the shots stay in order, no video is lost.
LEMMA ApartStep ==
  ASSUME RegroupInv, NEW i \in DOMAIN cards, cards[i].kind # "single",
         NEW parts, NEW known, NEW fresh, Apart(i, parts, known, fresh)
  PROVE  RegroupInv' /\ AllShots(cards') = AllShots(cards) /\ Shown \subseteq Shown'
<1>0. /\ parts = WithExtra(cards[i].parts, statuses[cards[i].uuid])
      /\ known \in SUBSET DOMAIN parts
      /\ \A k \in DOMAIN parts : k \notin known => parts[k].status = Absent
      /\ DOMAIN fresh = {parts[k].uuid : k \in known}
      /\ \A id \in DOMAIN fresh :
           fresh[id] = parts[CHOOSE k \in DOMAIN parts : parts[k].uuid = id].status
      /\ cards' = Spliced(i, i, [k \in DOMAIN parts |-> Single(parts[k])])
      /\ statuses' = Restated({cards[i].uuid}, fresh)
      /\ UNCHANGED <<task, polls, held>>
  BY DEF Apart
<1>1. /\ parts \in Seq(Part) /\ DOMAIN parts = 1..Len(parts) /\ Len(parts) \in Nat
      /\ \A k \in 1..Len(parts) : PartFit(parts[k])
      /\ AllShots(parts) = cards[i].shots /\ IsInjective(AllShots(parts))
      /\ statuses[cards[i].uuid].videos \subseteq PartVideos(parts)
  BY <1>0, OwnParts
<1>2. PICK list : list = [k \in DOMAIN parts |-> Single(parts[k])]
  OBVIOUS
<1>3. PICK gone : gone = {cards[i].uuid}
  OBVIOUS
<1>4. i \in 1..Len(cards) /\ i \in i..Len(cards) /\ \A k : k \in i..i <=> k = i
  <2>1. i \in 1..Len(cards) /\ cards \in Seq(CardType)
    BY Zenon, CardFacts DEF RegroupInv, Types
  <2>2. QED
    BY <2>1
<1>5. \A k \in 1..Len(parts) : parts[k] \in Part
  BY Zenon, <1>1, ElementOfSeq
<1>6. \A k \in 1..Len(parts) :
        /\ Single(parts[k]) \in CardType /\ Whole(Single(parts[k]))
        /\ Single(parts[k]).uuid = parts[k].uuid /\ Single(parts[k]).shots = parts[k].shots
        /\ Single(parts[k]).parts = <<>> /\ Single(parts[k]).kind = "single"
  BY <1>1, <1>5, SingleFacts
<1>7. /\ list \in Seq(CardType) /\ Len(list) = Len(parts) /\ DOMAIN list = 1..Len(parts)
      /\ \A k \in 1..Len(parts) : list[k] = Single(parts[k])
  <2>1. DOMAIN list = 1..Len(parts) /\ \A k \in 1..Len(parts) : list[k] = Single(parts[k])
    BY Zenon, <1>1, <1>2
  <2>2. \A k \in 1..Len(parts) : list[k] \in CardType
    BY Zenon, <1>6, <2>1
  <2>3. list = [k \in 1..Len(parts) |-> list[k]]
    BY Zenon, <1>1, <1>2, <2>1
  <2>4. list \in Seq(CardType) /\ Len(list) = Len(parts)
    <3>1. PICK n : n = Len(parts)
      OBVIOUS
    <3>2. n \in Nat /\ list = [k \in 1..n |-> list[k]] /\ \A k \in 1..n : list[k] \in CardType
      BY Zenon, <1>1, <2>2, <2>3, <3>1
    <3>3. list \in Seq(CardType) /\ Len(list) = n
      BY <3>2
    <3>4. QED
      BY Zenon, <3>1, <3>3
  <2>5. QED
    BY Zenon, <2>1, <2>4
<1>8. \A k \in 1..Len(parts) :
        /\ Whole(list[k]) /\ list[k].uuid = parts[k].uuid
        /\ list[k].shots = parts[k].shots /\ list[k].parts = <<>>
  BY Zenon, <1>6, <1>7
<1>9. AllShots(list) = AllShots(SubSeq(cards, i, i))
  <2>1. [k \in DOMAIN list |-> list[k].shots] = [k \in DOMAIN parts |-> parts[k].shots]
    BY <1>1, <1>7, <1>8
  <2>2. AllShots(list) = AllShots(parts)
    BY <2>1 DEF AllShots
  <2>3. QED
    BY <1>1, <2>2, OneCard
<1>10. ASSUME NEW k \in known PROVE /\ parts[k].uuid \in DOMAIN fresh
                                    /\ fresh[parts[k].uuid] = parts[k].status
                                    /\ k \in 1..Len(parts)
  <2> DEFINE h == CHOOSE x \in DOMAIN parts : parts[x].uuid = parts[k].uuid
  <2>1. k \in 1..Len(parts) /\ parts[k].uuid \in DOMAIN fresh
    BY Zenon, <1>0, <1>1
  <2>2. h \in 1..Len(parts) /\ parts[h].uuid = parts[k].uuid
    BY <1>1, <2>1
  <2>3. fresh[parts[k].uuid] = parts[h].status
    BY Zenon, <1>0, <2>1
  <2> HIDE DEF h
  <2>4. h = k
    BY <1>1, <2>1, <2>2, PartsApart
  <2>5. QED
    BY <2>1, <2>3, <2>4
<1>11. ASSUME NEW id \in DOMAIN fresh
       PROVE  /\ id \in {list[m].uuid : m \in 1..Len(list)}
              /\ fresh[id] \in Status /\ Picked(fresh[id])
  <2>1. PICK k \in known : id = parts[k].uuid
    BY Zenon, <1>0
  <2>2. k \in 1..Len(parts) /\ fresh[id] = parts[k].status
    BY <1>10, <2>1
  <2>3. parts[k].status \in Status
    BY <1>5, <2>2, PartType
  <2>4. Picked(parts[k].status)
    BY <1>1, <2>2 DEF PartFit
  <2>5. list[k].uuid = id /\ k \in 1..Len(list)
    BY <1>7, <1>8, <2>1, <2>2
  <2>6. QED
    BY <2>2, <2>3, <2>4, <2>5
<1>13. \A m \in 1..Len(list) : Whole(list[m])
  BY <1>7, <1>8
<1>14. ASSUME NEW v \in statuses[cards[i].uuid].videos
       PROVE  \E m \in 1..Len(list) : v \in statuses'[list[m].uuid].videos
  <2>1. PICK k \in DOMAIN parts : v \in parts[k].status.videos
    <3>1. v \in PartVideos(parts)
      BY Zenon, <1>1, <1>14
    <3>2. QED
      BY Zenon, <3>1 DEF PartVideos
  <2>2. k \in known
    BY Zenon, <1>0, <2>1, AbsentStatus
  <2>3. k \in 1..Len(list) /\ list[k].uuid \in DOMAIN fresh /\ v \in fresh[list[k].uuid].videos
    <3>1. /\ parts[k].uuid \in DOMAIN fresh /\ fresh[parts[k].uuid] = parts[k].status
          /\ k \in 1..Len(parts)
      BY Zenon, <1>10, <2>2
    <3>2. list[k].uuid = parts[k].uuid /\ Len(list) = Len(parts)
      BY Zenon, <1>7, <1>8, <3>1
    <3>3. QED
      BY Zenon, <2>1, <3>1, <3>2
  <2>4. list[k].uuid \in Uuids
    <3>1. k \in 1..Len(parts)
      BY Zenon, <1>7, <2>3
    <3>2. parts[k].uuid \in Uuids /\ list[k].uuid = parts[k].uuid
      BY <1>5, <1>8, <3>1, PartType
    <3>3. QED
      BY <3>2
  <2>5. statuses'[list[k].uuid].videos = fresh[list[k].uuid].videos
    <3>1. \A id \in DOMAIN fresh : fresh[id] \in Status /\ Picked(fresh[id])
      BY <1>11
    <3>2. \A id \in Uuids : id \in DOMAIN fresh =>
            Restated(gone, fresh)[id].videos = fresh[id].videos
      BY <3>1, RestatedFacts
    <3>3. statuses' = Restated(gone, fresh)
      BY <1>0, <1>3
    <3>4. QED
      BY Zenon, <2>3, <2>4, <3>2, <3>3
  <2>6. QED
    BY <2>3, <2>5
<1>15. cards' = Spliced(i, i, list) /\ statuses' = Restated(gone, fresh)
  BY <1>0, <1>2, <1>3
<1>16. gone = {cards[k].uuid : k \in i..i}
  <2>1. \A x : x \in i..i <=> x = i
    BY Zenon, <1>4
  <2>2. {cards[k].uuid : k \in i..i} = {cards[i].uuid}
    BY Zenon, <2>1
  <2>3. QED
    BY Zenon, <1>3, <2>2
<1>17. Replacement(i, i, list, gone, fresh)
  <2>1. DOMAIN fresh \subseteq {list[m].uuid : m \in 1..Len(list)}
    BY <1>11
  <2>2. \A id \in DOMAIN fresh : fresh[id] \in Status /\ Picked(fresh[id])
    BY <1>11
  <2>3. QED
    BY Zenon, <1>0, <1>4, <1>7, <1>9, <1>13, <1>15, <1>16, <2>1, <2>2 DEF Replacement
<1>18. StillShown(i, i, list)
  <2>1. ASSUME NEW k \in i..i, NEW v \in statuses[cards[k].uuid].videos
        PROVE  \E m \in 1..Len(list) : v \in statuses'[list[m].uuid].videos
    <3>1. k = i
      BY <1>4
    <3>2. QED
      BY <1>14, <2>1, <3>1
  <2>2. QED
    BY <2>1 DEF StillShown
<1>19. QED
  BY <1>17, <1>18, RegroupStep

\* splitMergedCard takes a merged card apart.
LEMMA SplitStep ==
  ASSUME RegroupInv, NEW i \in DOMAIN cards, Split(i)
  PROVE  RegroupInv' /\ AllShots(cards') = AllShots(cards) /\ Shown \subseteq Shown'
<1> DEFINE Q == WithExtra(cards[i].parts, statuses[cards[i].uuid])
           F(p) == [id \in {p[k].uuid : k \in DOMAIN p} |->
                      p[CHOOSE k \in DOMAIN p : p[k].uuid = id].status]
           L(p) == [k \in DOMAIN p |-> Single(p[k])]
<1>1. /\ cards[i].kind = "merged" /\ UNCHANGED <<task, polls, held>>
      /\ cards' = Spliced(i, i, L(Q)) /\ statuses' = Restated({cards[i].uuid}, F(Q))
  BY DEF Split
<1> HIDE DEF Q, F, L
<1>2. PICK parts : parts = Q
  OBVIOUS
<1>3. PICK fresh : fresh = F(parts)
  OBVIOUS
<1>4. cards' = Spliced(i, i, L(parts)) /\ statuses' = Restated({cards[i].uuid}, fresh)
  BY Zenon, <1>1, <1>2, <1>3
<1>5. PICK known : known = DOMAIN parts
  OBVIOUS
<1>6. /\ DOMAIN fresh = {parts[k].uuid : k \in known}
      /\ \A id \in DOMAIN fresh :
           fresh[id] = parts[CHOOSE k \in DOMAIN parts : parts[k].uuid = id].status
  BY <1>3, <1>5 DEF F
<1>7. /\ known \in SUBSET DOMAIN parts
      /\ \A k \in DOMAIN parts : k \notin known => parts[k].status = Absent
  BY <1>5
<1>8. Apart(i, parts, known, fresh)
  BY Zenon, <1>1, <1>2, <1>4, <1>6, <1>7 DEF Apart, Q, L
<1>9. QED
  BY <1>1, <1>8, ApartStep

\* unlinkGroup takes a pair apart.
LEMMA UnlinkStep ==
  ASSUME RegroupInv, NEW i \in DOMAIN cards, Unlink(i)
  PROVE  RegroupInv' /\ AllShots(cards') = AllShots(cards) /\ Shown \subseteq Shown'
<1> DEFINE Q == WithExtra(cards[i].parts, statuses[cards[i].uuid])
           K(p) == {m \in DOMAIN p : p[m].status # Absent}
           F(p) == [id \in {p[k].uuid : k \in K(p)} |->
                      p[CHOOSE k \in DOMAIN p : p[k].uuid = id].status]
           L(p) == [k \in DOMAIN p |-> Single(p[k])]
<1>1. /\ cards[i].kind = "pair" /\ UNCHANGED <<task, polls, held>>
      /\ cards' = Spliced(i, i, L(Q)) /\ statuses' = Restated({cards[i].uuid}, F(Q))
  BY DEF Unlink
<1> HIDE DEF Q, F, L
<1>2. PICK parts : parts = Q
  OBVIOUS
<1>3. PICK fresh : fresh = F(parts)
  OBVIOUS
<1>4. cards' = Spliced(i, i, L(parts)) /\ statuses' = Restated({cards[i].uuid}, fresh)
  BY Zenon, <1>1, <1>2, <1>3
<1>5. PICK known : known = K(parts)
  OBVIOUS
<1>6. /\ DOMAIN fresh = {parts[k].uuid : k \in known}
      /\ \A id \in DOMAIN fresh :
           fresh[id] = parts[CHOOSE k \in DOMAIN parts : parts[k].uuid = id].status
  <2> HIDE DEF K
  <2>1. QED
    BY <1>3, <1>5 DEF F
<1>7. /\ known \in SUBSET DOMAIN parts
      /\ \A k \in DOMAIN parts : k \notin known => parts[k].status = Absent
  BY <1>5
<1>8. Apart(i, parts, known, fresh)
  BY Zenon, <1>1, <1>2, <1>4, <1>6, <1>7 DEF Apart, Q, L
<1>9. QED
  BY <1>1, <1>8, ApartStep

\* The first shot of a list of cards is the first card's.
LEMMA FirstShot ==
  ASSUME NEW C, Shots(C), NEW list \in Seq(C), Len(list) > 0, list[1].shots # <<>>
  PROVE  /\ AllShots(list) # <<>> /\ AllShots(list)[1] = list[1].shots[1]
         /\ Len(list) > 1 /\ list[2].shots # <<>> => Len(AllShots(list)) > 1
<1> DEFINE s == ShotLists(list)
<1>1. /\ s \in Seq(Seq(ShotIds)) /\ Len(s) = Len(list) /\ AllShots(list) = FlattenSeq(s)
      /\ \A i \in 1..Len(list) : s[i] = list[i].shots
      /\ AllShots(list) \in Seq(ShotIds)
  BY ShotListsType, AllShotsType
<1> HIDE DEF s
<1>2. Len(list) \in Nat /\ 1 \in 1..Len(s) /\ s[1] = list[1].shots
  BY <1>1
<1>3. s[1] \in Seq(ShotIds) /\ s[1] # <<>>
  BY <1>1, <1>2
<1>4. Len(s[1]) \in Nat \ {0} /\ 1 \in 1..Len(s[1])
  BY <1>3, EmptySeq
<1>5. Offset(s, 1) = 0
  <2>1. SubSeq(s, 1, 1 - 1) = <<>>
    <3>1. 1 \in 1..(Len(s) + 1)
      BY <1>1, <1>2
    <3>2. SubSeq(s, 1, 1 - 1) \in Seq(Seq(ShotIds)) /\ Len(SubSeq(s, 1, 1 - 1)) = 0
      BY <1>1, <3>1, PrefixFacts
    <3>3. QED
      BY <3>2, EmptySeq
  <2>2. Len(<<>>) = 0
    BY EmptySeq
  <2>3. QED
    BY Zenon, <2>1, <2>2, FlattenEmpty DEF Offset
<1>6. /\ \A k \in 1..Len(s[1]) : /\ Offset(s, 1) + k \in 1..Len(FlattenSeq(s))
                                 /\ FlattenSeq(s)[Offset(s, 1) + k] = s[1][k]
      /\ \A j \in 1..Len(s) : 1 < j => Offset(s, 1) + Len(s[1]) <= Offset(s, j)
  <2>1. s \in Seq(Seq(ShotIds)) /\ 1 \in 1..Len(s)
    BY <1>1, <1>2
  <2>2. \A i \in 1..Len(s) :
          /\ \A k \in 1..Len(s[i]) : /\ Offset(s, i) + k \in 1..Len(FlattenSeq(s))
                                      /\ FlattenSeq(s)[Offset(s, i) + k] = s[i][k]
          /\ \A j \in 1..Len(s) : i < j => Offset(s, i) + Len(s[i]) <= Offset(s, j)
    BY <2>1, FlattenOffset
  <2>3. QED
    BY Zenon, <2>1, <2>2
<1>7. 1 \in 1..Len(FlattenSeq(s)) /\ FlattenSeq(s)[1] = s[1][1]
  <2>1. Offset(s, 1) + 1 = 1
    BY <1>5
  <2>2. QED
    BY <1>4, <1>6, <2>1
<1>8. AllShots(list) # <<>>
  <2>1. Len(AllShots(list)) # 0
    BY <1>1, <1>7
  <2>2. QED
    BY <2>1, EmptySeq
<1>9. ASSUME Len(list) > 1, list[2].shots # <<>> PROVE Len(AllShots(list)) > 1
  <2>1. 2 \in 1..Len(s) /\ s[2] = list[2].shots /\ 2 \in 1..Len(list)
    BY <1>1, <1>2, <1>9
  <2>2. s[2] \in Seq(ShotIds) /\ s[2] # <<>>
    BY <1>1, <1>9, <2>1
  <2>3. 1 \in 1..Len(s[2])
    BY <2>2, EmptySeq
  <2>4. Offset(s, 2) \in Nat /\ Offset(s, 2) + 1 \in 1..Len(FlattenSeq(s))
    BY <1>1, <2>1, <2>3, FlattenOffset
  <2>5. Offset(s, 2) >= 1
    BY <1>4, <1>5, <1>6, <2>1, <2>4
  <2>6. Len(FlattenSeq(s)) \in Nat
    BY <1>1
  <2>7. QED
    BY <1>1, <2>4, <2>5, <2>6
<1>10. QED
  BY <1>1, <1>2, <1>7, <1>8, <1>9

\* The videos of two lists of parts.
LEMMA PartVideosConcat ==
  ASSUME NEW p \in Seq(Part), NEW q \in Seq(Part)
  PROVE  PartVideos(p \o q) = PartVideos(p) \cup PartVideos(q)
<1>1. /\ DOMAIN p = 1..Len(p) /\ DOMAIN q = 1..Len(q) /\ Len(p) \in Nat /\ Len(q) \in Nat
      /\ DOMAIN (p \o q) = 1..(Len(p) + Len(q))
      /\ \A k \in 1..(Len(p) + Len(q)) : (p \o q)[k] = IF k <= Len(p) THEN p[k] ELSE q[k - Len(p)]
  BY ConcatProperties
<1> DEFINE r == p \o q
<1> HIDE DEF r
<1>2. ASSUME NEW v \in PartVideos(r) PROVE v \in PartVideos(p) \cup PartVideos(q)
  <2>1. PICK k \in 1..(Len(p) + Len(q)) : v \in r[k].status.videos
    BY <1>1 DEF PartVideos, r
  <2>2. CASE k <= Len(p)
    <3>1. k \in DOMAIN p /\ v \in p[k].status.videos
      BY <1>1, <2>1, <2>2 DEF r
    <3>2. QED
      BY <3>1 DEF PartVideos
  <2>3. CASE ~ (k <= Len(p))
    <3>1. k - Len(p) \in DOMAIN q /\ v \in q[k - Len(p)].status.videos
      BY <1>1, <2>1, <2>3 DEF r
    <3>2. QED
      BY <3>1 DEF PartVideos
  <2>4. QED
    BY <2>2, <2>3
<1>3. ASSUME NEW v \in PartVideos(p) PROVE v \in PartVideos(r)
  <2>1. PICK k \in 1..Len(p) : v \in p[k].status.videos
    BY <1>1 DEF PartVideos
  <2>2. k \in DOMAIN r /\ r[k] = p[k]
    BY <1>1 DEF r
  <2>3. QED
    BY <2>1, <2>2 DEF PartVideos
<1>4. ASSUME NEW v \in PartVideos(q) PROVE v \in PartVideos(r)
  <2>1. PICK k \in 1..Len(q) : v \in q[k].status.videos
    BY <1>1 DEF PartVideos
  <2>2. Len(p) + k \in DOMAIN r /\ r[Len(p) + k] = q[k]
    BY <1>1 DEF r
  <2>3. QED
    BY <2>1, <2>2 DEF PartVideos
<1>5. QED
  BY <1>2, <1>3, <1>4 DEF r

\* Two lists of fitting parts make one.
LEMMA PartsFitConcat ==
  ASSUME NEW p \in Seq(Part), NEW q \in Seq(Part),
         \A k \in 1..Len(p) : PartFit(p[k]), \A k \in 1..Len(q) : PartFit(q[k])
  PROVE  /\ p \o q \in Seq(Part)
         /\ \A k \in 1..Len(p \o q) : PartFit((p \o q)[k])
<1> DEFINE r == p \o q
<1>1. /\ r \in Seq(Part) /\ Len(r) = Len(p) + Len(q) /\ Len(p) \in Nat /\ Len(q) \in Nat
      /\ \A k \in 1..(Len(p) + Len(q)) : r[k] = IF k <= Len(p) THEN p[k] ELSE q[k - Len(p)]
  BY ConcatProperties
<1> HIDE DEF r
<1>2. ASSUME NEW k \in 1..Len(r) PROVE PartFit(r[k])
  <2>1. CASE k <= Len(p)
    <3>1. k \in 1..Len(p) /\ r[k] = p[k]
      BY <1>1, <2>1
    <3>2. QED
      BY <3>1
  <2>2. CASE ~ (k <= Len(p))
    <3>1. k - Len(p) \in 1..Len(q) /\ r[k] = q[k - Len(p)]
      BY <1>1, <2>2
    <3>2. QED
      BY <3>1
  <2>3. QED
    BY <2>1, <2>2
<1>3. QED
  BY <1>1, <1>2 DEF r

\* Cards become one: it has their shots and parts, and a status with all their videos.
Joined(i, j, card, status) ==
  /\ i \in 1..Len(cards) /\ j \in i..Len(cards)
  /\ card \in CardType /\ Whole(card) /\ card.shots = AllShots(SubSeq(cards, i, j))
  /\ status \in Status /\ Picked(status)
  /\ \A k \in i..j : statuses[cards[k].uuid].videos \subseteq status.videos
  /\ cards' = Spliced(i, j, <<card>>)
  /\ statuses' = Restated({cards[k].uuid : k \in i..j}, [id \in {card.uuid} |-> status])
  /\ UNCHANGED <<task, polls, held>>

\* Cards become one: the invariant holds, the shots stay in order, no video is lost.
LEMMA JoinStep ==
  ASSUME RegroupInv, NEW i, NEW j, NEW card, NEW status, Joined(i, j, card, status)
  PROVE  RegroupInv' /\ AllShots(cards') = AllShots(cards) /\ Shown \subseteq Shown'
<1>0. /\ i \in 1..Len(cards) /\ j \in i..Len(cards)
      /\ card \in CardType /\ Whole(card) /\ card.shots = AllShots(SubSeq(cards, i, j))
      /\ status \in Status /\ Picked(status)
      /\ \A k \in i..j : statuses[cards[k].uuid].videos \subseteq status.videos
      /\ cards' = Spliced(i, j, <<card>>)
      /\ statuses' = Restated({cards[k].uuid : k \in i..j}, [id \in {card.uuid} |-> status])
      /\ UNCHANGED <<task, polls, held>>
  BY DEF Joined
<1>1. PICK list : list = <<card>>
  OBVIOUS
<1>2. PICK gone : gone = {cards[k].uuid : k \in i..j}
  OBVIOUS
<1>3. PICK fresh : fresh = [id \in {card.uuid} |-> status]
  OBVIOUS
<1>4. /\ list \in Seq(CardType) /\ Len(list) = 1 /\ list[1] = card
      /\ \A m : m \in 1..Len(list) <=> m = 1
  BY <1>0, <1>1
<1>5. card.uuid \in Uuids /\ card.shots \in Seq(ShotIds)
  BY <1>0 DEF CardType
<1>6. AllShots(list) = AllShots(SubSeq(cards, i, j))
  BY <1>0, <1>1, <1>5, AllShotsOne
<1>7. /\ DOMAIN fresh = {card.uuid} /\ fresh[card.uuid] = status
  BY <1>3
<1>8. /\ DOMAIN fresh \subseteq {list[m].uuid : m \in 1..Len(list)}
      /\ \A id \in DOMAIN fresh : fresh[id] \in Status /\ Picked(fresh[id])
  BY <1>0, <1>4, <1>7
<1>10. cards' = Spliced(i, j, list) /\ statuses' = Restated(gone, fresh)
  BY Zenon, <1>0, <1>1, <1>2, <1>3
<1>11. \A m \in 1..Len(list) : Whole(list[m])
  BY <1>0, <1>4
<1>12. Replacement(i, j, list, gone, fresh)
  BY Zenon, <1>0, <1>2, <1>4, <1>6, <1>8, <1>10, <1>11 DEF Replacement
<1>13. StillShown(i, j, list)
  <2>1. statuses'[card.uuid].videos = status.videos
    <3>1. \A id \in DOMAIN fresh : fresh[id] \in Status /\ Picked(fresh[id])
      BY <1>8
    <3>2. \A id \in Uuids : id \in DOMAIN fresh =>
            Restated(gone, fresh)[id].videos = fresh[id].videos
      <4>1. \A id \in Uuids :
              /\ Picked(Restated(gone, fresh)[id])
              /\ id \in DOMAIN fresh => Restated(gone, fresh)[id].videos = fresh[id].videos
              /\ id \notin DOMAIN fresh /\ id \notin gone =>
                   Restated(gone, fresh)[id].videos = statuses[id].videos
        BY <3>1, RestatedFacts
      <4>2. QED
        BY Zenon, <4>1
    <3>3. card.uuid \in DOMAIN fresh
      BY <1>7
    <3>4. QED
      BY Zenon, <1>5, <1>7, <1>10, <3>2, <3>3
  <2>2. ASSUME NEW k \in i..j, NEW v \in statuses[cards[k].uuid].videos
        PROVE  \E m \in 1..Len(list) : v \in statuses'[list[m].uuid].videos
    BY <1>0, <1>4, <2>1, <2>2
  <2>3. QED
    BY <2>2 DEF StillShown
<1>14. QED
  BY <1>12, <1>13, RegroupStep

\* mergeWithNext: the parts of the merged card are the children of the cards, in order.
LEMMA MergeStep ==
  ASSUME RegroupInv, NEW i \in DOMAIN cards, NEW j \in DOMAIN cards, Merge(i, j)
  PROVE  RegroupInv' /\ AllShots(cards') = AllShots(cards) /\ Shown \subseteq Shown'
<1> DEFINE Ch == SubSeq(cards, i, j)
           Ks(c) == [k \in DOMAIN c |-> Children(c[k])]
           Hs(c) == [k \in DOMAIN c |-> statuses[c[k].uuid]]
           Gs(c) == {c[k].uuid : k \in DOMAIN c}
           M(c, p) == [uuid |-> cards[i].uuid, shots |-> AllShots(c), parts |-> p,
                       kind |-> "merged"]
           F(id, st) == [x \in {id} |-> st]
<1>1. /\ i < j /\ UNCHANGED <<task, polls, held>>
      /\ cards' = Spliced(i, j, <<M(Ch, FlattenSeq(Ks(Ch)))>>)
      /\ statuses' = Restated(Gs(Ch), F(cards[i].uuid, Combined(Hs(Ch))))
  BY DEF Merge
<1>2. cards \in Seq(CardType) /\ Len(cards) \in Nat /\ DOMAIN cards = 1..Len(cards)
  BY DEF RegroupInv, Types
<1>3. i \in 1..Len(cards) /\ j \in i..Len(cards) /\ i \in Int /\ j \in Int /\ i <= j
  BY <1>1, <1>2
<1>4. PICK chosen : chosen = Ch
  OBVIOUS
<1>5. /\ chosen \in Seq(CardType) /\ Len(chosen) = j - i + 1
      /\ \A k \in 1..(j - i + 1) : chosen[k] = cards[i + k - 1]
  BY <1>2, <1>3, <1>4, MiddleFacts
<1> HIDE DEF Ch
<1>6. DOMAIN chosen = 1..(j - i + 1) /\ j - i + 1 \in Nat /\ j - i + 1 > 1
  BY <1>1, <1>3, <1>5
<1> HIDE DEF Ks, Hs, Gs, M, F
<1>7. PICK kids : kids = Ks(chosen)
  OBVIOUS
<1>8. PICK parts : parts = FlattenSeq(kids)
  OBVIOUS
<1>9. PICK history : history = Hs(chosen)
  OBVIOUS
<1>10. PICK card : card = M(chosen, parts)
  OBVIOUS
<1>11. PICK status : status = Combined(history)
  OBVIOUS
<1>12. /\ cards' = Spliced(i, j, <<card>>)
       /\ statuses' = Restated(Gs(chosen), F(cards[i].uuid, status))
  BY Zenon, <1>1, <1>4, <1>7, <1>8, <1>9, <1>10, <1>11
<1>13. /\ card.uuid = cards[i].uuid /\ card.shots = AllShots(chosen) /\ card.parts = parts
       /\ card.kind = "merged"
       /\ card = [uuid |-> cards[i].uuid, shots |-> AllShots(chosen), parts |-> parts,
                  kind |-> "merged"]
  BY <1>10 DEF M
<1>14. ASSUME NEW k \in 1..(j - i + 1)
       PROVE  /\ i + k - 1 \in DOMAIN cards /\ i + k - 1 \in i..j
              /\ chosen[k] = cards[i + k - 1] /\ chosen[k] \in CardType
              /\ kids[k] = Children(chosen[k])
              /\ kids[k] \in Seq(Part) /\ kids[k] # <<>>
              /\ \A m \in 1..Len(kids[k]) : PartFit(kids[k][m])
              /\ AllShots(kids[k]) = chosen[k].shots
              /\ statuses[chosen[k].uuid].videos \subseteq PartVideos(kids[k])
              /\ history[k] = statuses[chosen[k].uuid]
              /\ history[k] \in Status /\ Picked(history[k])
              /\ chosen[k].shots # <<>>
  <2>1. i + k - 1 \in DOMAIN cards /\ i + k - 1 \in i..j /\ chosen[k] = cards[i + k - 1]
    BY <1>2, <1>3, <1>5
  <2>2. kids[k] = Children(chosen[k])
    BY <1>6, <1>7 DEF Ks
  <2>3. history[k] = statuses[chosen[k].uuid]
    BY <1>6, <1>9 DEF Hs
  <2>4. PICK h \in DOMAIN cards : h = i + k - 1
    BY <2>1
  <2>5. /\ Children(cards[h]) \in Seq(Part) /\ Children(cards[h]) # <<>>
        /\ \A m \in 1..Len(Children(cards[h])) : PartFit(Children(cards[h])[m])
        /\ AllShots(Children(cards[h])) = cards[h].shots
        /\ statuses[cards[h].uuid].videos \subseteq PartVideos(Children(cards[h]))
    BY ChildrenFacts
  <2>6. /\ cards[h] \in CardType /\ statuses[cards[h].uuid] \in Status
        /\ Picked(statuses[cards[h].uuid]) /\ Whole(cards[h])
    BY CardFacts
  <2>7. cards[h].shots # <<>>
    BY <2>6 DEF Whole
  <2>8. chosen[k] = cards[h]
    BY <2>1, <2>4
  <2>9. QED
    BY Zenon, <2>1, <2>2, <2>3, <2>5, <2>6, <2>7, <2>8
<1>15. /\ DOMAIN kids = 1..(j - i + 1) /\ DOMAIN history = 1..(j - i + 1)
       /\ kids = [k \in 1..(j - i + 1) |-> Children(chosen[k])]
       /\ history = [k \in 1..(j - i + 1) |-> statuses[chosen[k].uuid]]
  BY <1>6, <1>7, <1>9 DEF Ks, Hs
<1>16. /\ kids \in Seq(Seq(Part)) /\ Len(kids) = j - i + 1
       /\ history \in Seq(Status)
  <2>1. \A k \in 1..(j - i + 1) : kids[k] \in Seq(Part) /\ history[k] \in Status
    BY <1>14
  <2>2. kids \in [1..(j - i + 1) -> Seq(Part)] /\ history \in [1..(j - i + 1) -> Status]
    <3> DEFINE X(k) == Children(chosen[k])
               Y(k) == statuses[chosen[k].uuid]
    <3>1. \A k \in 1..(j - i + 1) : X(k) \in Seq(Part) /\ Y(k) \in Status
      BY <1>14
    <3>2. kids = [k \in 1..(j - i + 1) |-> X(k)] /\ history = [k \in 1..(j - i + 1) |-> Y(k)]
      BY <1>15
    <3> HIDE DEF X, Y
    <3>3. QED
      BY <3>1, <3>2
  <2>3. \A n \in Nat : \A S, f : f \in [1..n -> S] => f \in Seq(S) /\ Len(f) = n
    OBVIOUS
  <2>4. PICK n \in Nat : n = j - i + 1
    BY <1>6
  <2>5. kids \in [1..n -> Seq(Part)] /\ history \in [1..n -> Status]
    BY Zenon, <2>2, <2>4
  <2>6. kids \in Seq(Seq(Part)) /\ Len(kids) = n
    BY Zenon, <2>3, <2>5
  <2>7. history \in Seq(Status)
    BY Zenon, <2>3, <2>5
  <2>8. QED
    BY Zenon, <2>4, <2>6, <2>7
<1>17. parts \in Seq(Part)
  BY <1>8, <1>16, FlattenType
<1>18. AllShots(parts) = AllShots(chosen)
  <2>1. AllShots(parts) = FlattenSeq([k \in DOMAIN kids |-> AllShots(kids[k])])
    BY <1>8, <1>16, PartsShots, AllShotsFlatten
  <2>2. [k \in DOMAIN kids |-> AllShots(kids[k])] = [k \in DOMAIN chosen |-> chosen[k].shots]
    BY <1>6, <1>14, <1>15
  <2>3. QED
    BY <2>1, <2>2 DEF AllShots
<1>19. \A m \in 1..Len(parts) : PartFit(parts[m])
  <2>1. ToSet(parts) = UNION {ToSet(kids[k]) : k \in DOMAIN kids}
    BY <1>8, <1>16, FlattenElements
  <2>2. ASSUME NEW m \in 1..Len(parts) PROVE PartFit(parts[m])
    <3>1. parts[m] \in ToSet(parts)
      BY <1>17 DEF ToSet
    <3>2. PICK k \in DOMAIN kids : parts[m] \in ToSet(kids[k])
      BY <2>1, <3>1
    <3>3. k \in 1..(j - i + 1) /\ kids[k] \in Seq(Part)
      BY <1>14, <1>15
    <3>4. PICK x \in 1..Len(kids[k]) : parts[m] = kids[k][x]
      BY <3>2, <3>3 DEF ToSet
    <3>5. QED
      BY <1>14, <3>3, <3>4
  <2>3. QED
    BY <2>2
<1>21. /\ status \in Status /\ Picked(status)
       /\ status.videos = UNION {history[k].videos : k \in DOMAIN history}
  <2>1. \A k \in DOMAIN history : Picked(history[k])
    BY <1>14, <1>15
  <2>2. QED
    BY <1>11, <1>16, <2>1, CombinedFacts
<1>23. \A h \in i..j : statuses[cards[h].uuid].videos \subseteq status.videos
  <2>1. ASSUME NEW h \in i..j PROVE statuses[cards[h].uuid].videos \subseteq status.videos
    <3>1. h - i + 1 \in 1..(j - i + 1) /\ i + (h - i + 1) - 1 = h
      BY <1>3
    <3>2. history[h - i + 1] = statuses[cards[h].uuid]
      BY <1>14, <3>1
    <3>3. QED
      BY <1>15, <1>21, <3>1, <3>2
  <2>2. QED
    BY <2>1
<1>24. Gs(chosen) = {cards[h].uuid : h \in i..j}
  <2>1. \A h \in i..j : \E k \in 1..(j - i + 1) : chosen[k] = cards[h]
    <3>1. ASSUME NEW h \in i..j PROVE \E k \in 1..(j - i + 1) : chosen[k] = cards[h]
      <4>1. h - i + 1 \in 1..(j - i + 1) /\ i + (h - i + 1) - 1 = h
        BY <1>3
      <4>2. QED
        BY <1>14, <4>1
    <3>2. QED
      BY <3>1
  <2>2. \A k \in 1..(j - i + 1) : \E h \in i..j : chosen[k] = cards[h]
    BY <1>14
  <2>3. ASSUME NEW x \in Gs(chosen) PROVE x \in {cards[h].uuid : h \in i..j}
    <3>1. PICK k \in 1..(j - i + 1) : x = chosen[k].uuid
      BY <1>6 DEF Gs
    <3>2. QED
      BY <2>2, <3>1
  <2>4. ASSUME NEW x \in {cards[h].uuid : h \in i..j} PROVE x \in Gs(chosen)
    <3>1. PICK h \in i..j : x = cards[h].uuid
      OBVIOUS
    <3>2. PICK k \in 1..(j - i + 1) : chosen[k] = cards[h]
      BY <2>1
    <3>3. QED
      BY <1>6, <3>1, <3>2 DEF Gs
  <2>5. QED
    BY <2>3, <2>4
<1>25. card \in CardType
  <2>1. cards[i].uuid \in Uuids
    BY CardFacts
  <2>2. AllShots(chosen) \in Seq(ShotIds)
    BY <1>5, PartsShots, AllShotsType
  <2>3. QED
    BY <1>13, <1>17, <2>1, <2>2 DEF CardType
<1>26. Whole(card)
  <2>1. 1 \in 1..(j - i + 1) /\ 2 \in 1..(j - i + 1)
    BY <1>6
  <2>2. /\ AllShots(chosen) # <<>> /\ AllShots(chosen)[1] = chosen[1].shots[1]
        /\ Len(AllShots(chosen)) > 1
    <3>1. chosen[1].shots # <<>> /\ chosen[2].shots # <<>>
      BY <1>14, <2>1
    <3>2. QED
      BY <1>5, <1>6, <3>1, PartsShots, FirstShot
  <2>3. chosen[1] = cards[i]
    BY <1>3, <1>5, <2>1
  <2>4. cards[i].uuid[1] = cards[i].shots[1]
    BY CardFacts DEF Whole
  <2>5. card.shots # <<>> /\ card.uuid[1] = card.shots[1]
    BY <1>13, <2>2, <2>3, <2>4
  <2>6. Len(parts) > 1
    <3>1. \A m \in 1..Len(parts) : parts[m].shots = <<parts[m].shots[1]>>
      <4>1. ASSUME NEW m \in 1..Len(parts) PROVE parts[m].shots = <<parts[m].shots[1]>>
        <5>1. parts[m].shots = parts[m].uuid /\ parts[m].uuid = <<parts[m].uuid[1]>>
          BY <1>19 DEF PartFit
        <5>2. QED
          BY Zenon, <5>1
      <4>2. QED
        BY <4>1
    <3>2. Len(AllShots(parts)) = Len(parts)
      BY <1>17, <3>1, PartsShots, OneShotEach
    <3>3. QED
      BY <1>18, <2>2, <3>2
  <2>7. DOMAIN parts = 1..Len(parts)
    BY <1>17
  <2>8. card.kind # "single" /\ card.shots = AllShots(card.parts)
    BY <1>13, <1>18
  <2>9. Len(card.parts) > 1 /\ \A k \in DOMAIN card.parts : PartFit(card.parts[k])
    BY <1>13, <1>19, <2>6, <2>7
  <2>10. QED
    BY <2>5, <2>8, <2>9 DEF Whole
<1>27. card.shots = AllShots(SubSeq(cards, i, j))
  BY Zenon, <1>4, <1>13 DEF Ch
<1>28. statuses' = Restated({cards[k].uuid : k \in i..j}, [id \in {card.uuid} |-> status])
  BY Zenon, <1>12, <1>13, <1>24 DEF F
<1>30. Joined(i, j, card, status)
  BY Zenon, <1>1, <1>3, <1>12, <1>21, <1>23, <1>25, <1>26, <1>27, <1>28 DEF Joined
<1>31. QED
  BY <1>30, JoinStep

\* A sequence of length two is its two elements.
LEMMA LengthTwo ==
  ASSUME NEW S, NEW s \in Seq(S), Len(s) = 2
  PROVE  s = <<s[1], s[2]>>
<1>1. s[1] \in S /\ s[2] \in S
  <2>1. 1 \in 1..Len(s) /\ 2 \in 1..Len(s)
    OBVIOUS
  <2>2. QED
    BY <2>1, ElementOfSeq
<1>2. PICK t : t = <<s[1], s[2]>>
  OBVIOUS
<1>3. /\ t \in Seq(S) /\ Len(t) = 2 /\ t[1] = s[1] /\ t[2] = s[2]
  BY <1>1, <1>2
<1>4. ASSUME NEW i \in 1..Len(s) PROVE s[i] = t[i]
  <2>1. i = 1 \/ i = 2
    OBVIOUS
  <2>2. QED
    BY <1>3, <2>1
<1>5. s = t
  BY <1>3, <1>4, SeqEqual
<1>6. QED
  BY <1>2, <1>5

\* Two sequences of one element make one of two.
LEMMA TwoElements ==
  ASSUME NEW x, NEW y
  PROVE  <<x>> \o <<y>> = <<x, y>>
<1>1. PICK s : s = <<x>> \o <<y>>
  OBVIOUS
<1> DEFINE S == {x, y}
<1>2. <<x>> \in Seq(S) /\ <<y>> \in Seq(S) /\ Len(<<x>>) = 1 /\ Len(<<y>>) = 1
      /\ <<x>>[1] = x /\ <<y>>[1] = y
  OBVIOUS
<1> HIDE DEF S
<1>3. /\ s \in Seq(S) /\ Len(s) = 2
      /\ \A k \in 1..2 : s[k] = IF k <= 1 THEN <<x>>[k] ELSE <<y>>[k - 1]
  <2>1. \A a, b \in Seq(S) :
          /\ a \o b \in Seq(S) /\ Len(a \o b) = Len(a) + Len(b)
          /\ \A k \in 1..(Len(a) + Len(b)) :
               (a \o b)[k] = IF k <= Len(a) THEN a[k] ELSE b[k - Len(a)]
    BY ConcatProperties
  <2>2. /\ s \in Seq(S) /\ Len(s) = Len(<<x>>) + Len(<<y>>)
        /\ \A k \in 1..(Len(<<x>>) + Len(<<y>>)) :
             s[k] = IF k <= Len(<<x>>) THEN <<x>>[k] ELSE <<y>>[k - Len(<<x>>)]
    BY Zenon, <1>1, <1>2, <2>1
  <2>3. 1 + 1 = 2
    OBVIOUS
  <2>4. QED
    BY Zenon, <1>2, <2>2, <2>3
<1>4. s[1] = x /\ s[2] = y
  <2>1. 1 \in 1..2 /\ 2 \in 1..2 /\ 1 <= 1 /\ ~ (2 <= 1) /\ 2 - 1 = 1
    OBVIOUS
  <2>2. QED
    BY <1>2, <1>3, <2>1
<1>5. s = <<s[1], s[2]>>
  BY <1>3, LengthTwo
<1>6. QED
  BY Zenon, <1>1, <1>4, <1>5

\* The shots of two neighbouring cards.
LEMMA TwoCards ==
  ASSUME NEW list \in Seq(CardType), NEW i \in 1..Len(list), i + 1 \in 1..Len(list)
  PROVE  AllShots(SubSeq(list, i, i + 1)) = list[i].shots \o list[i + 1].shots
<1>1. i + 1 \in i..Len(list) /\ (i + 1) - i + 1 = 2 /\ i \in Int
      /\ i + 1 - 1 = i /\ i + 2 - 1 = i + 1
  OBVIOUS
<1>2. PICK s : s = SubSeq(list, i, i + 1)
  OBVIOUS
<1>3. /\ s \in Seq(CardType) /\ Len(s) = (i + 1) - i + 1
      /\ \A k \in 1..((i + 1) - i + 1) : s[k] = list[i + k - 1]
  BY <1>1, <1>2, MiddleFacts
<1>4. s[1] = list[i] /\ s[2] = list[i + 1] /\ Len(s) = 2
  <2>1. 1 \in 1..2 /\ 2 \in 1..2
    OBVIOUS
  <2>2. \A k \in 1..2 : s[k] = list[i + k - 1]
    BY Zenon, <1>1, <1>3
  <2>3. Len(s) = 2
    BY Zenon, <1>1, <1>3
  <2>4. s[1] = list[i + 1 - 1] /\ s[2] = list[i + 2 - 1]
    BY Zenon, <2>1, <2>2
  <2>5. QED
    BY Zenon, <1>1, <2>3, <2>4
<1>5. s = <<list[i]>> \o <<list[i + 1]>>
  <2>1. \A x, y : <<x>> \o <<y>> = <<x, y>>
    BY TwoElements
  <2>2. s = <<s[1], s[2]>>
    BY <1>3, <1>4, LengthTwo
  <2>3. QED
    BY Zenon, <1>4, <2>1, <2>2
<1>6. list[i] \in CardType /\ list[i + 1] \in CardType
  OBVIOUS
<1>7. list[i].shots \in Seq(ShotIds) /\ list[i + 1].shots \in Seq(ShotIds)
  BY <1>6, PartsShots DEF Shots
<1>8. <<list[i]>> \in Seq(CardType) /\ <<list[i + 1]>> \in Seq(CardType)
  BY <1>6
<1>9. AllShots(s) = AllShots(<<list[i]>>) \o AllShots(<<list[i + 1]>>)
  BY <1>5, <1>8, PartsShots, AllShotsConcat
<1>10. AllShots(<<list[i]>>) = list[i].shots
  BY <1>7, AllShotsOne
<1>11. AllShots(<<list[i + 1]>>) = list[i + 1].shots
  BY <1>7, AllShotsOne
<1>12. QED
  BY Zenon, <1>2, <1>9, <1>10, <1>11

\* linkGroups: two cards of one shot each become a pair.
LEMMA LinkStep ==
  ASSUME RegroupInv, NEW i \in DOMAIN cards, i < Len(cards), Link(i)
  PROVE  RegroupInv' /\ AllShots(cards') = AllShots(cards) /\ Shown \subseteq Shown'
<1> DEFINE Pr == <<cards[i].shots[1], cards[i + 1].shots[1]>>
           Ps == Children(cards[i]) \o Children(cards[i + 1])
           M(u, p) == [uuid |-> u, shots |-> u, parts |-> p, kind |-> "pair"]
           F(id, st) == [x \in {id} |-> st]
<1>1. /\ Len(cards[i].shots) = 1 /\ Len(cards[i + 1].shots) = 1
      /\ UNCHANGED <<task, polls, held>>
      /\ cards' = Spliced(i, i + 1, <<M(Pr, Ps)>>)
      /\ statuses' = Restated({cards[i].uuid, cards[i + 1].uuid}, F(Pr, Combined(PartStatuses(Ps))))
  BY DEF Link
<1>2. cards \in Seq(CardType) /\ Len(cards) \in Nat /\ DOMAIN cards = 1..Len(cards)
  BY DEF RegroupInv, Types
<1>3. /\ i \in 1..Len(cards) /\ i + 1 \in i..Len(cards) /\ i + 1 \in 1..Len(cards)
      /\ i \in i..(i + 1) /\ i + 1 \in i..(i + 1)
      /\ \A k \in i..(i + 1) : k = i \/ k = i + 1
      /\ i + 1 \in DOMAIN cards
  BY <1>2
<1> HIDE DEF M, F
<1>4. PICK pair : pair = Pr
  OBVIOUS
<1>5. PICK parts : parts = Ps
  OBVIOUS
<1>6. PICK card : card = M(pair, parts)
  OBVIOUS
<1>7. PICK status : status = Combined(PartStatuses(parts))
  OBVIOUS
<1>8. PICK c1 : c1 = cards[i]
  OBVIOUS
<1>9. PICK c2 : c2 = cards[i + 1]
  OBVIOUS
<1>10. /\ cards' = Spliced(i, i + 1, <<card>>)
       /\ statuses' = Restated({c1.uuid, c2.uuid}, F(pair, status))
  BY Zenon, <1>1, <1>4, <1>5, <1>6, <1>7, <1>8, <1>9
<1>11. /\ card = [uuid |-> pair, shots |-> pair, parts |-> parts, kind |-> "pair"]
       /\ card.uuid = pair /\ card.shots = pair /\ card.parts = parts /\ card.kind = "pair"
  BY <1>6 DEF M
<1>12. /\ c1.shots \in Seq(ShotIds) /\ c2.shots \in Seq(ShotIds)
       /\ Len(c1.shots) = 1 /\ Len(c2.shots) = 1
  BY <1>1, <1>3, <1>8, <1>9, CardFacts
<1>13. PICK p1 : p1 = Children(c1)
  OBVIOUS
<1>14. PICK p2 : p2 = Children(c2)
  OBVIOUS
<1>15. /\ p1 \in Seq(Part) /\ p1 # <<>> /\ \A k \in 1..Len(p1) : PartFit(p1[k])
       /\ AllShots(p1) = c1.shots /\ statuses[c1.uuid].videos \subseteq PartVideos(p1)
  BY <1>8, <1>13, ChildrenFacts
<1>16. /\ p2 \in Seq(Part) /\ p2 # <<>> /\ \A k \in 1..Len(p2) : PartFit(p2[k])
       /\ AllShots(p2) = c2.shots /\ statuses[c2.uuid].videos \subseteq PartVideos(p2)
  BY <1>3, <1>9, <1>14, ChildrenFacts
<1>17. parts = p1 \o p2
  BY Zenon, <1>5, <1>8, <1>9, <1>13, <1>14
<1>18. parts \in Seq(Part) /\ DOMAIN parts = 1..Len(parts) /\ \A k \in 1..Len(parts) : PartFit(parts[k])
  <2>1. parts \in Seq(Part) /\ \A k \in 1..Len(parts) : PartFit(parts[k])
    BY <1>15, <1>16, <1>17, PartsFitConcat
  <2>2. QED
    BY <2>1
<1>19. PartVideos(parts) = PartVideos(p1) \cup PartVideos(p2)
  BY <1>15, <1>16, <1>17, PartVideosConcat
<1>20. AllShots(parts) = c1.shots \o c2.shots
  BY <1>15, <1>16, <1>17, PartsShots, AllShotsConcat
<1>21. pair = c1.shots \o c2.shots
  <2>1. \A x, y : <<x>> \o <<y>> = <<x, y>>
    BY TwoElements
  <2>2. c1.shots = <<c1.shots[1]>>
    BY <1>12, LengthOne
  <2>3. c2.shots = <<c2.shots[1]>>
    BY <1>12, LengthOne
  <2>4. QED
    BY Zenon, <1>4, <1>8, <1>9, <2>1, <2>2, <2>3
<1>22. /\ pair = <<c1.shots[1], c2.shots[1]>> /\ pair \in Uuids /\ pair \in Seq(ShotIds)
       /\ Len(pair) = 2 /\ pair # <<>> /\ pair[1] = c1.shots[1]
  <2>1. c1.shots[1] \in ShotIds /\ c2.shots[1] \in ShotIds
    BY <1>12
  <2>2. pair = <<c1.shots[1], c2.shots[1]>>
    BY <1>4, <1>8, <1>9
  <2>3. QED
    BY <2>1, <2>2 DEF Uuids
<1>23. card \in CardType
  BY <1>11, <1>18, <1>22 DEF CardType
<1>24. Whole(card)
  <2>1. \A m \in 1..Len(parts) : parts[m].shots = <<parts[m].shots[1]>>
    <3>1. ASSUME NEW m \in 1..Len(parts) PROVE parts[m].shots = <<parts[m].shots[1]>>
      <4>1. parts[m].shots = parts[m].uuid /\ parts[m].uuid = <<parts[m].uuid[1]>>
        BY <1>18 DEF PartFit
      <4>2. QED
        BY Zenon, <4>1
    <3>2. QED
      BY <3>1
  <2>2. Len(AllShots(parts)) = Len(parts)
    BY <1>18, <2>1, PartsShots, OneShotEach
  <2>3. Len(parts) > 1
    <3>1. Len(parts) = 2
      BY Zenon, <1>20, <1>21, <1>22, <2>2
    <3>2. QED
      BY <3>1
  <2>4. card.kind # "single" /\ card.shots = AllShots(card.parts)
    BY <1>11, <1>20, <1>21
  <2>5. Len(card.parts) > 1 /\ \A k \in DOMAIN card.parts : PartFit(card.parts[k])
    BY <1>11, <1>18, <2>3
  <2>6. card.shots # <<>> /\ card.uuid[1] = card.shots[1]
    BY <1>11, <1>22
  <2>7. QED
    BY <2>4, <2>5, <2>6 DEF Whole
<1>25. card.shots = AllShots(SubSeq(cards, i, i + 1))
  <2>1. AllShots(SubSeq(cards, i, i + 1)) = cards[i].shots \o cards[i + 1].shots
    BY <1>2, <1>3, TwoCards
  <2>2. QED
    BY Zenon, <1>8, <1>9, <1>11, <1>21, <2>1
<1>26. /\ status \in Status /\ Picked(status) /\ status.videos = PartVideos(parts)
  <2>1. PICK list : list = PartStatuses(parts)
    OBVIOUS
  <2>2. \A k \in 1..Len(parts) : parts[k].status \in Status /\ Picked(parts[k].status)
    <3>1. ASSUME NEW k \in 1..Len(parts) PROVE parts[k].status \in Status /\ Picked(parts[k].status)
      <4>1. parts[k] \in Part
        BY <1>18
      <4>2. QED
        BY <1>18, <4>1, PartType DEF PartFit
    <3>2. QED
      BY <3>1
  <2>3. list \in Seq(Status) /\ DOMAIN list = 1..Len(parts) /\ \A k \in 1..Len(parts) : list[k] = parts[k].status
    BY <1>18, <2>1, <2>2 DEF PartStatuses
  <2>4. \A k \in DOMAIN list : Picked(list[k])
    BY <2>2, <2>3
  <2>5. UNION {list[k].videos : k \in DOMAIN list} = PartVideos(parts)
    BY <1>18, <2>3 DEF PartVideos
  <2>6. QED
    BY <1>7, <2>1, <2>3, <2>4, <2>5, CombinedFacts
<1>27. \A k \in i..(i + 1) : statuses[cards[k].uuid].videos \subseteq status.videos
  BY <1>3, <1>8, <1>9, <1>15, <1>16, <1>19, <1>26
<1>28. {c1.uuid, c2.uuid} = {cards[k].uuid : k \in i..(i + 1)}
  BY <1>3, <1>8, <1>9
<1>29. statuses' = Restated({cards[k].uuid : k \in i..(i + 1)}, [id \in {card.uuid} |-> status])
  BY Zenon, <1>10, <1>11, <1>28 DEF F
<1>31. Joined(i, i + 1, card, status)
  BY Zenon, <1>1, <1>3, <1>10, <1>23, <1>24, <1>25, <1>26, <1>27, <1>29 DEF Joined
<1>32. QED
  BY <1>31, JoinStep

\* Dropping an empty range drops no shot.
LEMMA KeptFacts ==
  ASSUME NEW S, NEW s \in Seq(S)
  PROVE  /\ Kept(s) \in Seq(Seq(S) \ {<<>>}) /\ Kept(s) \in Seq(Seq(S))
         /\ FlattenSeq(Kept(s)) = s
<1>1. CASE s = <<>>
  <2>1. Kept(s) = <<>>
    BY <1>1 DEF Kept
  <2>2. <<>> \in Seq(Seq(S) \ {<<>>}) /\ <<>> \in Seq(Seq(S))
    OBVIOUS
  <2>3. QED
    BY Zenon, <1>1, <2>1, <2>2, FlattenEmpty
<1>2. CASE s # <<>>
  <2>1. Kept(s) = <<s>>
    BY <1>2 DEF Kept
  <2>2. \A X : \A x \in X : <<x>> \in Seq(X)
    OBVIOUS
  <2>3. s \in Seq(S) \ {<<>>}
    BY <1>2
  <2>4. <<s>> \in Seq(Seq(S) \ {<<>>}) /\ <<s>> \in Seq(Seq(S))
    BY Zenon, <2>2, <2>3
  <2>5. FlattenSeq(<<s>>) = s
    BY FlattenSingle
  <2>6. QED
    BY Zenon, <2>1, <2>4, <2>5
<1>3. QED
  BY <1>1, <1>2

\* The ranges around a shot taken out of a card flatten to the shots of the card.
LEMMA PartitionedFacts ==
  ASSUME NEW S, NEW s \in Seq(S), NEW k \in 1..Len(s)
  PROVE  /\ Partitioned(s, k) \in Seq(Seq(S) \ {<<>>}) /\ Partitioned(s, k) \in Seq(Seq(S))
         /\ FlattenSeq(Partitioned(s, k)) = s
<1> DEFINE D == Seq(S) \ {<<>>}
<1>1. PICK a : a = SubSeq(s, 1, k - 1)
  OBVIOUS
<1>2. PICK b : b = <<s[k]>>
  OBVIOUS
<1>3. PICK c : c = SubSeq(s, k + 1, Len(s))
  OBVIOUS
<1>4. a \in Seq(S)
  <2>1. k \in 1..(Len(s) + 1)
    OBVIOUS
  <2>2. QED
    BY <1>1, <2>1, PrefixFacts
<1>5. b \in Seq(S)
  <2>1. s[k] \in S
    BY ElementOfSeq
  <2>2. QED
    BY <1>2, <2>1
<1>6. c \in Seq(S)
  <2>1. k \in 0..Len(s)
    OBVIOUS
  <2>2. QED
    BY <1>3, <2>1, SuffixFacts
<1>7. s = (a \o b) \o c
  BY Zenon, <1>1, <1>2, <1>3, AroundOne
<1>8. Partitioned(s, k) = (Kept(a) \o Kept(b)) \o Kept(c)
  BY Zenon, <1>1, <1>2, <1>3 DEF Partitioned
<1>9. /\ Kept(a) \in Seq(D) /\ Kept(a) \in Seq(Seq(S)) /\ FlattenSeq(Kept(a)) = a
  BY <1>4, KeptFacts
<1>10. /\ Kept(b) \in Seq(D) /\ Kept(b) \in Seq(Seq(S)) /\ FlattenSeq(Kept(b)) = b
  BY <1>5, KeptFacts
<1>11. /\ Kept(c) \in Seq(D) /\ Kept(c) \in Seq(Seq(S)) /\ FlattenSeq(Kept(c)) = c
  BY <1>6, KeptFacts
<1> HIDE DEF D
<1>12. \A X : \A x, y \in Seq(X) : x \o y \in Seq(X)
  BY ConcatProperties
<1>13. /\ (Kept(a) \o Kept(b)) \o Kept(c) \in Seq(D)
       /\ (Kept(a) \o Kept(b)) \o Kept(c) \in Seq(Seq(S))
       /\ Kept(a) \o Kept(b) \in Seq(Seq(S))
  BY Zenon, <1>9, <1>10, <1>11, <1>12
<1>14. \A x, y \in Seq(Seq(S)) : FlattenSeq(x \o y) = FlattenSeq(x) \o FlattenSeq(y)
  BY FlattenConcat
<1>15. FlattenSeq((Kept(a) \o Kept(b)) \o Kept(c)) = (a \o b) \o c
  <2>1. FlattenSeq(Kept(a) \o Kept(b)) = a \o b
    BY Zenon, <1>9, <1>10, <1>14
  <2>2. FlattenSeq((Kept(a) \o Kept(b)) \o Kept(c)) =
          FlattenSeq(Kept(a) \o Kept(b)) \o FlattenSeq(Kept(c))
    BY Zenon, <1>11, <1>13, <1>14
  <2>3. QED
    BY Zenon, <1>11, <2>1, <2>2
<1>16. QED
  BY Zenon, <1>7, <1>8, <1>13, <1>15 DEF D

\* A card made of a range of parts.
LEMMA RebuiltFacts ==
  ASSUME NEW range \in Seq(Part), range # <<>>, \A k \in 1..Len(range) : PartFit(range[k])
  PROVE  /\ Rebuilt(range) \in CardType /\ Whole(Rebuilt(range))
         /\ Rebuilt(range).shots = AllShots(range)
<1>1. /\ Len(range) \in Nat \ {0} /\ DOMAIN range = 1..Len(range) /\ 1 \in 1..Len(range)
  BY EmptySeq
<1>2. range[1] \in Part /\ PartFit(range[1])
  BY <1>1, ElementOfSeq
<1>3. range[1].uuid \in Uuids /\ range[1].shots \in Seq(ShotIds)
  BY <1>2, PartType
<1>4. range[1].shots = range[1].uuid /\ range[1].uuid = <<range[1].uuid[1]>>
  BY <1>2 DEF PartFit
<1>5. CASE Len(range) = 1
  <2>1. Rebuilt(range) = Single(range[1])
    BY <1>5 DEF Rebuilt
  <2>2. /\ Single(range[1]) \in CardType /\ Whole(Single(range[1]))
        /\ Single(range[1]).shots = range[1].shots
    BY <1>2, SingleFacts
  <2>3. range = <<range[1]>>
    BY <1>5, LengthOne
  <2>4. AllShots(<<range[1]>>) = range[1].shots
    BY <1>3, AllShotsOne
  <2>5. AllShots(range) = range[1].shots
    BY Zenon, <2>3, <2>4
  <2>7. QED
    BY <2>1, <2>2, <2>5
<1>6. CASE Len(range) # 1
  <2> DEFINE c == [uuid |-> range[1].uuid, shots |-> AllShots(range), parts |-> range,
                   kind |-> "merged"]
  <2>1. Rebuilt(range) = c
    BY <1>6 DEF Rebuilt
  <2>2. AllShots(range) \in Seq(ShotIds)
    BY PartsShots, AllShotsType
  <2>3. /\ c.uuid = range[1].uuid /\ c.shots = AllShots(range) /\ c.parts = range
        /\ c.kind = "merged" /\ c \in CardType
    BY <1>3, <2>2 DEF CardType
  <2> HIDE DEF c
  <2>4. range[1].shots # <<>>
    <3>1. \A y : <<y>> # <<>>
      OBVIOUS
    <3>2. QED
      BY Zenon, <1>4, <3>1
  <2>5. AllShots(range) # <<>> /\ AllShots(range)[1] = range[1].shots[1]
    BY <1>1, <2>4, PartsShots, FirstShot
  <2>6. c.shots # <<>> /\ c.uuid[1] = c.shots[1]
    BY <1>4, <2>3, <2>5
  <2>7. /\ Len(c.parts) > 1 /\ c.shots = AllShots(c.parts) /\ c.kind # "single"
        /\ \A k \in DOMAIN c.parts : PartFit(c.parts[k])
    BY <1>1, <1>6, <2>3
  <2>8. Whole(c)
    BY <2>6, <2>7 DEF Whole
  <2>9. QED
    BY <2>1, <2>3, <2>8
<1>7. QED
  BY <1>5, <1>6

\* removeShotFromMergedCard: the ranges of parts before, at and after the shot become cards.
LEMMA RemoveShotStep ==
  ASSUME RegroupInv, NEW i \in DOMAIN cards, NEW k \in DOMAIN cards[i].parts, RemoveShot(i, k)
  PROVE  RegroupInv' /\ AllShots(cards') = AllShots(cards) /\ Shown \subseteq Shown'
<1> DEFINE Q == WithExtra(cards[i].parts, statuses[cards[i].uuid])
           St(rs) == [r \in DOMAIN rs |-> Combined(PartStatuses(rs[r]))]
           L(rs) == [r \in DOMAIN rs |-> Rebuilt(rs[r])]
           K(rs) == {r \in DOMAIN rs : Combined(PartStatuses(rs[r])) # Absent}
           F(rs, reb, kn) == [id \in {reb[r].uuid : r \in kn} |->
              Combined(PartStatuses(rs[CHOOSE r \in kn : reb[r].uuid = id]))]
<1>1. /\ cards[i].kind = "merged" /\ UNCHANGED <<task, polls, held>>
      /\ cards' = Spliced(i, i, L(Partitioned(Q, k)))
      /\ statuses' = Restated({cards[i].uuid},
           F(Partitioned(Q, k), L(Partitioned(Q, k)), K(Partitioned(Q, k))))
  BY DEF RemoveShot
<1>2. PICK parts : parts = Q
  OBVIOUS
<1>3. /\ parts \in Seq(Part) /\ parts # <<>> /\ DOMAIN parts = 1..Len(parts)
      /\ \A m \in 1..Len(parts) : PartFit(parts[m])
      /\ AllShots(parts) = cards[i].shots /\ IsInjective(AllShots(parts))
      /\ statuses[cards[i].uuid].videos \subseteq PartVideos(parts)
  BY <1>1, <1>2, OwnParts
<1>4. k \in 1..Len(parts)
  <2>1. /\ cards[i].parts \in Seq(Part) /\ statuses[cards[i].uuid] \in Status
        /\ Whole(cards[i])
    BY CardFacts
  <2>2. DOMAIN cards[i].parts = 1..Len(cards[i].parts) /\ Len(cards[i].parts) \in Nat
    BY <2>1
  <2>3. DOMAIN Q = DOMAIN cards[i].parts
    BY DEF WithExtra
  <2>4. QED
    BY <1>2, <1>3, <2>3
<1> HIDE DEF Q, St, L, K, F
<1>5. PICK ranges : ranges = Partitioned(parts, k)
  OBVIOUS
<1>6. PICK list : list = L(ranges)
  OBVIOUS
<1>7. PICK known : known = K(ranges)
  OBVIOUS
<1>8. PICK fresh : fresh = F(ranges, list, known)
  OBVIOUS
<1>9. PICK st : st = St(ranges)
  OBVIOUS
<1>10. cards' = Spliced(i, i, list) /\ statuses' = Restated({cards[i].uuid}, fresh)
  BY Zenon, <1>1, <1>2, <1>5, <1>6, <1>7, <1>8
<1>11. /\ ranges \in Seq(Seq(Part) \ {<<>>}) /\ ranges \in Seq(Seq(Part))
       /\ FlattenSeq(ranges) = parts
  BY <1>3, <1>4, <1>5, PartitionedFacts
<1>12. /\ DOMAIN ranges = 1..Len(ranges) /\ Len(ranges) \in Nat
       /\ \A r \in 1..Len(ranges) : ranges[r] \in Seq(Part) /\ ranges[r] # <<>>
  <2>1. \A D : \A s \in Seq(D) : /\ DOMAIN s = 1..Len(s) /\ Len(s) \in Nat
                                 /\ \A r \in 1..Len(s) : s[r] \in D
    BY ElementOfSeq
  <2>2. /\ DOMAIN ranges = 1..Len(ranges) /\ Len(ranges) \in Nat
        /\ \A r \in 1..Len(ranges) : ranges[r] \in Seq(Part) \ {<<>>}
    BY Zenon, <1>11, <2>1
  <2>3. QED
    BY <2>2
<1>13. ToSet(parts) = UNION {ToSet(ranges[r]) : r \in DOMAIN ranges}
  BY <1>11, FlattenElements
<1>14. ASSUME NEW r \in 1..Len(ranges), NEW x \in 1..Len(ranges[r])
       PROVE  PartFit(ranges[r][x])
  <2>1. ranges[r][x] \in ToSet(ranges[r])
    BY <1>12 DEF ToSet
  <2>2. ranges[r][x] \in ToSet(parts)
    BY <1>12, <1>13, <2>1
  <2>3. PICK m \in 1..Len(parts) : ranges[r][x] = parts[m]
    BY <1>3, <2>2 DEF ToSet
  <2>4. QED
    BY <1>3, <2>3
<1>15. ASSUME NEW r \in 1..Len(ranges)
       PROVE  /\ list[r] \in CardType /\ Whole(list[r]) /\ list[r].shots = AllShots(ranges[r])
  <2>1. list[r] = Rebuilt(ranges[r])
    BY <1>6, <1>12 DEF L
  <2>2. ranges[r] \in Seq(Part) /\ ranges[r] # <<>> /\ \A x \in 1..Len(ranges[r]) : PartFit(ranges[r][x])
    BY <1>12, <1>14
  <2>3. QED
    BY <2>1, <2>2, RebuiltFacts
<1>16. list \in Seq(CardType) /\ Len(list) = Len(ranges) /\ DOMAIN list = 1..Len(ranges)
  <2>1. list = [r \in 1..Len(ranges) |-> Rebuilt(ranges[r])]
    BY <1>6, <1>12 DEF L
  <2>2. \A r \in 1..Len(ranges) : list[r] \in CardType
    BY <1>15
  <2>3. list \in [1..Len(ranges) -> CardType]
    BY <2>1, <2>2
  <2>4. QED
    BY <1>12, <2>3
<1>17. AllShots(list) = cards[i].shots
  <2>1. [r \in DOMAIN list |-> list[r].shots] = [r \in DOMAIN ranges |-> AllShots(ranges[r])]
    BY <1>12, <1>15, <1>16
  <2>2. AllShots(list) = FlattenSeq([r \in DOMAIN ranges |-> AllShots(ranges[r])])
    BY Zenon, <2>1 DEF AllShots
  <2>3. AllShots(FlattenSeq(ranges)) = FlattenSeq([r \in DOMAIN ranges |-> AllShots(ranges[r])])
    BY <1>11, PartsShots, AllShotsFlatten
  <2>4. QED
    BY Zenon, <1>3, <1>11, <2>2, <2>3
<1>18. ASSUME NEW r \in 1..Len(ranges)
       PROVE  /\ st[r] = Combined(PartStatuses(ranges[r]))
              /\ st[r] \in Status /\ Picked(st[r]) /\ st[r].videos = PartVideos(ranges[r])
  <2>1. st[r] = Combined(PartStatuses(ranges[r]))
    BY <1>9, <1>12 DEF St
  <2>2. PICK s : s = PartStatuses(ranges[r])
    OBVIOUS
  <2>3. ranges[r] \in Seq(Part) /\ DOMAIN ranges[r] = 1..Len(ranges[r])
    BY <1>12
  <2>4. \A x \in 1..Len(ranges[r]) : ranges[r][x].status \in Status /\ Picked(ranges[r][x].status)
    <3>1. ASSUME NEW x \in 1..Len(ranges[r])
          PROVE  ranges[r][x].status \in Status /\ Picked(ranges[r][x].status)
      <4>1. ranges[r][x] \in Part
        BY <2>3, ElementOfSeq
      <4>2. PartFit(ranges[r][x])
        BY <1>14
      <4>3. QED
        BY <4>1, <4>2, PartType DEF PartFit
    <3>2. QED
      BY <3>1
  <2>5. /\ s \in Seq(Status) /\ DOMAIN s = 1..Len(ranges[r])
        /\ \A x \in 1..Len(ranges[r]) : s[x] = ranges[r][x].status
    BY <2>2, <2>3, <2>4 DEF PartStatuses
  <2>6. \A x \in DOMAIN s : Picked(s[x])
    BY <2>4, <2>5
  <2>7. UNION {s[x].videos : x \in DOMAIN s} = PartVideos(ranges[r])
    BY <2>3, <2>5 DEF PartVideos
  <2>8. QED
    BY <2>1, <2>2, <2>5, <2>6, <2>7, CombinedFacts
<1>19. known = {r \in 1..Len(ranges) : st[r] # Absent}
  BY <1>7, <1>12, <1>18 DEF K
<1>20. ASSUME NEW r \in 1..Len(ranges), NEW q \in 1..Len(ranges), list[r].uuid = list[q].uuid
       PROVE  r = q
  <2>1. IsInjective(AllShots(list))
    BY <1>17, CardInjective
  <2>2. Rooted(list[r]) /\ Rooted(list[q])
    BY <1>15, WholeRooted
  <2>3. r \in 1..Len(list) /\ q \in 1..Len(list) /\ list[r].uuid[1] = list[q].uuid[1]
    BY <1>16, <1>20
  <2>4. QED
    BY <1>16, <2>1, <2>2, <2>3, Distinct
<1>21. DOMAIN fresh = {list[r].uuid : r \in known}
  BY <1>8 DEF F
<1>22. ASSUME NEW r \in known
       PROVE  list[r].uuid \in DOMAIN fresh /\ fresh[list[r].uuid] = st[r] /\ r \in 1..Len(ranges)
  <2> DEFINE h == CHOOSE x \in known : list[x].uuid = list[r].uuid
  <2>1. r \in 1..Len(ranges) /\ list[r].uuid \in DOMAIN fresh
    BY <1>19, <1>21
  <2>2. h \in known /\ list[h].uuid = list[r].uuid
    OBVIOUS
  <2>3. fresh[list[r].uuid] = Combined(PartStatuses(ranges[h]))
    BY <1>8, <1>21, <2>1 DEF F
  <2> HIDE DEF h
  <2>4. h = r
    BY <1>19, <1>20, <2>1, <2>2
  <2>5. QED
    BY <1>18, <2>1, <2>3, <2>4
<1>23. ASSUME NEW id \in DOMAIN fresh
       PROVE  /\ id \in {list[m].uuid : m \in 1..Len(list)}
              /\ fresh[id] \in Status /\ Picked(fresh[id])
  <2>1. PICK r \in known : id = list[r].uuid
    BY <1>21
  <2>2. QED
    BY <1>16, <1>18, <1>22, <2>1
<1>24. PICK gone : gone = {cards[i].uuid}
  OBVIOUS
<1>25. ASSUME NEW v \in statuses[cards[i].uuid].videos
       PROVE  \E m \in 1..Len(list) : v \in statuses'[list[m].uuid].videos
  <2>1. PICK x \in DOMAIN parts : v \in parts[x].status.videos
    BY <1>3 DEF PartVideos
  <2>2. parts[x] \in ToSet(parts)
    BY DEF ToSet
  <2>3. PICK r \in 1..Len(ranges) : parts[x] \in ToSet(ranges[r])
    BY <1>12, <1>13, <2>2
  <2>4. PICK y \in DOMAIN ranges[r] : parts[x] = ranges[r][y]
    BY <2>3 DEF ToSet
  <2>5. v \in PartVideos(ranges[r])
    BY <2>1, <2>4 DEF PartVideos
  <2>6. v \in st[r].videos
    BY <1>18, <2>5
  <2>7. r \in known
    BY <1>19, <2>6, AbsentStatus
  <2>8. list[r].uuid \in DOMAIN fresh /\ v \in fresh[list[r].uuid].videos
    BY <1>22, <2>6, <2>7
  <2>9. list[r].uuid \in Uuids
    <3>1. list[r] \in CardType
      BY <1>15
    <3>2. QED
      BY <3>1 DEF CardType
  <2>10. statuses'[list[r].uuid].videos = fresh[list[r].uuid].videos
    <3>1. \A id \in DOMAIN fresh : fresh[id] \in Status /\ Picked(fresh[id])
      BY <1>23
    <3>2. \A id \in Uuids : id \in DOMAIN fresh =>
            Restated(gone, fresh)[id].videos = fresh[id].videos
      BY <3>1, RestatedFacts
    <3>3. statuses' = Restated(gone, fresh)
      BY <1>10, <1>24
    <3>4. QED
      BY Zenon, <2>8, <2>9, <3>2, <3>3
  <2>11. QED
    BY <1>16, <2>8, <2>10
<1>27. i \in 1..Len(cards) /\ i \in i..Len(cards) /\ \A x : x \in i..i <=> x = i
  BY CardFacts
<1>28. gone = {cards[x].uuid : x \in i..i}
  BY <1>24, <1>27
<1>29. AllShots(list) = AllShots(SubSeq(cards, i, i))
  BY <1>17, OneCard
<1>30. Replacement(i, i, list, gone, fresh)
  <2>1. DOMAIN fresh \subseteq {list[m].uuid : m \in 1..Len(list)}
    BY <1>23
  <2>2. \A id \in DOMAIN fresh : fresh[id] \in Status /\ Picked(fresh[id])
    BY <1>23
  <2>4. \A m \in 1..Len(list) : Whole(list[m])
    BY <1>15, <1>16
  <2>5. statuses' = Restated(gone, fresh)
    BY <1>10, <1>24
  <2>6. QED
    BY Zenon, <1>1, <1>10, <1>16, <1>27, <1>28, <1>29, <2>1, <2>2, <2>4, <2>5 DEF Replacement
<1>31. StillShown(i, i, list)
  <2>1. ASSUME NEW x \in i..i, NEW v \in statuses[cards[x].uuid].videos
        PROVE  \E m \in 1..Len(list) : v \in statuses'[list[m].uuid].videos
    <3>1. x = i
      BY <1>27
    <3>2. QED
      BY <1>25, <2>1, <3>1
  <2>2. QED
    BY <2>1 DEF StillShown
<1>32. QED
  BY <1>30, <1>31, RegroupStep

-----------------------------------------------------------------------------
(***************************************************************************)
(* Cards that come and go.                                                  *)
(***************************************************************************)
LEMMA ToSetConcat ==
  ASSUME NEW S, NEW a \in Seq(S), NEW b \in Seq(S)
  PROVE  ToSet(a \o b) = ToSet(a) \cup ToSet(b)
<1> DEFINE r == a \o b
<1>1. /\ r \in Seq(S) /\ Len(r) = Len(a) + Len(b) /\ Len(a) \in Nat /\ Len(b) \in Nat
      /\ \A k \in 1..(Len(a) + Len(b)) : r[k] = IF k <= Len(a) THEN a[k] ELSE b[k - Len(a)]
      /\ DOMAIN a = 1..Len(a) /\ DOMAIN b = 1..Len(b)
  BY ConcatProperties
<1> HIDE DEF r
<1>2. DOMAIN r = 1..(Len(a) + Len(b))
  BY <1>1
<1>3. ASSUME NEW x \in ToSet(r) PROVE x \in ToSet(a) \cup ToSet(b)
  <2>1. PICK k \in 1..(Len(a) + Len(b)) : x = r[k]
    BY <1>2 DEF ToSet
  <2>2. CASE k <= Len(a)
    <3>1. k \in DOMAIN a /\ x = a[k]
      BY <1>1, <2>1, <2>2
    <3>2. QED
      BY <3>1 DEF ToSet
  <2>3. CASE ~ (k <= Len(a))
    <3>1. k - Len(a) \in DOMAIN b /\ x = b[k - Len(a)]
      BY <1>1, <2>1, <2>3
    <3>2. QED
      BY <3>1 DEF ToSet
  <2>4. QED
    BY <2>2, <2>3
<1>4. ASSUME NEW x \in ToSet(a) PROVE x \in ToSet(r)
  <2>1. PICK k \in 1..Len(a) : x = a[k]
    BY <1>1 DEF ToSet
  <2>2. k \in DOMAIN r /\ r[k] = x
    BY <1>1, <1>2, <2>1
  <2>3. QED
    BY <2>2 DEF ToSet
<1>5. ASSUME NEW x \in ToSet(b) PROVE x \in ToSet(r)
  <2>1. PICK k \in 1..Len(b) : x = b[k]
    BY <1>1 DEF ToSet
  <2>2. Len(a) + k \in DOMAIN r /\ r[Len(a) + k] = x
    BY <1>1, <1>2, <2>1
  <2>3. QED
    BY <2>2 DEF ToSet
<1>6. QED
  BY <1>3, <1>4, <1>5 DEF r

\* A concatenation repeats nothing when neither half does and they share nothing.
LEMMA InjectiveConcat ==
  ASSUME NEW S, NEW a \in Seq(S), NEW b \in Seq(S)
  PROVE  IsInjective(a \o b) <=>
           IsInjective(a) /\ IsInjective(b) /\ ToSet(a) \cap ToSet(b) = {}
<1> DEFINE r == a \o b
<1>1. /\ r \in Seq(S) /\ Len(r) = Len(a) + Len(b) /\ Len(a) \in Nat /\ Len(b) \in Nat
      /\ \A k \in 1..(Len(a) + Len(b)) : r[k] = IF k <= Len(a) THEN a[k] ELSE b[k - Len(a)]
      /\ DOMAIN a = 1..Len(a) /\ DOMAIN b = 1..Len(b)
  BY ConcatProperties
<1> HIDE DEF r
<1>2. DOMAIN r = 1..(Len(a) + Len(b))
  BY <1>1
<1>3. /\ \A k \in 1..Len(a) : k \in DOMAIN r /\ r[k] = a[k]
      /\ \A k \in 1..Len(b) : Len(a) + k \in DOMAIN r /\ r[Len(a) + k] = b[k]
  <2>1. ASSUME NEW k \in 1..Len(a) PROVE k \in DOMAIN r /\ r[k] = a[k]
    BY <1>1, <1>2
  <2>2. ASSUME NEW k \in 1..Len(b) PROVE Len(a) + k \in DOMAIN r /\ r[Len(a) + k] = b[k]
    <3>1. /\ Len(a) + k \in 1..(Len(a) + Len(b)) /\ ~ (Len(a) + k <= Len(a))
          /\ (Len(a) + k) - Len(a) = k
      BY <1>1
    <3>2. QED
      BY <1>1, <1>2, <3>1
  <2>3. QED
    BY <2>1, <2>2
<1>4. ASSUME IsInjective(r)
      PROVE  IsInjective(a) /\ IsInjective(b) /\ ToSet(a) \cap ToSet(b) = {}
  <2>1. IsInjective(a)
    BY <1>1, <1>3, <1>4 DEF IsInjective
  <2>2. ASSUME NEW k \in 1..Len(b), NEW m \in 1..Len(b), b[k] = b[m] PROVE k = m
    <3>1. Len(a) + k = Len(a) + m
      BY <1>3, <1>4, <2>2 DEF IsInjective
    <3>2. QED
      BY <1>1, <3>1
  <2>3. ASSUME NEW k \in 1..Len(a), NEW m \in 1..Len(b), a[k] = b[m] PROVE FALSE
    <3>1. k = Len(a) + m
      BY <1>3, <1>4, <2>3 DEF IsInjective
    <3>2. QED
      BY <1>1, <3>1
  <2>4. QED
    BY <1>1, <2>1, <2>2, <2>3 DEF IsInjective, ToSet
<1>5. ASSUME IsInjective(a), IsInjective(b), ToSet(a) \cap ToSet(b) = {}
      PROVE  IsInjective(r)
  <2>1. \A k \in 1..Len(a), m \in 1..Len(b) : a[k] # b[m]
    BY <1>1, <1>5 DEF ToSet
  <2>2. \A k, m \in 1..Len(a) : a[k] = a[m] => k = m
    BY <1>1, <1>5 DEF IsInjective
  <2>3. \A k, m \in 1..Len(b) : b[k] = b[m] => k = m
    BY <1>1, <1>5 DEF IsInjective
  <2>4. ASSUME NEW k \in DOMAIN r, NEW m \in DOMAIN r, r[k] = r[m] PROVE k = m
    <3>1. k \in 1..(Len(a) + Len(b)) /\ m \in 1..(Len(a) + Len(b))
      BY <1>2
    <3>2. CASE k <= Len(a) /\ m <= Len(a)
      <4>1. k \in 1..Len(a) /\ m \in 1..Len(a) /\ a[k] = a[m]
        BY <1>1, <2>4, <3>1, <3>2
      <4>2. QED
        BY <2>2, <4>1
    <3>3. CASE k <= Len(a) /\ ~ (m <= Len(a))
      <4>1. k \in 1..Len(a) /\ m - Len(a) \in 1..Len(b) /\ a[k] = b[m - Len(a)]
        BY <1>1, <2>4, <3>1, <3>3
      <4>2. QED
        BY <2>1, <4>1
    <3>4. CASE ~ (k <= Len(a)) /\ m <= Len(a)
      <4>1. m \in 1..Len(a) /\ k - Len(a) \in 1..Len(b) /\ a[m] = b[k - Len(a)]
        BY <1>1, <2>4, <3>1, <3>4
      <4>2. QED
        BY <2>1, <4>1
    <3>5. CASE ~ (k <= Len(a)) /\ ~ (m <= Len(a))
      <4>1. /\ k - Len(a) \in 1..Len(b) /\ m - Len(a) \in 1..Len(b)
            /\ b[k - Len(a)] = b[m - Len(a)]
        BY <1>1, <2>4, <3>1, <3>5
      <4>2. k - Len(a) = m - Len(a)
        BY <2>3, <4>1
      <4>3. QED
        BY <1>1, <3>1, <4>2
    <3>6. QED
      BY <3>2, <3>3, <3>4, <3>5
  <2>5. QED
    BY <2>4 DEF IsInjective
<1>6. QED
  BY <1>4, <1>5 DEF r

\* A sequence with something in the middle, and without.
LEMMA InjectiveMiddle ==
  ASSUME NEW S, NEW a \in Seq(S), NEW x \in Seq(S), NEW b \in Seq(S)
  PROVE  /\ IsInjective((a \o x) \o b) <=>
              IsInjective(a \o b) /\ IsInjective(x) /\ ToSet(x) \cap ToSet(a \o b) = {}
         /\ ToSet((a \o x) \o b) = ToSet(a \o b) \cup ToSet(x)
<1>1. PICK y : y = a \o x
  OBVIOUS
<1>2. y \in Seq(S)
  BY <1>1, ConcatProperties
<1>3. IsInjective(y \o b) <=> IsInjective(y) /\ IsInjective(b) /\ ToSet(y) \cap ToSet(b) = {}
  BY <1>2, InjectiveConcat
<1>4. IsInjective(y) <=> IsInjective(a) /\ IsInjective(x) /\ ToSet(a) \cap ToSet(x) = {}
  BY <1>1, InjectiveConcat
<1>5. IsInjective(a \o b) <=> IsInjective(a) /\ IsInjective(b) /\ ToSet(a) \cap ToSet(b) = {}
  BY InjectiveConcat
<1>6. ToSet(y) = ToSet(a) \cup ToSet(x)
  BY <1>1, ToSetConcat
<1>7. ToSet(a \o b) = ToSet(a) \cup ToSet(b)
  BY ToSetConcat
<1>8. ToSet(y \o b) = ToSet(y) \cup ToSet(b)
  BY <1>2, ToSetConcat
<1>9. PICK A : A = ToSet(a)
  OBVIOUS
<1>10. PICK B : B = ToSet(b)
  OBVIOUS
<1>11. PICK X : X = ToSet(x)
  OBVIOUS
<1>12. /\ IsInjective(y \o b) <=> IsInjective(y) /\ IsInjective(b) /\ (A \cup X) \cap B = {}
       /\ IsInjective(y) <=> IsInjective(a) /\ IsInjective(x) /\ A \cap X = {}
       /\ IsInjective(a \o b) <=> IsInjective(a) /\ IsInjective(b) /\ A \cap B = {}
       /\ ToSet(a \o b) = A \cup B /\ ToSet(y \o b) = (A \cup X) \cup B
  BY Zenon, <1>3, <1>4, <1>5, <1>6, <1>7, <1>8, <1>9, <1>10, <1>11
<1>13. /\ ((A \cup X) \cap B = {} /\ A \cap X = {}) <=> (A \cap B = {} /\ X \cap (A \cup B) = {})
       /\ (A \cup X) \cup B = (A \cup B) \cup X
  OBVIOUS
<1>14. QED
  BY Zenon, <1>1, <1>11, <1>12, <1>13

\* The invariant, card by card.
LEMMA CardByCard ==
  ASSUME RegroupInv, Types', NEW new, new = cards', IsInjective(AllShots(new)), UNCHANGED held,
         \A c \in ToSet(new) : Whole(c),
         \A id \in Uuids : Picked(statuses'[id])
  PROVE  RegroupInv'
<1>1. \A p \in DOMAIN cards' : Whole(cards'[p])
  BY DEF ToSet
<1>2. \A c \in held' : IsInjective(AllShots(c)) /\ \A k \in DOMAIN c : Whole(c[k])
  BY HeldFacts
<1>3. QED
  BY <1>1, <1>2 DEF RegroupInv

\* What comes before and after the i-th card, and all of it.
Surrounded(i, before, after) ==
  /\ before \in Seq(CardType) /\ after \in Seq(CardType)
  /\ cards = (before \o <<cards[i]>>) \o after
  /\ <<cards[i]>> \in Seq(CardType) /\ AllShots(<<cards[i]>>) = cards[i].shots
  /\ AllShots(before) \in Seq(ShotIds) /\ AllShots(after) \in Seq(ShotIds)
  /\ AllShots(before \o after) = AllShots(before) \o AllShots(after)
  /\ before \o after \in Seq(CardType)
  /\ AllShots(cards) = (AllShots(before) \o cards[i].shots) \o AllShots(after)

\* The cards before and after card i, and their shots.
LEMMA Surroundings ==
  ASSUME RegroupInv, NEW i \in 1..Len(cards), NEW before, before = SubSeq(cards, 1, i - 1),
         NEW after, after = SubSeq(cards, i + 1, Len(cards))
  PROVE  Surrounded(i, before, after)
<1>1. cards \in Seq(CardType) /\ Len(cards) \in Nat
  BY DEF RegroupInv, Types
<1>2. i \in 1..(Len(cards) + 1) /\ i \in 0..Len(cards)
  BY <1>1
<1>3. before \in Seq(CardType)
  BY <1>1, <1>2, PrefixFacts
<1>4. after \in Seq(CardType)
  BY <1>1, <1>2, SuffixFacts
<1>5. cards = (before \o <<cards[i]>>) \o after
  BY <1>1, AroundOne
<1>6. i \in DOMAIN cards /\ cards[i] \in CardType
  BY <1>1
<1>7. <<cards[i]>> \in Seq(CardType) /\ cards[i].shots \in Seq(ShotIds)
  BY <1>6, CardFacts
<1>8. AllShots(<<cards[i]>>) = cards[i].shots
  BY <1>7, AllShotsOne
<1>9. \A x, y \in Seq(CardType) : /\ x \o y \in Seq(CardType)
                                  /\ AllShots(x \o y) = AllShots(x) \o AllShots(y)
  BY PartsShots, AllShotsConcat, ConcatProperties
<1>10. AllShots((before \o <<cards[i]>>) \o after) =
         (AllShots(before) \o AllShots(<<cards[i]>>)) \o AllShots(after)
  <2>1. before \o <<cards[i]>> \in Seq(CardType)
    BY Zenon, <1>3, <1>7, <1>9
  <2>2. AllShots(before \o <<cards[i]>>) = AllShots(before) \o AllShots(<<cards[i]>>)
    BY Zenon, <1>3, <1>7, <1>9
  <2>3. QED
    BY Zenon, <1>4, <1>9, <2>1, <2>2
<1>11. AllShots(before) \in Seq(ShotIds)
  BY <1>3, PartsShots, AllShotsType
<1>12. AllShots(after) \in Seq(ShotIds)
  BY <1>4, PartsShots, AllShotsType
<1>13. AllShots(cards) = (AllShots(before) \o cards[i].shots) \o AllShots(after)
  BY Zenon, <1>5, <1>8, <1>10
<1>14. QED
  BY Zenon, <1>3, <1>4, <1>5, <1>7, <1>8, <1>9, <1>11, <1>12, <1>13 DEF Surrounded

\* removeTask: the shots of the card are gone.
LEMMA RemoveCardStep ==
  ASSUME RegroupInv, NEW i \in DOMAIN cards, RemoveCard(i)
  PROVE  RegroupInv' /\ ToSet(AllShots(cards')) # ToSet(AllShots(cards))
<1>1. /\ cards \in Seq(CardType) /\ IsInjective(AllShots(cards)) /\ i \in 1..Len(cards)
      /\ DOMAIN cards = 1..Len(cards) /\ Len(cards) \in Nat
  BY DEF RegroupInv, Types
<1>2. PICK before : before = SubSeq(cards, 1, i - 1)
  OBVIOUS
<1>3. PICK after : after = SubSeq(cards, i + 1, Len(cards))
  OBVIOUS
<1>4. PICK new : new = cards'
  OBVIOUS
<1>6. PICK card : card = cards[i]
  OBVIOUS
<1>7. /\ new = before \o after /\ statuses' = Restated({card.uuid}, <<>>)
      /\ UNCHANGED <<task, polls, held>>
  BY <1>2, <1>3, <1>4, <1>6 DEF RemoveCard, RemoveAt
<1>8. /\ before \in Seq(CardType) /\ after \in Seq(CardType)
      /\ cards = (before \o <<card>>) \o after /\ <<card>> \in Seq(CardType)
      /\ AllShots(before) \in Seq(ShotIds) /\ AllShots(after) \in Seq(ShotIds)
      /\ AllShots(new) = AllShots(before) \o AllShots(after)
      /\ new \in Seq(CardType)
      /\ AllShots(cards) = (AllShots(before) \o card.shots) \o AllShots(after)
  <2>1. /\ before \in Seq(CardType) /\ after \in Seq(CardType)
        /\ cards = (before \o <<cards[i]>>) \o after
        /\ <<cards[i]>> \in Seq(CardType) /\ AllShots(<<cards[i]>>) = cards[i].shots
        /\ AllShots(before) \in Seq(ShotIds) /\ AllShots(after) \in Seq(ShotIds)
        /\ AllShots(before \o after) = AllShots(before) \o AllShots(after)
        /\ before \o after \in Seq(CardType)
        /\ AllShots(cards) = (AllShots(before) \o cards[i].shots) \o AllShots(after)
    <3>1. Surrounded(i, before, after)
      BY <1>1, <1>2, <1>3, Surroundings
    <3>2. QED
      BY Zenon, <3>1 DEF Surrounded
  <2>2. QED
    BY Zenon, <1>6, <1>7, <2>1
<1>9. /\ card.shots \in Seq(ShotIds) /\ card.shots # <<>> /\ card.uuid \in Uuids
      /\ card \in CardType
  BY <1>6, CardFacts DEF Whole
<1>10. /\ IsInjective(AllShots(new)) /\ ToSet(card.shots) \cap ToSet(AllShots(new)) = {}
       /\ ToSet(AllShots(cards)) = ToSet(AllShots(new)) \cup ToSet(card.shots)
  <2>1. PICK p : p = AllShots(before)
    OBVIOUS
  <2>2. PICK q : q = AllShots(after)
    OBVIOUS
  <2>3. p \in Seq(ShotIds) /\ q \in Seq(ShotIds) /\ IsInjective((p \o card.shots) \o q)
    BY <1>1, <1>8, <2>1, <2>2
  <2>4. /\ IsInjective(p \o q) /\ ToSet(card.shots) \cap ToSet(p \o q) = {}
        /\ ToSet((p \o card.shots) \o q) = ToSet(p \o q) \cup ToSet(card.shots)
    BY <1>9, <2>3, InjectiveMiddle
  <2>5. QED
    BY Zenon, <1>8, <2>1, <2>2, <2>4
<1>11. ToSet(AllShots(new)) # ToSet(AllShots(cards))
  <2>1. card.shots[1] \in ToSet(card.shots)
    <3>1. 1 \in DOMAIN card.shots
      BY <1>9, EmptySeq
    <3>2. QED
      BY <3>1 DEF ToSet
  <2>2. QED
    BY <1>10, <2>1
<1>12. ToSet(cards) = ToSet(new) \cup ToSet(<<card>>)
  <2>1. ToSet((before \o <<card>>) \o after) = ToSet(before \o after) \cup ToSet(<<card>>)
    <3>1. \A a, x, b \in Seq(CardType) : ToSet((a \o x) \o b) = ToSet(a \o b) \cup ToSet(x)
      BY InjectiveMiddle
    <3>2. before \in Seq(CardType) /\ <<card>> \in Seq(CardType) /\ after \in Seq(CardType)
      BY Zenon, <1>8
    <3>3. PICK one : one = <<card>>
      OBVIOUS
    <3>4. one \in Seq(CardType)
      BY Zenon, <3>2, <3>3
    <3>5. ToSet((before \o one) \o after) = ToSet(before \o after) \cup ToSet(one)
      BY Zenon, <3>1, <3>2, <3>4
    <3>6. QED
      BY Zenon, <3>3, <3>5
  <2>2. QED
    BY Zenon, <1>7, <1>8, <2>1
<1>15. \A id \in DOMAIN <<>> : <<>>[id] \in Status /\ Picked(<<>>[id])
  OBVIOUS
<1>16. statuses' \in [Uuids -> Status] /\ \A id \in Uuids : Picked(statuses'[id])
  BY Zenon, <1>7, <1>15, RestatedFacts
<1>17. Types'
  <2>1. Types
    BY DEF RegroupInv
  <2>2. QED
    BY <1>4, <1>7, <1>8, <1>16, <2>1 DEF Types
<1>18. ASSUME NEW c \in ToSet(new) PROVE Whole(c)
  <2>1. PICK k \in DOMAIN cards : c = cards[k]
    BY <1>12 DEF ToSet
  <2>2. QED
    BY <2>1, CardFacts
<1>19. RegroupInv'
  BY <1>4, <1>7, <1>10, <1>16, <1>17, <1>18, CardByCard
<1>20. QED
  BY <1>4, <1>11, <1>19

\* insertEmptyTaskGroup: a card of a shot that had none.
LEMMA InsertStep ==
  ASSUME RegroupInv, NEW i \in 0..Len(cards), NEW shot \in ShotIds, Insert(i, shot)
  PROVE  RegroupInv' /\ ToSet(AllShots(cards')) # ToSet(AllShots(cards))
<1> DEFINE C == [uuid |-> <<shot>>, shots |-> <<shot>>, parts |-> <<>>, kind |-> "single"]
<1>1. /\ cards \in Seq(CardType) /\ IsInjective(AllShots(cards))
      /\ DOMAIN cards = 1..Len(cards) /\ Len(cards) \in Nat
  BY DEF RegroupInv, Types
<1>2. PICK before : before = SubSeq(cards, 1, i)
  OBVIOUS
<1>3. PICK after : after = SubSeq(cards, i + 1, Len(cards))
  OBVIOUS
<1>4. PICK new : new = cards'
  OBVIOUS
<1>5. PICK card : card = C
  OBVIOUS
<1>6. /\ shot \notin UNION {ToSet(cards[k].shots) : k \in DOMAIN cards}
      /\ statuses' = Restated({}, <<>>) /\ UNCHANGED <<task, polls, held>>
      /\ new = (before \o <<card>>) \o after
  <2>1. (i + 1) - 1 = i
    BY <1>1
  <2>2. cards' = (SubSeq(cards, 1, (i + 1) - 1) \o <<C>>) \o SubSeq(cards, i + 1, Len(cards))
    BY DEF Insert, InsertAt
  <2> HIDE DEF C
  <2>3. new = (before \o <<card>>) \o after
    BY Zenon, <1>2, <1>3, <1>4, <1>5, <2>1, <2>2
  <2>4. QED
    BY <2>3 DEF Insert
<1>7. /\ before \in Seq(CardType) /\ after \in Seq(CardType) /\ cards = before \o after
  <2>1. /\ i + 1 \in 1..(Len(cards) + 1) /\ i \in 0..Len(cards) /\ (i + 1) - 1 = i
        /\ 1 \in 1..(Len(cards) + 1) /\ i \in (1 - 1)..Len(cards) /\ Len(cards) \in i..Len(cards)
    BY <1>1
  <2>2. SubSeq(cards, 1, (i + 1) - 1) \in Seq(CardType)
    BY <1>1, <2>1, PrefixFacts
  <2>3. after \in Seq(CardType)
    BY <1>1, <1>3, <2>1, SuffixFacts
  <2>4. SubSeq(cards, 1, i) \o SubSeq(cards, i + 1, Len(cards)) = SubSeq(cards, 1, Len(cards))
    BY <1>1, <2>1, ConcatAdjacentSubSeq
  <2>5. SubSeq(cards, 1, Len(cards)) = cards
    BY <1>1, SubSeqFull
  <2>6. QED
    BY Zenon, <1>2, <1>3, <2>1, <2>2, <2>3, <2>4, <2>5
<1>8. /\ card.uuid = <<shot>> /\ card.shots = <<shot>> /\ card.parts = <<>>
      /\ card.kind = "single" /\ card \in CardType /\ <<shot>> \in Uuids
  BY <1>5 DEF CardType, Uuids
<1> HIDE DEF C
<1>9. /\ <<card>> \in Seq(CardType) /\ card.shots \in Seq(ShotIds)
      /\ AllShots(<<card>>) = card.shots /\ ToSet(<<card>>) = {card}
  <2>1. <<card>> \in Seq(CardType) /\ card.shots \in Seq(ShotIds)
    BY <1>8
  <2>2. AllShots(<<card>>) = card.shots
    BY <2>1, AllShotsOne
  <2>3. ToSet(<<card>>) = {card}
    BY DEF ToSet
  <2>4. QED
    BY <2>1, <2>2, <2>3
<1>10. \A x, y \in Seq(CardType) : /\ x \o y \in Seq(CardType)
                                   /\ AllShots(x \o y) = AllShots(x) \o AllShots(y)
  BY PartsShots, AllShotsConcat, ConcatProperties
<1>11. /\ new \in Seq(CardType)
       /\ AllShots(new) = (AllShots(before) \o card.shots) \o AllShots(after)
       /\ AllShots(cards) = AllShots(before) \o AllShots(after)
  <2>1. before \o <<card>> \in Seq(CardType)
    BY Zenon, <1>7, <1>9, <1>10
  <2>2. AllShots(before \o <<card>>) = AllShots(before) \o card.shots
    BY Zenon, <1>7, <1>9, <1>10
  <2>3. AllShots(new) = AllShots(before \o <<card>>) \o AllShots(after)
    BY Zenon, <1>6, <1>7, <1>10, <2>1
  <2>4. AllShots(cards) = AllShots(before) \o AllShots(after)
    BY Zenon, <1>7, <1>10
  <2>5. new \in Seq(CardType)
    BY Zenon, <1>6, <1>7, <1>10, <2>1
  <2>6. QED
    BY Zenon, <2>2, <2>3, <2>4, <2>5
<1>12. shot \notin ToSet(AllShots(cards))
  <2>1. ToSet(AllShots(cards)) = UNION {ToSet(cards[k].shots) : k \in DOMAIN cards}
    BY <1>1, PartsShots, AllShotsElements
  <2>2. QED
    BY <1>6, <2>1
<1>13. ToSet(card.shots) = {shot} /\ IsInjective(card.shots)
  <2>1. ToSet(<<shot>>) = {shot} /\ IsInjective(<<shot>>)
    BY DEF ToSet, IsInjective
  <2>2. QED
    BY Zenon, <1>8, <2>1
<1>14. /\ IsInjective(AllShots(new))
       /\ ToSet(AllShots(new)) = ToSet(AllShots(cards)) \cup {shot}
  <2>1. PICK p : p = AllShots(before)
    OBVIOUS
  <2>2. PICK q : q = AllShots(after)
    OBVIOUS
  <2>3. p \in Seq(ShotIds)
    BY <1>7, <2>1, PartsShots, AllShotsType
  <2>4. q \in Seq(ShotIds)
    BY <1>7, <2>2, PartsShots, AllShotsType
  <2>5. /\ IsInjective((p \o card.shots) \o q) <=>
             IsInjective(p \o q) /\ IsInjective(card.shots) /\ ToSet(card.shots) \cap ToSet(p \o q) = {}
        /\ ToSet((p \o card.shots) \o q) = ToSet(p \o q) \cup ToSet(card.shots)
    BY <1>9, <2>3, <2>4, InjectiveMiddle
  <2>6. p \o q = AllShots(cards) /\ (p \o card.shots) \o q = AllShots(new)
    BY Zenon, <1>11, <2>1, <2>2
  <2>7. {shot} \cap ToSet(AllShots(cards)) = {}
    BY <1>12
  <2>8. QED
    BY Zenon, <1>1, <1>13, <2>5, <2>6, <2>7
<1>15. ToSet(AllShots(new)) # ToSet(AllShots(cards))
  BY <1>12, <1>14
<1>16. ToSet(new) = ToSet(cards) \cup {card}
  <2>1. \A a, x, b \in Seq(CardType) : ToSet((a \o x) \o b) = ToSet(a \o b) \cup ToSet(x)
    BY InjectiveMiddle
  <2>2. ToSet((before \o <<card>>) \o after) = ToSet(before \o after) \cup ToSet(<<card>>)
    BY Zenon, <1>7, <1>9, <2>1
  <2>3. QED
    BY Zenon, <1>6, <1>7, <1>9, <2>2
<1>17. \A id \in DOMAIN <<>> : <<>>[id] \in Status /\ Picked(<<>>[id])
  OBVIOUS
<1>18. statuses' \in [Uuids -> Status] /\ \A id \in Uuids : Picked(statuses'[id])
  BY Zenon, <1>6, <1>17, RestatedFacts
<1>19. Whole(card)
  <2>1. \A y : <<y>> # <<>> /\ <<y>>[1] = y
    OBVIOUS
  <2>2. /\ card.shots # <<>> /\ card.uuid[1] = card.shots[1] /\ card.uuid = <<card.uuid[1]>>
        /\ card.shots = card.uuid
    BY Zenon, <1>8, <2>1
  <2>3. QED
    BY <1>8, <2>2 DEF Whole
<1>20. ASSUME NEW c \in ToSet(new) PROVE Whole(c)
  <2>1. CASE c = card
    BY <1>19, <2>1
  <2>2. CASE c # card
    <3>1. PICK k \in DOMAIN cards : c = cards[k]
      BY <1>16, <2>2 DEF ToSet
    <3>2. QED
      BY <3>1, CardFacts
  <2>3. QED
    BY <2>1, <2>2
<1>21. Types'
  <2>1. Types
    BY DEF RegroupInv
  <2>2. QED
    BY <1>4, <1>6, <1>11, <1>18, <2>1 DEF Types
<1>22. RegroupInv'
  BY <1>4, <1>6, <1>14, <1>18, <1>20, <1>21, CardByCard
<1>23. QED
  BY <1>4, <1>15, <1>22


-----------------------------------------------------------------------------
(***************************************************************************)
(* Tasks and their history.                                                 *)
(***************************************************************************)
\* The page's cards or those of the batch stay, and every result is among the videos.
LEMMA SoundCards ==
  ASSUME RegroupInv, Types', cards' \in {cards} \cup held, held' \subseteq {cards} \cup held,
         \A id \in Uuids : Picked(statuses'[id])
  PROVE  RegroupInv'
<1>1. \A list \in {cards} \cup held :
        IsInjective(AllShots(list)) /\ \A i \in DOMAIN list : Whole(list[i])
  BY DEF RegroupInv
<1>2. IsInjective(AllShots(cards')) /\ \A i \in DOMAIN cards' : Whole(cards'[i])
  BY Zenon, <1>1
<1>3. \A list \in held' : IsInjective(AllShots(list)) /\ \A i \in DOMAIN list : Whole(list[i])
  BY Zenon, <1>1
<1>4. QED
  BY <1>2, <1>3 DEF RegroupInv

\* What the types say of one task.
LEMMA TaskTypes ==
  ASSUME Types, NEW t \in Running
  PROVE  t \in Tasks /\ task[t] \in [uuid : Uuids, state : {"running", "done", "failed"}]
<1>1. t \in Tasks /\ task[t].state = "running"
  BY DEF Running
<1>2. task[t] = NoTask \/ task[t] \in [uuid : Uuids, state : {"running", "done", "failed"}]
  BY <1>1 DEF Types
<1>3. NoTask.state # "running"
  BY DEF NoTask
<1>4. QED
  BY <1>1, <1>2, <1>3

\* executeTask: a task of a card of the list begins, and the list is set back.
LEMMA RunStep ==
  ASSUME RegroupInv, NEW list \in {cards} \cup held, NEW i \in DOMAIN list, NEW t \in Tasks,
         Run(list, i, t)
  PROVE  RegroupInv' /\ cards' = list
<1>1. PICK id : id = list[i].uuid
  OBVIOUS
<1>2. PICK polled : polled = polls'
  OBVIOUS
<1>3. /\ cards' = list /\ held' \in {held, {}}
      /\ task' = [task EXCEPT ![t] = [uuid |-> id, state |-> "running"]]
      /\ polled = [polls EXCEPT ![id] = t]
      /\ statuses' = Attached(statuses, polled)
  BY <1>1, <1>2 DEF Run
<1>4. /\ cards \in Seq(CardType) /\ held \subseteq Seq(CardType)
      /\ statuses \in [Uuids -> Status] /\ polls \in [Uuids -> Tasks \cup {NoVideo}]
      /\ task \in [Tasks -> {NoTask} \cup [uuid : Uuids, state : {"running", "done", "failed"}]]
      /\ \A x \in Uuids : Picked(statuses[x])
  BY DEF RegroupInv, Types
<1>5. list \in Seq(CardType)
  BY <1>4
<1>6. id \in Uuids
  <2>1. list[i] \in CardType
    BY <1>5
  <2>2. QED
    BY <1>1, <2>1 DEF CardType
<1>7. polled \in [Uuids -> Tasks \cup {NoVideo}]
  BY <1>3, <1>4
<1>8. \A x \in Uuids : statuses[x] \in Status /\ polled[x] \in Tasks \cup {NoVideo}
  BY <1>4, <1>7
<1>9. /\ Attached(statuses, polled) \in [Uuids -> Status]
      /\ \A x \in Uuids : Picked(statuses[x]) => Picked(Attached(statuses, polled)[x])
  BY Zenon, <1>8, AttachedFacts
<1>10. statuses' \in [Uuids -> Status] /\ \A x \in Uuids : Picked(statuses'[x])
  BY Zenon, <1>3, <1>4, <1>9
<1>11. task' \in [Tasks -> {NoTask} \cup [uuid : Uuids, state : {"running", "done", "failed"}]]
  <2>1. [uuid |-> id, state |-> "running"] \in [uuid : Uuids, state : {"running", "done", "failed"}]
    BY <1>6
  <2>2. QED
    BY <1>3, <1>4, <2>1
<1>12. Types'
  BY <1>2, <1>3, <1>4, <1>5, <1>7, <1>10, <1>11 DEF Types
<1>13. QED
  BY <1>3, <1>10, <1>12, SoundCards

\* A batch begins and ends.
LEMMA BatchStep ==
  ASSUME RegroupInv, BatchStarts \/ BatchEnds
  PROVE  RegroupInv' /\ cards' = cards
<1>1. /\ UNCHANGED <<cards, statuses, task, polls>> /\ held' \subseteq {cards} \cup held
  BY DEF BatchStarts, BatchEnds
<1>2. Types' /\ \A id \in Uuids : Picked(statuses'[id])
  BY <1>1 DEF RegroupInv, Types
<1>3. QED
  BY <1>1, <1>2, SoundCards

\* The server ends a task.
LEMMA EndsStep ==
  ASSUME RegroupInv, NEW t \in Tasks, Ends(t)
  PROVE  RegroupInv' /\ cards' = cards
<1>1. t \in Running /\ UNCHANGED <<cards, statuses, polls, held>>
  BY DEF Ends
<1>2. PICK end \in {"done", "failed"} : task' = [task EXCEPT ![t].state = end]
  BY DEF Ends
<1>3. Types /\ \A id \in Uuids : Picked(statuses[id])
  BY DEF RegroupInv
<1>4. task[t] \in [uuid : Uuids, state : {"running", "done", "failed"}]
  BY <1>1, <1>3, TaskTypes
<1>5. [task[t] EXCEPT !.state = end] \in [uuid : Uuids, state : {"running", "done", "failed"}]
  BY <1>4
<1>6. Types'
  BY <1>1, <1>2, <1>3, <1>5 DEF Types
<1>7. QED
  BY <1>1, <1>3, <1>6, SoundCards

\* onProgress: the videos stay.
LEMMA ProgressStep ==
  ASSUME RegroupInv, NEW id \in Uuids, Progress(id)
  PROVE  RegroupInv' /\ cards' = cards
<1> DEFINE s == [statuses[id] EXCEPT !.state = "active"]
<1>1. statuses' = [statuses EXCEPT ![id] = s] /\ UNCHANGED <<cards, task, polls, held>>
  BY DEF Progress
<1>2. Types /\ \A x \in Uuids : Picked(statuses[x])
  BY DEF RegroupInv
<1>3. statuses \in [Uuids -> Status] /\ statuses[id] \in Status
  BY <1>2 DEF Types
<1>4. s \in Status /\ s.videos = statuses[id].videos /\ s.result = statuses[id].result
  BY <1>3 DEF Status
<1>5. Picked(s)
  BY <1>2, <1>4 DEF Picked
<1> HIDE DEF s
<1>6. statuses' \in [Uuids -> Status] /\ \A x \in Uuids : Picked(statuses'[x])
  BY <1>1, <1>2, <1>3, <1>4, <1>5
<1>7. Types'
  BY <1>1, <1>2, <1>6 DEF Types
<1>8. QED
  BY <1>1, <1>6, <1>7, SoundCards

\* onComplete shows the video and makes it the result, onFail leaves both.
LEMMA PollEndsStep ==
  ASSUME RegroupInv, NEW id \in Uuids, PollEnds(id)
  PROVE  RegroupInv' /\ cards' = cards
<1>1. PICK t : t = polls[id]
  OBVIOUS
<1>2. PICK old : old = statuses[id]
  OBVIOUS
<1> DEFINE failed == [old EXCEPT !.state = "settled"]
<1>3. /\ t # NoVideo /\ UNCHANGED <<cards, task, held>>
      /\ polls' = [polls EXCEPT ![id] = NoVideo]
      /\ \/ \E result \in LastShown(old, t) : statuses' = [statuses EXCEPT ![id] = Completed(old, t, result)]
         \/ statuses' = [statuses EXCEPT ![id] = failed]
  <2>1. /\ polls[id] # NoVideo /\ UNCHANGED <<cards, task, held>>
        /\ polls' = [polls EXCEPT ![id] = NoVideo]
        /\ \/ \E result \in LastShown(statuses[id], polls[id]) :
                statuses' = [statuses EXCEPT ![id] = Completed(statuses[id], polls[id], result)]
           \/ statuses' = [statuses EXCEPT ![id].state = "settled"]
    BY DEF PollEnds
  <2>2. QED
    BY <1>1, <1>2, <2>1
<1>4. Types /\ \A x \in Uuids : Picked(statuses[x])
  BY DEF RegroupInv
<1>5. /\ statuses \in [Uuids -> Status] /\ polls \in [Uuids -> Tasks \cup {NoVideo}]
      /\ old \in Status /\ Picked(old) /\ t \in Videos
  BY <1>1, <1>2, <1>3, <1>4 DEF Types, Videos
<1>6. ASSUME NEW result \in LastShown(old, t)
      PROVE  Completed(old, t, result) \in Status /\ Picked(Completed(old, t, result))
  <2> DEFINE done == Completed(old, t, result)
  <2>1. old.videos \cup {t} \subseteq Videos /\ result \in old.videos \cup {t}
    BY <1>5, StatusType DEF LastShown
  <2>2. done \in Status /\ done.videos = old.videos \cup {t} /\ done.result = result
    BY <1>5, <2>1 DEF Status, Completed
  <2> HIDE DEF done
  <2>3. Picked(done)
    BY <2>1, <2>2 DEF Picked
  <2>4. QED
    BY <2>2, <2>3 DEF done
<1>7. failed \in Status /\ failed.videos = old.videos /\ failed.result = old.result
  BY <1>5 DEF Status
<1> HIDE DEF failed
<1>8. Picked(failed)
  BY <1>5, <1>7 DEF Picked
<1>9. statuses' \in [Uuids -> Status] /\ \A x \in Uuids : Picked(statuses'[x])
  <2>1. PICK new : /\ statuses' = [statuses EXCEPT ![id] = new]
                   /\ new \in Status /\ Picked(new)
    BY <1>3, <1>6, <1>7, <1>8
  <2>2. QED
    BY <1>4, <1>5, <2>1
<1>10. polls' \in [Uuids -> Tasks \cup {NoVideo}]
  BY <1>3, <1>5
<1>11. Types'
  BY <1>3, <1>4, <1>9, <1>10 DEF Types
<1>12. QED
  BY <1>3, <1>9, <1>11, SoundCards

\* Among tasks there is a newest.
LEMMA NewestFacts ==
  ASSUME NEW matched, matched \subseteq Tasks, matched # {}
  PROVE  Newest(matched) \in matched
<1> DEFINE T == {MaxTasks - t : t \in matched}
<1>1. MaxTasks \in Nat /\ \A t \in matched : t \in Nat /\ t <= MaxTasks
  BY RegroupAssumption DEF Tasks
<1>2. T \subseteq Nat /\ T # {}
  BY <1>1
<1>3. PICK m \in T : \A k \in T : m <= k
  <2> HIDE DEF T
  <2>1. QED
    BY <1>2, LeastNatural
<1>4. PICK t \in matched : m = MaxTasks - t
  BY <1>3
<1>5. \A u \in matched : u <= t
  <2>1. ASSUME NEW u \in matched PROVE u <= t
    <3>1. MaxTasks - t <= MaxTasks - u
      BY <1>3, <1>4
    <3>2. QED
      BY <1>1, <3>1
  <2>2. QED
    BY <2>1
<1>6. QED
  BY <1>5 DEF Newest

\* The status a history makes of a card's shows a result among its videos.
LEMMA ReconciledFacts ==
  ASSUME NEW status \in Status, Picked(status), NEW matched, matched \subseteq Tasks,
         matched # {}, NEW result \in Results(status, matched)
  PROVE  Reconciled(status, matched, result) \in Status
         /\ Picked(Reconciled(status, matched, result))
<1>1. PICK videos : videos = Videoed(status, matched)
  OBVIOUS
<1>2. status.videos \subseteq videos /\ videos \subseteq Videos
  BY <1>1, StatusType DEF Videoed, Videos
<1>3. Newest(matched) \in Tasks
  BY NewestFacts
<1>4. result \in videos \/ result = status.result
  BY <1>1 DEF Results
<1>5. result \in {NoVideo} \cup videos
  BY <1>2, <1>4 DEF Picked
<1>6. CASE GoesOn(status, matched)
  <2> DEFINE r == [status EXCEPT !.videos = videos]
  <2>1. Reconciled(status, matched, result) = r
    BY <1>1, <1>6 DEF Reconciled
  <2>2. r \in Status /\ r.videos = videos /\ r.result = status.result
    BY <1>2 DEF Status
  <2> HIDE DEF r
  <2>3. Picked(r)
    BY <1>2, <2>2 DEF Picked
  <2>4. QED
    BY <2>1, <2>2, <2>3
<1>7. CASE ~ GoesOn(status, matched)
  <2> DEFINE r == [state |-> IF Newest(matched) \in Running THEN "active" ELSE "settled",
                   videos |-> videos, result |-> result, task |-> Newest(matched)]
  <2>1. Reconciled(status, matched, result) = r
    BY <1>1, <1>7 DEF Reconciled
  <2>2. r \in Status /\ r.videos = videos /\ r.result = result
    BY <1>2, <1>3, <1>5 DEF Status
  <2> HIDE DEF r
  <2>3. Picked(r)
    BY <1>5, <2>2 DEF Picked
  <2>4. QED
    BY <2>1, <2>2, <2>3
<1>8. QED
  BY <1>6, <1>7

\* reconcileActiveVideoTasks: statuses gain videos, and polls are started and stopped.
LEMMA HistoryStep ==
  ASSUME RegroupInv, NEW segments, NEW byTaskId, History(segments, byTaskId)
  PROVE  RegroupInv' /\ cards' = cards
<1> DEFINE all == [id \in Ids |->
        MatchedTo(CHOOSE card \in ToSet(cards) : card.uuid = id, segments, byTaskId)]
           met == {id \in Ids : all[id] # {}}
           started == [id \in Uuids |-> IF id \in met /\ statuses'[id].state = "active"
                                       THEN statuses'[id].task ELSE polls[id]]
<1>1. \E result \in [met -> Videos \cup {NoVideo}] :
        /\ \A id \in met : result[id] \in Results(statuses[id], all[id])
        /\ statuses' = [id \in Uuids |->
             IF id \in met THEN Reconciled(statuses[id], all[id], result[id])
             ELSE statuses[id]]
  BY DEF History
<1>2. /\ polls' = [id \in Uuids |->
           IF started[id] = statuses'[id].task /\ started[id] \notin Running
           THEN NoVideo ELSE started[id]]
      /\ UNCHANGED <<cards, task, held>>
  BY DEF History
<1> HIDE DEF all, met, started
<1>3. PICK st : st = statuses'
  OBVIOUS
<1>4. PICK result \in [met -> Videos \cup {NoVideo}] :
        /\ \A id \in met : result[id] \in Results(statuses[id], all[id])
        /\ st = [id \in Uuids |-> IF id \in met THEN Reconciled(statuses[id], all[id], result[id])
                                  ELSE statuses[id]]
  BY Zenon, <1>1, <1>3
<1>5. /\ Types /\ statuses \in [Uuids -> Status] /\ polls \in [Uuids -> Tasks \cup {NoVideo}]
      /\ \A id \in Uuids : Picked(statuses[id])
  BY DEF RegroupInv, Types
<1>6. ASSUME NEW id \in met PROVE all[id] \subseteq Tasks /\ all[id] # {}
  <2>1. id \in Ids /\ all[id] # {}
    BY DEF met
  <2>2. all[id] = MatchedTo(CHOOSE card \in ToSet(cards) : card.uuid = id, segments, byTaskId)
    BY <2>1 DEF all
  <2>3. \A card : MatchedTo(card, segments, byTaskId) \subseteq Tasks
    BY DEF MatchedTo, Ever
  <2>4. QED
    BY <2>1, <2>2, <2>3
<1>7. ASSUME NEW id \in Uuids PROVE st[id] \in Status /\ Picked(st[id])
  <2>1. CASE id \in met
    <3>1. PICK s : s = statuses[id]
      OBVIOUS
    <3>2. PICK matched : matched = all[id]
      OBVIOUS
    <3>3. PICK chosen : chosen = result[id]
      OBVIOUS
    <3>4. s \in Status /\ Picked(s) /\ matched \subseteq Tasks /\ matched # {}
      BY <1>5, <1>6, <2>1, <3>1, <3>2
    <3>5. chosen \in Results(s, matched)
      BY <1>4, <2>1, <3>1, <3>2, <3>3
    <3>6. st[id] = Reconciled(s, matched, chosen)
      BY <1>4, <2>1, <3>1, <3>2, <3>3
    <3>7. QED
      BY <3>4, <3>5, <3>6, ReconciledFacts
  <2>2. CASE id \notin met
    BY <1>4, <1>5, <2>2
  <2>3. QED
    BY <2>1, <2>2
<1>8. st \in [Uuids -> Status]
  <2>1. st = [id \in Uuids |-> st[id]]
    BY <1>4
  <2>2. QED
    BY <1>7, <2>1
<1>9. ASSUME NEW id \in Uuids PROVE polls'[id] \in Tasks \cup {NoVideo}
  <2>1. st[id].task \in Tasks \cup {NoVideo}
    BY <1>7, StatusType
  <2>2. started[id] \in Tasks \cup {NoVideo}
    BY <1>3, <1>5, <2>1 DEF started
  <2>3. QED
    BY <1>2, <2>2
<1>10. polls' \in [Uuids -> Tasks \cup {NoVideo}]
  BY <1>2, <1>9
<1>11. Types'
  BY <1>2, <1>3, <1>5, <1>8, <1>10 DEF Types
<1>12. QED
  BY <1>2, <1>3, <1>7, <1>11, SoundCards

-----------------------------------------------------------------------------
(***************************************************************************)
(* The specification.                                                       *)
(***************************************************************************)
LEMMA InitRegroup ==
  ASSUME Init
  PROVE  RegroupInv
<1>1. PICK order \in [1..(Cardinality(ShotIds) - 1) -> ShotIds] :
        /\ IsInjective(order)
        /\ cards = [i \in DOMAIN order |->
             [uuid |-> <<order[i]>>, shots |-> <<order[i]>>, parts |-> <<>>, kind |-> "single"]]
  BY DEF Init
<1>2. /\ statuses = [id \in Uuids |-> Absent] /\ task = [t \in Tasks |-> NoTask]
      /\ polls = [id \in Uuids |-> NoVideo] /\ held = {}
  BY DEF Init
<1>3. PICK n \in Nat : 1..(Cardinality(ShotIds) - 1) = 1..n
  <2>1. Cardinality(ShotIds) \in Nat
    BY RegroupAssumption, FS_CardinalityType
  <2>2. CASE Cardinality(ShotIds) = 0
    BY <2>2
  <2>3. CASE Cardinality(ShotIds) # 0
    BY <2>1, <2>3
  <2>4. QED
    BY <2>2, <2>3
<1> DEFINE c(i) == [uuid |-> <<order[i]>>, shots |-> <<order[i]>>, parts |-> <<>>, kind |-> "single"]
<1>4. ASSUME NEW i \in 1..n
      PROVE  /\ c(i) \in CardType /\ c(i).uuid = <<order[i]>> /\ c(i).shots = <<order[i]>>
             /\ c(i).parts = <<>> /\ c(i).kind = "single" /\ order[i] \in ShotIds
  <2>1. order[i] \in ShotIds
    BY <1>1, <1>3
  <2>2. <<order[i]>> \in Uuids /\ <<order[i]>> \in Seq(ShotIds) /\ <<>> \in Seq(Part)
    BY <2>1 DEF Uuids
  <2>3. QED
    BY <2>1, <2>2 DEF CardType
<1>5. cards = [i \in 1..n |-> c(i)]
  BY <1>1, <1>3
<1> HIDE DEF c
<1>6. /\ cards \in Seq(CardType) /\ Len(cards) = n /\ DOMAIN cards = 1..n
      /\ \A i \in 1..n : cards[i] = c(i)
  BY <1>4, <1>5
<1>7. \A y : <<y>> # <<>> /\ <<y>>[1] = y
  OBVIOUS
<1>8. ASSUME NEW i \in 1..n
      PROVE  /\ cards[i].shots = <<cards[i].shots[1]>> /\ cards[i].shots[1] = order[i]
             /\ cards[i].shots # <<>> /\ cards[i].uuid = cards[i].shots
             /\ cards[i].parts = <<>> /\ cards[i].kind = "single"
             /\ cards[i].uuid \in Uuids
  <2>1. cards[i].shots = <<order[i]>> /\ cards[i].uuid = <<order[i]>>
        /\ cards[i].parts = <<>> /\ cards[i].kind = "single"
    BY <1>4, <1>6
  <2>2. <<order[i]>> \in Uuids
    BY <1>4 DEF Uuids
  <2>3. QED
    BY Zenon, <1>7, <2>1, <2>2
<1>9. /\ Len(AllShots(cards)) = n /\ \A k \in 1..n : AllShots(cards)[k] = order[k]
      /\ AllShots(cards) \in Seq(ShotIds)
  <2>1. /\ Len(AllShots(cards)) = Len(cards)
        /\ \A k \in 1..Len(cards) : AllShots(cards)[k] = cards[k].shots[1]
    BY <1>6, <1>8, PartsShots, OneShotEach
  <2>2. AllShots(cards) \in Seq(ShotIds)
    BY <1>6, PartsShots, AllShotsType
  <2>3. QED
    BY <1>6, <1>8, <2>1, <2>2
<1>10. IsInjective(AllShots(cards))
  <2>1. DOMAIN AllShots(cards) = 1..n /\ DOMAIN order = 1..n
    BY <1>1, <1>3, <1>9
  <2>2. QED
    BY <1>1, <1>9, <2>1 DEF IsInjective
<1>11. Types
  <2>1. /\ statuses \in [Uuids -> Status] /\ task \in [Tasks -> {NoTask}]
        /\ polls \in [Uuids -> Tasks \cup {NoVideo}]
    BY <1>2, AbsentStatus
  <2>2. QED
    BY <1>2, <1>6, <2>1 DEF Types
<1>12. ASSUME NEW i \in DOMAIN cards PROVE Whole(cards[i])
  <2>1. i \in 1..n
    BY <1>6
  <2>2. /\ cards[i].shots = <<cards[i].shots[1]>> /\ cards[i].shots # <<>>
        /\ cards[i].uuid = cards[i].shots /\ cards[i].parts = <<>>
        /\ cards[i].kind = "single" /\ cards[i].uuid \in Uuids
    BY <1>8, <2>1
  <2>3. cards[i].uuid = <<cards[i].uuid[1]>> /\ cards[i].uuid[1] = cards[i].shots[1]
    BY Zenon, <2>2
  <2>4. QED
    BY <2>2, <2>3 DEF Whole
<1>13. \A id \in Uuids : Picked(statuses[id])
  BY <1>2, AbsentStatus
<1>14. QED
  BY <1>2, <1>10, <1>11, <1>12, <1>13 DEF RegroupInv

\* What a step does to the shots and the videos shown.
LEMMA NextRegroup ==
  ASSUME RegroupInv, [Next]_vars
  PROVE  /\ RegroupInv'
         /\ \/ held # {} \/ cards' = cards
            \/ AllShots(cards') = AllShots(cards) /\ Shown \subseteq Shown'
            \/ ToSet(AllShots(cards')) # ToSet(AllShots(cards))
<1>1. CASE UNCHANGED vars
  <2>1. UNCHANGED <<cards, statuses, task, polls, held>>
    BY <1>1 DEF vars
  <2>2. Types' /\ \A id \in Uuids : Picked(statuses'[id])
    BY <2>1 DEF RegroupInv, Types
  <2>3. QED
    BY <2>1, <2>2, SoundCards
<1>2. ASSUME NEW i \in DOMAIN cards, NEW j \in DOMAIN cards, Merge(i, j)
      PROVE  RegroupInv' /\ AllShots(cards') = AllShots(cards) /\ Shown \subseteq Shown'
  BY <1>2, MergeStep
<1>3. ASSUME NEW i \in DOMAIN cards, Split(i)
      PROVE  RegroupInv' /\ AllShots(cards') = AllShots(cards) /\ Shown \subseteq Shown'
  BY <1>3, SplitStep
<1>4. ASSUME NEW i \in DOMAIN cards, NEW k \in DOMAIN cards[i].parts, RemoveShot(i, k)
      PROVE  RegroupInv' /\ AllShots(cards') = AllShots(cards) /\ Shown \subseteq Shown'
  BY <1>4, RemoveShotStep
<1>5. ASSUME NEW i \in DOMAIN cards, i < Len(cards), Link(i)
      PROVE  RegroupInv' /\ AllShots(cards') = AllShots(cards) /\ Shown \subseteq Shown'
  BY <1>5, LinkStep
<1>6. ASSUME NEW i \in DOMAIN cards, Unlink(i)
      PROVE  RegroupInv' /\ AllShots(cards') = AllShots(cards) /\ Shown \subseteq Shown'
  BY <1>6, UnlinkStep
<1>7. ASSUME NEW i \in DOMAIN cards, RemoveCard(i)
      PROVE  RegroupInv' /\ ToSet(AllShots(cards')) # ToSet(AllShots(cards))
  BY <1>7, RemoveCardStep
<1>8. ASSUME NEW list \in {cards} \cup held, NEW i \in DOMAIN list, NEW t \in Tasks, Run(list, i, t)
      PROVE  RegroupInv' /\ (held # {} \/ cards' = cards)
  <2>1. RegroupInv' /\ cards' = list
    BY <1>8, RunStep
  <2>2. QED
    BY <2>1
<1>9. ASSUME NEW segments \in BOOLEAN, NEW byTaskId \in ByTaskId, History(segments, byTaskId)
      PROVE  RegroupInv' /\ cards' = cards
  BY <1>9, HistoryStep
<1>10. ASSUME NEW i \in 0..Len(cards), NEW shot \in ShotIds, Insert(i, shot)
       PROVE  RegroupInv' /\ ToSet(AllShots(cards')) # ToSet(AllShots(cards))
  BY <1>10, InsertStep
<1>11. ASSUME NEW t \in Tasks, Ends(t) PROVE RegroupInv' /\ cards' = cards
  BY <1>11, EndsStep
<1>12. ASSUME NEW id \in Uuids, Progress(id) \/ PollEnds(id) PROVE RegroupInv' /\ cards' = cards
  BY <1>12, ProgressStep, PollEndsStep
<1>13. ASSUME BatchStarts \/ BatchEnds PROVE RegroupInv' /\ cards' = cards
  BY <1>13, BatchStep
<1>14. ASSUME NEW i \in DOMAIN cards, CardSteps(i)
       PROVE  /\ RegroupInv'
              /\ \/ AllShots(cards') = AllShots(cards) /\ Shown \subseteq Shown'
                 \/ ToSet(AllShots(cards')) # ToSet(AllShots(cards))
  BY Zenon, <1>2, <1>3, <1>4, <1>5, <1>6, <1>7, <1>14 DEF CardSteps
<1>15. ASSUME TaskSteps PROVE RegroupInv' /\ (held # {} \/ cards' = cards)
  BY Zenon, <1>8, <1>9, <1>11, <1>12, <1>13, <1>15 DEF TaskSteps
<1>16. CASE Next
  BY Zenon, <1>10, <1>14, <1>15, <1>16 DEF Next
<1>17. QED
  BY <1>1, <1>16

\* The invariant holds in every reachable state, for any storyboard and any number of tasks.
THEOREM RegroupInvariant == Spec => []RegroupInv
<1>1. RegroupInv /\ [Next]_vars => RegroupInv'
  BY NextRegroup
<1>2. QED
  BY <1>1, InitRegroup, PTL DEF Spec

\* As many uuids as cards.
LEMMA IdsCardinality ==
  ASSUME RegroupInv
  PROVE  Cardinality(Ids) = Len(cards)
<1> DEFINE f == [i \in 1..Len(cards) |-> cards[i].uuid]
<1>1. Len(cards) \in Nat /\ DOMAIN cards = 1..Len(cards)
  BY DEF RegroupInv, Types
<1>2. \A i, j \in 1..Len(cards) : cards[i].uuid = cards[j].uuid => i = j
  BY <1>1, DistinctCards
<1>3. Ids = {cards[i].uuid : i \in 1..Len(cards)}
  BY <1>1 DEF Ids
<1>4. f \in Bijection(1..Len(cards), Ids)
  BY <1>2, <1>3 DEF Bijection, Injection, Surjection, IsInjective
<1>5. IsFiniteSet(1..Len(cards)) /\ Cardinality(1..Len(cards)) = Len(cards)
  <2>1. PICK n \in Nat : n = Len(cards)
    BY <1>1
  <2>2. IsFiniteSet(1..n) /\ Cardinality(1..n) = IF 1 > n THEN 0 ELSE n - 1 + 1
    BY FS_Interval
  <2>3. (IF 1 > n THEN 0 ELSE n - 1 + 1) = n
    OBVIOUS
  <2>4. QED
    BY Zenon, <2>1, <2>2, <2>3
<1>6. ExistsBijection(1..Len(cards), Ids)
  BY <1>4 DEF ExistsBijection
<1>7. QED
  BY <1>5, <1>6, FS_Bijection

\* The cards partition the shots, merged cards and pairs are made of parts of one shot each,
\* and every card has its own uuid (taskGroups of components/VideoPage.tsx).
THEOREM RegroupTypeCorrect == Spec => []TypeOK
<1>1. ASSUME RegroupInv PROVE TypeOK
  <2>1. ASSUME NEW i \in DOMAIN cards
        PROVE  /\ cards[i].uuid \in Uuids
               /\ cards[i].kind \in {"single", "merged", "pair"}
               /\ \A k \in DOMAIN cards[i].parts :
                    cards[i].parts[k] \in Part /\ Len(cards[i].parts[k].shots) = 1
               /\ IF cards[i].kind = "single"
                  THEN cards[i].parts = <<>> /\ Len(cards[i].shots) = 1
                  ELSE AllShots(cards[i].parts) = cards[i].shots /\ Len(cards[i].shots) > 1
    <3>1. /\ cards[i] \in CardType /\ Whole(cards[i]) /\ cards[i].uuid \in Uuids
          /\ cards[i].kind \in {"single", "merged", "pair"} /\ cards[i].parts \in Seq(Part)
      BY <1>1, CardFacts
    <3>2. /\ cards[i].kind = "single" <=> Len(cards[i].shots) = 1
          /\ cards[i].kind # "single" => Len(cards[i].shots) = Len(cards[i].parts)
      BY <3>1, SingleShot
    <3>3. ASSUME NEW k \in DOMAIN cards[i].parts
          PROVE  cards[i].parts[k] \in Part /\ Len(cards[i].parts[k].shots) = 1
      <4>1. k \in 1..Len(cards[i].parts) /\ cards[i].parts[k] \in Part
        BY <3>1, ElementOfSeq
      <4>2. cards[i].kind # "single"
        BY <3>1 DEF Whole
      <4>3. PartFit(cards[i].parts[k])
        BY <3>1, <4>2 DEF Whole
      <4>4. cards[i].parts[k].shots = <<cards[i].parts[k].uuid[1]>>
        BY <4>3 DEF PartFit
      <4>5. \A y : Len(<<y>>) = 1
        OBVIOUS
      <4>6. QED
        BY Zenon, <4>1, <4>4, <4>5
    <3>4. CASE cards[i].kind = "single"
      BY <3>1, <3>2, <3>3, <3>4 DEF Whole
    <3>5. CASE cards[i].kind # "single"
      <4>1. /\ AllShots(cards[i].parts) = cards[i].shots /\ Len(cards[i].parts) > 1
        BY <3>1, <3>5 DEF Whole
      <4>2. QED
        BY <3>1, <3>2, <3>3, <3>5, <4>1
    <3>6. QED
      BY <3>4, <3>5
  <2>2. Cardinality(Ids) = Len(cards)
    BY <1>1, IdsCardinality
  <2>3. QED
    BY <1>1, <2>1, <2>2 DEF RegroupInv, Types, TypeOK
<1>2. QED
  BY <1>1, RegroupInvariant, PTL

\* After any sequence of regroupings, ends of tasks and histories, the result a card shows
\* is one of the videos it shows (components/VideoPage.tsx:2652-2658).
THEOREM RegroupResultShown == Spec => []ResultIsShown
<1>1. ASSUME RegroupInv PROVE ResultIsShown
  <2>1. ASSUME NEW id \in Ids PROVE statuses[id].result \in {NoVideo} \cup statuses[id].videos
    <3>1. PICK i \in DOMAIN cards : id = cards[i].uuid
      BY DEF Ids
    <3>2. Picked(statuses[id])
      BY <1>1, <3>1, CardFacts
    <3>3. QED
      BY <3>2 DEF Picked
  <2>2. QED
    BY <2>1 DEF ResultIsShown
<1>2. QED
  BY <1>1, RegroupInvariant, PTL

\* Regrouping keeps the shots in their order and, while no batch is run, loses no video
\* from sight (utils/videoTaskMerge.ts).
THEOREM RegroupKeepsVideos == Spec => RegroupingKeepsVideos
<1>1. RegroupInv /\ [Next]_vars =>
        [held = {} /\ ToSet(AllShots(cards')) = ToSet(AllShots(cards)) =>
           /\ AllShots(cards') = AllShots(cards)
           /\ cards' # cards => Shown \subseteq Shown']_vars
  BY NextRegroup
<1>2. QED
  BY <1>1, RegroupInvariant, PTL DEF Spec, RegroupingKeepsVideos
=============================================================================
