----------------------------- MODULE DataLemmas -----------------------------
(***************************************************************************)
(* What the proofs need to know of the operators of SequencesExt and       *)
(* FiniteSetsExt that are defined by recursion -- FlattenSeq, FoldLeft and *)
(* MapThenSumSet --, of functions defined by recursion along a sequence,   *)
(* and of cutting and joining sequences.                                   *)
(*                                                                         *)
(* Induction is over sets: of the numbers, or the finite sets, for which a *)
(* statement holds.  Some hypotheses and conclusions are predicates with a *)
(* name (Joined, Excerpt, Takes ...): the provers find the instances of    *)
(* such a lemma, and its predicate is expanded in a step of its own.       *)
(***************************************************************************)
EXTENDS Integers, Sequences, SequencesExt, FiniteSetTheorems, SequenceTheorems,
        WellFoundedInduction, TLAPS

-----------------------------------------------------------------------------
(***************************************************************************)
(* Induction on the natural numbers, for sets.  (The induction theorems of *)
(* the library take the induction hypothesis as an operator; this one is   *)
(* cited like any other fact.)                                             *)
(***************************************************************************)
LEMMA LeastNat ==
  ASSUME NEW S \in SUBSET Nat, S # {}
  PROVE  \E n \in S : \A m \in S : n <= m
<1> DEFINE R == OpToRel(<, Nat)
<1>1. IsWellFoundedOn(R, Nat)
  BY NatLessThanWellFounded
<1>2. \A x, y \in Nat : y < x => <<y, x>> \in R
  BY DEF OpToRel
<1> HIDE DEF R
<1>3. PICK x \in S : \A y \in S : ~ (<<y, x>> \in R)
  BY <1>1, WFMin
<1>4. ASSUME NEW y \in S PROVE x <= y
  <2>1. x \in Nat /\ y \in Nat
    OBVIOUS
  <2>2. ~(y < x)
    BY <1>2, <1>3, <2>1
  <2> QED BY <2>1, <2>2
<1> QED BY <1>4

(* A set of places that is not empty has a last one. *)
LEMMA GreatestNat ==
  ASSUME NEW n \in Nat, NEW S \in SUBSET (1..n), S # {}
  PROVE  \E k \in S : \A i \in S : i <= k
<1> DEFINE T == {n - i : i \in S}
<1>1. T \in SUBSET Nat /\ T # {}
  <2>1. \A i \in S : n - i \in Nat
    OBVIOUS
  <2> QED BY <2>1
<1>2. PICK m \in T : \A l \in T : m <= l
  BY <1>1, LeastNat
<1>3. PICK k \in S : m = n - k
  OBVIOUS
<1>4. ASSUME NEW i \in S PROVE i <= k
  <2>1. m <= n - i /\ i \in Nat /\ k \in Nat
    BY <1>2
  <2> QED BY <1>3, <2>1
<1> QED BY <1>4

(* A set that has 0, and with each number the next, has all of them. *)
LEMMA NatClosed ==
  ASSUME NEW T, 0 \in T, \A n \in Nat : n \in T => n + 1 \in T
  PROVE  \A n \in Nat : n \in T
<1> DEFINE S == Nat \ T
<1>1. SUFFICES ASSUME S # {}
               PROVE  FALSE
  OBVIOUS
<1>2. PICK n \in S : \A m \in S : n <= m
  BY <1>1, LeastNat
<1>3. n \in Nat /\ n # 0 /\ n - 1 \in Nat
  BY <1>2
<1>4. n - 1 \in T
  BY <1>2, <1>3
<1>5. (n - 1) + 1 \in T
  BY <1>3, <1>4
<1> QED BY <1>2, <1>3, <1>5

-----------------------------------------------------------------------------
(* w is s, of length m, followed by t, of length n. *)
Joined(S, w, s, t, m, n) ==
  /\ w \in Seq(S) /\ Len(w) = m + n
  /\ \A i \in 1..m : w[i] = s[i]
  /\ \A i \in 1..n : w[m + i] = t[i]

(* What concatenation makes of two sequences. *)
LEMMA ConcatJoins ==
  ASSUME NEW S, NEW s \in Seq(S), NEW t \in Seq(S), NEW m \in Nat, NEW n \in Nat, NEW w,
         Len(s) = m, Len(t) = n, w = s \o t
  PROVE  Joined(S, w, s, t, m, n)
<1>1. w \in Seq(S) /\ Len(w) = m + n
  OBVIOUS
<1>2. \A i \in 1..m : w[i] = s[i]
  OBVIOUS
<1>3. \A i \in 1..n : w[m + i] = t[i]
  OBVIOUS
<1> QED BY <1>1, <1>2, <1>3 DEF Joined

(* w is the n elements of s that follow the first t. *)
Excerpt(S, s, t, n, w) ==
  w \in Seq(S) /\ Len(w) = n /\ \A i \in 1..n : w[i] = s[t + i]

(* What SubSeq cuts out of a sequence. *)
LEMMA CutAt ==
  ASSUME NEW S, NEW s \in Seq(S), NEW t \in Nat, NEW n \in Nat, t + n <= Len(s)
  PROVE  Excerpt(S, s, t, n, SubSeq(s, t + 1, t + n))
<1>1. Len(s) \in Nat
  OBVIOUS
<1>0. PICK a \in 1..(Len(s) + 1), b \in 0..Len(s) : a = t + 1 /\ b = t + n
  BY <1>1
<1>2. a - 1 = t /\ (IF a <= b THEN b - a + 1 ELSE 0) = n
  BY <1>0, <1>1
<1> DEFINE w == SubSeq(s, a, b)
<1>3. w \in Seq(S) /\ Len(w) = n
  BY <1>0, <1>2, SubSeqProperties
<1>4. \A i \in 1..n : w[i] = s[t + i]
  <2>1. \A i \in 1..n : w[i] = s[a + i - 1]
    BY <1>0, <1>2, SubSeqProperties
  <2>2. \A i \in 1..n : a + i - 1 = t + i
    BY <1>0
  <2> QED BY <2>1, <2>2
<1> HIDE DEF w
<1>5. Excerpt(S, s, t, n, w)
  BY <1>3, <1>4 DEF Excerpt
<1> QED BY <1>0, <1>5 DEF w

(***************************************************************************)
(* FlattenSeq of the first k sequences of s is the k-th of its prefixes,   *)
(* g, of which each has one sequence more than the one before.             *)
(***************************************************************************)
PrefixList(T, n, s, g) ==
  /\ n \in Nat /\ \A i \in 1..n : s[i] \in Seq(T)
  /\ g \in [0..n -> Seq(T)]
  /\ g[0] = <<>>
  /\ \A i \in 0..(n - 1) : g[i + 1] = g[i] \o s[i + 1]

FirstOf(q, s, k) == q = [i \in 1..k |-> s[i]]

(* A sequence of sequences has its prefixes. *)
LEMMA PrefixesExist ==
  ASSUME NEW T, NEW n \in Nat, NEW s \in [1..n -> Seq(T)]
  PROVE  \E g : PrefixList(T, n, s, g)
<1> DEFINE Q == {m \in Nat : m <= n => \E g : PrefixList(T, m, s, g)}
<1>1. 0 \in Q
  <2>1. PrefixList(T, 0, s, [i \in 0..0 |-> <<>>])
    BY DEF PrefixList
  <2> QED BY <2>1
<1>2. ASSUME NEW m \in Nat, m \in Q
      PROVE  m + 1 \in Q
  <2>1. SUFFICES ASSUME m + 1 <= n
                 PROVE  \E g : PrefixList(T, m + 1, s, g)
    OBVIOUS
  <2>2. PICK g : PrefixList(T, m, s, g)
    BY <1>2, <2>1
  <2> DEFINE h == [i \in 0..(m + 1) |-> IF i <= m THEN g[i] ELSE g[m] \o s[m + 1]]
  <2>3. g \in [0..m -> Seq(T)] /\ s[m + 1] \in Seq(T) /\ g[m] \in Seq(T)
    BY <2>1, <2>2 DEF PrefixList
  <2>4. g[m] \o s[m + 1] \in Seq(T)
    BY <2>3, ConcatProperties
  <2>5. h \in [0..(m + 1) -> Seq(T)] /\ h[0] = <<>>
    BY <2>2, <2>3, <2>4 DEF PrefixList
  <2>6. ASSUME NEW i \in 0..m
        PROVE  h[i + 1] = h[i] \o s[i + 1]
    <3>1. CASE i < m
      <4>1. h[i + 1] = g[i + 1] /\ h[i] = g[i] /\ i \in 0..(m - 1)
        BY <3>1
      <4> QED BY <2>2, <4>1 DEF PrefixList
    <3>2. CASE i = m
      <4>1. h[m + 1] = g[m] \o s[m + 1] /\ h[m] = g[m]
        OBVIOUS
      <4> QED BY <3>2, <4>1
    <3>3. i < m \/ i = m
      OBVIOUS
    <3> QED BY <3>1, <3>2, <3>3
  <2> HIDE DEF h
  <2>7. (m + 1) - 1 = m
    OBVIOUS
  <2>0. m + 1 \in Nat /\ \A i \in 1..(m + 1) : s[i] \in Seq(T)
    BY <2>1
  <2>8. PrefixList(T, m + 1, s, h)
    BY <2>0, <2>5, <2>6, <2>7 DEF PrefixList
  <2> QED BY <2>8
<1> HIDE DEF Q
<1>3. n \in Q
  BY <1>1, <1>2, NatClosed
<1> QED BY <1>3 DEF Q

(* FlattenSeq is the last of them. *)
LEMMA FlattenIsPrefix ==
  ASSUME NEW T, NEW n, NEW s, NEW g, PrefixList(T, n, s, g),
         NEW k \in 0..n, NEW q, FirstOf(q, s, k)
  PROVE  FlattenSeq(q) = g[k]
<1> DEFINE F == CHOOSE h : h = [i \in 1..k |-> IF i = 1 THEN q[i] ELSE h[i - 1] \o q[i]]
<1>n. n \in Nat /\ \A i \in 1..n : s[i] \in Seq(T)
  BY DEF PrefixList
<1>0. q = [i \in 1..k |-> s[i]]
  BY DEF FirstOf
<1>1. Len(q) = k /\ q \in Seq(Seq(T))
  BY <1>n, <1>0
<1>2. FlattenSeq(q) = IF k = 0 THEN q ELSE F[k]
  BY <1>1 DEF FlattenSeq
<1>3. CASE k = 0
  <2>1. q = <<>>
    BY <1>0, <1>3
  <2> QED BY <1>2, <1>3, <2>1, <1>n DEF PrefixList
<1>4. CASE k > 0
  <2> DEFINE e == [i \in 1..k |-> g[i]]
  <2>1. e = [i \in 1..k |-> IF i = 1 THEN q[i] ELSE e[i - 1] \o q[i]]
    <3>1. ASSUME NEW i \in 1..k
          PROVE  g[i] = IF i = 1 THEN q[i] ELSE e[i - 1] \o q[i]
      <4>1. PICK m \in 0..(n - 1) : i = m + 1 /\ m = i - 1
        <5>1. i - 1 \in 0..(n - 1) /\ i = (i - 1) + 1
          BY <1>n
        <5> QED BY <5>1
      <4>2. g[i] = g[m] \o s[i] /\ q[i] = s[i] /\ s[i] \in Seq(T)
        <5>1. i \in 1..n
          BY <1>n
        <5> QED BY <1>0, <4>1, <5>1 DEF PrefixList
      <4>3. CASE i = 1
        <5>1. m = 0 /\ g[m] = <<>>
          BY <4>1, <4>3 DEF PrefixList
        <5>2. <<>> \o s[i] = s[i]
          BY <4>2, ConcatEmptySeq
        <5> QED BY <4>2, <4>3, <5>1, <5>2
      <4>4. CASE i # 1
        <5>1. e[m] = g[m]
          BY <4>1, <4>4
        <5> QED BY <4>1, <4>2, <4>4, <5>1
      <4> QED BY <4>3, <4>4
    <3> QED BY <3>1
  <2>2. F = [i \in 1..k |-> IF i = 1 THEN q[i] ELSE F[i - 1] \o q[i]]
    BY <2>1
  <2> HIDE DEF F
  <2>7. \A i \in 1..k : F[i] = IF i = 1 THEN q[i] ELSE F[i - 1] \o q[i]
    BY <2>2
  <2> DEFINE Q == {i \in Nat : i \in 1..k => F[i] = g[i]}
  <2>3. 0 \in Q
    OBVIOUS
  <2>4. ASSUME NEW i \in Nat, i \in Q
        PROVE  i + 1 \in Q
    <3>1. SUFFICES ASSUME i + 1 \in 1..k
                   PROVE  F[i + 1] = g[i + 1]
      OBVIOUS
    <3>2. i \in 0..(n - 1) /\ (i + 1) - 1 = i /\ i + 1 \in 1..n
      BY <3>1, <1>n
    <3>3. g[i + 1] = g[i] \o s[i + 1] /\ s[i + 1] \in Seq(T)
      BY <3>2 DEF PrefixList
    <3>4. CASE i = 0
      <4>1. F[i + 1] = s[i + 1]
        BY <1>0, <2>2, <3>1, <3>4
      <4> QED BY <3>3, <3>4, <4>1, ConcatEmptySeq DEF PrefixList
    <3>5. CASE i > 0
      <4>1. F[i + 1] = F[i] \o s[i + 1]
        <5>1. PICK j \in 1..k : j = i + 1 /\ j # 1 /\ j - 1 = i
          BY <3>1, <3>5
        <5>2. F[j] = F[j - 1] \o s[j]
          BY <1>0, <2>7, <5>1
        <5> QED BY <1>0, <5>1, <5>2
      <4>2. F[i] = g[i]
        BY <2>4, <3>1, <3>5
      <4> QED BY <3>3, <4>1, <4>2
    <3> QED BY <3>4, <3>5
  <2> HIDE DEF Q
  <2>5. k \in Q
    <3>1. k \in Nat
      OBVIOUS
    <3> QED BY <2>3, <2>4, <3>1, NatClosed
  <2>6. F[k] = g[k]
    BY <1>4, <2>5 DEF Q
  <2> QED BY <1>2, <1>4, <2>6
<1> QED BY <1>3, <1>4

(* A prefix is the beginning of every later one. *)
LEMMA PrefixesGrow ==
  ASSUME NEW T, NEW n, NEW s, NEW g, PrefixList(T, n, s, g),
         NEW k \in 0..n, NEW m \in k..n
  PROVE  /\ Len(g[k]) <= Len(g[m])
         /\ \A i \in 1..Len(g[k]) : g[m][i] = g[k][i]
<1> DEFINE Begins(j) == /\ Len(g[k]) <= Len(g[j])
                       /\ \A i \in 1..Len(g[k]) : g[j][i] = g[k][i]
           Q == {d \in Nat : k + d <= n => Begins(k + d)}
<1>n. n \in Nat /\ \A i \in 1..n : s[i] \in Seq(T)
  BY DEF PrefixList
<1>1. 0 \in Q
  <2>1. k + 0 = k /\ Len(g[k]) \in Nat
    BY DEF PrefixList
  <2> QED BY <2>1
<1>2. ASSUME NEW d \in Nat, d \in Q
      PROVE  d + 1 \in Q
  <2>1. SUFFICES ASSUME k + (d + 1) <= n
                 PROVE  Begins(k + (d + 1))
    OBVIOUS
  <2>2. PICK j \in 0..(n - 1) : j = k + d /\ j + 1 = k + (d + 1)
    BY <1>n, <2>1
  <2>3. Begins(j)
    BY <1>2, <1>n, <2>1, <2>2
  <2>4. g[j + 1] = g[j] \o s[j + 1] /\ g[j] \in Seq(T) /\ s[j + 1] \in Seq(T) /\ g[k] \in Seq(T)
    <3>1. j \in 0..n /\ j + 1 \in 1..n /\ k \in 0..n
      BY <1>n
    <3> QED BY <1>n, <3>1 DEF PrefixList
  <2>5. PICK a \in Nat, b \in Nat, c \in Nat : a = Len(g[j]) /\ b = Len(s[j + 1]) /\ c = Len(g[k])
    BY <2>4
  <2>6. Len(g[j + 1]) = a + b /\ \A i \in 1..a : g[j + 1][i] = g[j][i]
    <3>1. Joined(T, g[j + 1], g[j], s[j + 1], a, b)
      BY <2>4, <2>5, ConcatJoins
    <3> QED BY <3>1 DEF Joined
  <2>7. Begins(j + 1)
    <3>1. c <= a /\ \A i \in 1..c : g[j][i] = g[k][i]
      BY <2>3, <2>5
    <3>2. c <= a + b
      BY <3>1
    <3>3. \A i \in 1..c : i \in 1..a
      BY <2>5, <3>1
    <3>4. \A i \in 1..c : g[j + 1][i] = g[k][i]
      BY <2>6, <3>1, <3>3
    <3> QED BY <2>5, <2>6, <3>2, <3>4
  <2> QED BY <2>2, <2>7
<1>3. PICK d \in Nat : m = k + d
  <2>1. m - k \in Nat /\ m = k + (m - k)
    BY <1>n
  <2> QED BY <2>1
<1> HIDE DEF Q
<1>4. d \in Q
  BY <1>1, <1>2, NatClosed
<1> QED BY <1>3, <1>4 DEF Q

-----------------------------------------------------------------------------
(***************************************************************************)
(* Induction on the subsets of a finite set.                               *)
(***************************************************************************)
LEMMA SubsetsClosed ==
  ASSUME NEW S, IsFiniteSet(S), NEW Q, {} \in Q,
         \A s \in SUBSET S : \A x \in s : (\A y \in s : s \ {y} \in Q) => s \in Q
  PROVE  \A s \in SUBSET S : s \in Q
<1> DEFINE T == {n \in Nat : \A s \in SUBSET S : Cardinality(s) = n => s \in Q}
<1>1. \A s \in SUBSET S : IsFiniteSet(s) /\ Cardinality(s) \in Nat
  BY FS_Subset, FS_CardinalityType
<1>2. 0 \in T
  BY <1>1, FS_EmptySet
<1>3. ASSUME NEW n \in Nat, n \in T
      PROVE  n + 1 \in T
  <2>1. SUFFICES ASSUME NEW s \in SUBSET S, Cardinality(s) = n + 1
                 PROVE  s \in Q
    OBVIOUS
  <2>2. PICK x : x \in s
    <3>1. s # {}
      BY <1>1, <2>1, FS_EmptySet
    <3> QED BY <3>1
  <2>3. ASSUME NEW y \in s
        PROVE  s \ {y} \in Q
    <3>1. Cardinality(s \ {y}) = Cardinality(s) - 1
      BY <1>1, FS_RemoveElement
    <3>2. Cardinality(s \ {y}) = n /\ s \ {y} \in SUBSET S
      BY <2>1, <3>1
    <3> QED BY <1>3, <3>2
  <2> QED BY <2>2, <2>3
<1> HIDE DEF T
<1>4. \A n \in Nat : n \in T
  BY <1>2, <1>3, NatClosed
<1> QED BY <1>1, <1>4 DEF T

(***************************************************************************)
(* F[s] is the sum of f over s, for the subsets s of S, in the order in    *)
(* which MapThenSumSet takes the elements.                                 *)
(***************************************************************************)
Some(s) == CHOOSE x \in s : TRUE
Sums(S, f, F) ==
  F = [s \in SUBSET S |-> IF s = {} THEN 0 ELSE f[Some(s)] + F[s \ {Some(s)}]]

(* x is in s, and its term and the sum of the others make the sum. *)
Takes(f, F, s, x) == x \in s /\ F[s] = f[x] + F[s \ {x}]

(* A sum unrolled by one element. *)
LEMMA SumsAt ==
  ASSUME NEW S, NEW f, NEW F, Sums(S, f, F)
  PROVE  /\ F[{}] = 0
         /\ \A s \in SUBSET S : s # {} => Takes(f, F, s, Some(s))
<1>1. \A s \in SUBSET S : s # {} => Some(s) \in s
  BY DEF Some
<1>2. \A s \in SUBSET S : F[s] = IF s = {} THEN 0 ELSE f[Some(s)] + F[s \ {Some(s)}]
  BY DEF Sums
<1> QED BY <1>1, <1>2 DEF Takes

(* Sums of integers are integers. *)
LEMMA SumsInt ==
  ASSUME NEW S, IsFiniteSet(S), NEW f \in [S -> Int], NEW F, Sums(S, f, F)
  PROVE  \A s \in SUBSET S : F[s] \in Int
<1> DEFINE Q == {s \in SUBSET S : F[s] \in Int}
<1>1. {} \in Q
  BY SumsAt
<1>2. ASSUME NEW s \in SUBSET S, NEW x \in s, \A y \in s : s \ {y} \in Q
      PROVE  s \in Q
  <2>1. Some(s) \in s /\ F[s] = f[Some(s)] + F[s \ {Some(s)}]
    BY SumsAt DEF Takes
  <2>2. F[s \ {Some(s)}] \in Int /\ f[Some(s)] \in Int
    BY <1>2, <2>1
  <2> QED BY <2>1, <2>2
<1> HIDE DEF Q
<1>3. \A s \in SUBSET S : s \in Q
  BY <1>1, <1>2, SubsetsClosed
<1> QED BY <1>3 DEF Q

SumsUpTo(S, f, g, m) ==
  \A s \in SUBSET S : Cardinality(s) <= m =>
    g[s] = IF s = {} THEN 0 ELSE f[Some(s)] + g[s \ {Some(s)}]

(***************************************************************************)
(* The recursive definition of the sums has a solution, so CHOOSE finds    *)
(* it.                                                                     *)
(***************************************************************************)
LEMMA SumsExist ==
  ASSUME NEW S, IsFiniteSet(S), NEW f
  PROVE  \E F : Sums(S, f, F)
<1> DEFINE T == {m \in Nat : \E g : SumsUpTo(S, f, g, m)}
<1>1. \A s \in SUBSET S : IsFiniteSet(s) /\ Cardinality(s) \in Nat
  BY FS_Subset, FS_CardinalityType
<1>2. 0 \in T
  <2>1. \A s \in SUBSET S : Cardinality(s) <= 0 => s = {}
    BY <1>1, FS_EmptySet
  <2>2. SumsUpTo(S, f, [s \in SUBSET S |-> 0], 0)
    BY <2>1 DEF SumsUpTo
  <2> QED BY <2>2
<1>3. ASSUME NEW m \in Nat, m \in T
      PROVE  m + 1 \in T
  <2>1. PICK g : SumsUpTo(S, f, g, m)
    BY <1>3
  <2> DEFINE h == [s \in SUBSET S |-> IF Cardinality(s) <= m THEN g[s]
                                      ELSE f[Some(s)] + g[s \ {Some(s)}]]
  <2>2. ASSUME NEW s \in SUBSET S, Cardinality(s) <= m + 1, s # {}
        PROVE  h[s] = f[Some(s)] + h[s \ {Some(s)}]
    <3>1. Some(s) \in s /\ s \ {Some(s)} \in SUBSET S
      BY <2>2 DEF Some
    <3>2. Cardinality(s \ {Some(s)}) = Cardinality(s) - 1
      BY <1>1, <3>1, FS_RemoveElement
    <3>3. Cardinality(s \ {Some(s)}) <= m
      BY <1>1, <2>2, <3>2
    <3>4. h[s \ {Some(s)}] = g[s \ {Some(s)}]
      BY <3>1, <3>3
    <3>5. CASE Cardinality(s) <= m
      BY <2>1, <2>2, <3>4, <3>5 DEF SumsUpTo
    <3>6. CASE ~(Cardinality(s) <= m)
      BY <3>4, <3>6
    <3> QED BY <3>5, <3>6
  <2>3. h[{}] = 0
    <3>1. Cardinality({}) <= m /\ {} \in SUBSET S
      BY FS_EmptySet
    <3>2. g[{}] = 0
      BY <2>1, <3>1 DEF SumsUpTo
    <3> QED BY <3>1, <3>2
  <2> HIDE DEF h
  <2>4. SumsUpTo(S, f, h, m + 1)
    BY <2>2, <2>3 DEF SumsUpTo
  <2> QED BY <2>4
<1> HIDE DEF T
<1>4. PICK n \in Nat : n = Cardinality(S)
  BY <1>1
<1>5. n \in T
  BY <1>2, <1>3, NatClosed
<1>6. PICK g : SumsUpTo(S, f, g, n)
  BY <1>5 DEF T
<1>7. \A s \in SUBSET S : Cardinality(s) <= n
  BY <1>4, FS_Subset
<1> DEFINE F == [s \in SUBSET S |-> g[s]]
<1>8. \A s \in SUBSET S : g[s] = IF s = {} THEN 0 ELSE f[Some(s)] + g[s \ {Some(s)}]
  BY <1>6, <1>7 DEF SumsUpTo
<1>9. \A s \in SUBSET S : F[s] = IF s = {} THEN 0 ELSE f[Some(s)] + F[s \ {Some(s)}]
  BY <1>8
<1>10. Sums(S, f, F)
  BY <1>9 DEF Sums
<1> QED BY <1>10

(* The order does not matter. *)
IntSums(S, f, F) == IsFiniteSet(S) /\ f \in [S -> Int] /\ Sums(S, f, F)

(***************************************************************************)
(* Any element of a set can be taken out of its sum, not only the one      *)
(* CHOOSE picks.                                                           *)
(***************************************************************************)
LEMMA SumTakes ==
  ASSUME NEW S, NEW f, NEW F, IntSums(S, f, F), NEW r \in SUBSET S, NEW z \in r
  PROVE  Takes(f, F, r, z)
<1>0. IsFiniteSet(S) /\ f \in [S -> Int] /\ Sums(S, f, F)
  BY DEF IntSums
<1> DEFINE Q == {s \in SUBSET S : \A a \in s : F[s] = f[a] + F[s \ {a}]}
<1>1. {} \in Q
  OBVIOUS
<1>2. ASSUME NEW s \in SUBSET S, NEW y \in s, \A x \in s : s \ {x} \in Q
      PROVE  s \in Q
  <2>1. SUFFICES ASSUME NEW a \in s
                 PROVE  F[s] = f[a] + F[s \ {a}]
    OBVIOUS
  <2>2. PICK x \in s : F[s] = f[x] + F[s \ {x}]
    <3>1. s # {}
      OBVIOUS
    <3>2. Takes(f, F, s, Some(s))
      BY <1>0, <3>1, SumsAt
    <3> QED BY <3>2 DEF Takes
  <2>3. CASE x = a
    BY <2>2, <2>3
  <2>4. CASE x # a
    <3>1. F[s \ {x}] = f[a] + F[(s \ {x}) \ {a}]
      BY <1>2, <2>4
    <3>2. F[s \ {a}] = f[x] + F[(s \ {a}) \ {x}]
      BY <1>2, <2>4
    <3>3. (s \ {x}) \ {a} = (s \ {a}) \ {x} /\ (s \ {a}) \ {x} \in SUBSET S
      OBVIOUS
    <3>4. F[(s \ {a}) \ {x}] \in Int /\ f[a] \in Int /\ f[x] \in Int
      BY <1>0, <3>3, SumsInt
    <3>5. PICK b \in Int, c \in Int, d \in Int :
            b = f[a] /\ c = f[x] /\ d = F[(s \ {a}) \ {x}]
      BY <3>4
    <3>6. F[s \ {x}] = b + d /\ F[s \ {a}] = c + d
      BY <3>1, <3>2, <3>3, <3>5
    <3>7. F[s] = c + (b + d) /\ c + (b + d) = b + (c + d)
      BY <2>2, <3>5, <3>6
    <3> QED BY <3>5, <3>6, <3>7
  <2> QED BY <2>3, <2>4
<1> HIDE DEF Q
<1>3. \A s \in SUBSET S : s \in Q
  BY <1>0, <1>1, <1>2, SubsetsClosed
<1> QED BY <1>3 DEF Q, Takes

(* Of two sums with the same total and terms none of which is greater in   *)
(* the first, all terms are the same.                                      *)
LEMMA SameSums ==
  ASSUME NEW S, NEW f, NEW g, NEW F, NEW G, IntSums(S, f, F), IntSums(S, g, G),
         \A x \in S : f[x] <= g[x], F[S] = G[S]
  PROVE  f = g
<1>0. /\ IsFiniteSet(S) /\ f \in [S -> Int] /\ g \in [S -> Int]
      /\ Sums(S, f, F) /\ Sums(S, g, G)
  BY DEF IntSums
<1> DEFINE Q == {s \in SUBSET S : F[s] <= G[s] /\ (F[s] = G[s] => \A x \in s : f[x] = g[x])}
<1>1. {} \in Q
  <2>1. F[{}] = 0 /\ G[{}] = 0
    BY <1>0, SumsAt
  <2> QED BY <2>1
<1>2. ASSUME NEW s \in SUBSET S, NEW y \in s, \A x \in s : s \ {x} \in Q
      PROVE  s \in Q
  <2>1. PICK x \in s : F[s] = f[x] + F[s \ {x}] /\ G[s] = g[x] + G[s \ {x}]
    <3>1. s # {}
      OBVIOUS
    <3>2. Takes(f, F, s, Some(s)) /\ Takes(g, G, s, Some(s))
      BY <1>0, <3>1, SumsAt
    <3> QED BY <3>2 DEF Takes
  <2>2. /\ F[s \ {x}] <= G[s \ {x}]
        /\ F[s \ {x}] = G[s \ {x}] => \A v \in s \ {x} : f[v] = g[v]
    BY <1>2
  <2>3. s \ {x} \in SUBSET S
    OBVIOUS
  <2>4. F[s \ {x}] \in Int /\ G[s \ {x}] \in Int
    BY <1>0, <2>3, SumsInt
  <2>5. f[x] \in Int /\ g[x] \in Int /\ f[x] <= g[x]
    BY <1>0
  <2>6. F[s] <= G[s] /\ (F[s] = G[s] => F[s \ {x}] = G[s \ {x}] /\ f[x] = g[x])
    BY <2>1, <2>2, <2>4, <2>5
  <2> QED BY <2>2, <2>6
<1> HIDE DEF Q
<1>3. \A s \in SUBSET S : s \in Q
  BY <1>0, <1>1, <1>2, SubsetsClosed
<1>4. \A x \in S : f[x] = g[x]
  BY <1>3 DEF Q
<1> QED BY <1>0, <1>4

-----------------------------------------------------------------------------
(***************************************************************************)
(* Definitions by recursion along a sequence.  F has a function for each   *)
(* place: what is made there of what was made at the place before.         *)
(***************************************************************************)
(* g begins with v, and each element is made of the one before it. *)
ChainOf(V, v, n, F, g) ==
  g \in [0..n -> V] /\ g[0] = v /\ \A i \in 1..n : g[i] = F[i][g[i - 1]]

(* A chain of any length exists. *)
LEMMA ChainsExist ==
  ASSUME NEW V, NEW v \in V, NEW n \in Nat, NEW F \in [1..n -> [V -> V]]
  PROVE  \E g : ChainOf(V, v, n, F, g)
<1> DEFINE Q == {m \in Nat : m <= n => \E g : ChainOf(V, v, m, F, g)}
<1>1. 0 \in Q
  <2>1. ChainOf(V, v, 0, F, [i \in 0..0 |-> v])
    BY DEF ChainOf
  <2> QED BY <2>1
<1>2. ASSUME NEW m \in Nat, m \in Q
      PROVE  m + 1 \in Q
  <2>1. SUFFICES ASSUME m + 1 <= n
                 PROVE  \E g : ChainOf(V, v, m + 1, F, g)
    OBVIOUS
  <2>2. PICK g : ChainOf(V, v, m, F, g)
    BY <1>2, <2>1
  <2>3. PICK k \in 1..n : k = m + 1 /\ k - 1 = m
    BY <2>1
  <2> DEFINE h == [i \in 0..k |-> IF i <= m THEN g[i] ELSE F[k][g[m]]]
  <2>4. g[m] \in V /\ F[k][g[m]] \in V
    BY <2>2 DEF ChainOf
  <2>5. h \in [0..k -> V] /\ h[0] = v
    BY <2>2, <2>3, <2>4 DEF ChainOf
  <2>6. ASSUME NEW i \in 1..k
        PROVE  h[i] = F[i][h[i - 1]]
    <3>1. CASE i <= m
      <4>1. h[i] = g[i] /\ h[i - 1] = g[i - 1] /\ i \in 1..m
        BY <2>3, <3>1
      <4> QED BY <2>2, <4>1 DEF ChainOf
    <3>2. CASE i = k
      <4>1. h[k] = F[k][g[m]] /\ h[m] = g[m]
        BY <2>3
      <4> QED BY <2>3, <3>2, <4>1
    <3>3. i <= m \/ i = k
      BY <2>3
    <3> QED BY <3>1, <3>2, <3>3
  <2> HIDE DEF h
  <2>7. ChainOf(V, v, k, F, h)
    BY <2>5, <2>6 DEF ChainOf
  <2> QED BY <2>3, <2>7
<1> HIDE DEF Q
<1>3. n \in Q
  BY <1>1, <1>2, NatClosed
<1> QED BY <1>3 DEF Q

(***************************************************************************)
(* What FoldLeft defines: h[1..k] folds the first k elements, the last of  *)
(* them last.                                                              *)
(***************************************************************************)
LatestLast(V, v, n, F, h) ==
  /\ h \in [SUBSET (1..n) -> V]
  /\ \A s \in SUBSET (1..n) : h[s] = IF s = {} THEN v ELSE F[Max(s)][h[s \ {Max(s)}]]

(* Max finds the last place of a set that has it. *)
LEMMA MaxIs ==
  ASSUME NEW n \in Nat, NEW s \in SUBSET (1..n), NEW k \in s, \A i \in s : i <= k
  PROVE  Max(s) = k
<1>1. \A i \in s : i \in Nat
  OBVIOUS
<1>2. k \in s /\ \A i \in s : k >= i
  BY <1>1
<1>3. \A j \in s : (\A i \in s : j >= i) => j = k
  BY <1>1, <1>2
<1> QED BY <1>2, <1>3 DEF Max

(* The definition has a solution. *)
LEMMA FoldsExist ==
  ASSUME NEW V, NEW v \in V, NEW n \in Nat, NEW F \in [1..n -> [V -> V]]
  PROVE  \E h : LatestLast(V, v, n, F, h)
<1> DEFINE Q == {m \in Nat : m <= n => \E h : LatestLast(V, v, m, F, h)}
<1>1. 0 \in Q
  <2>1. LatestLast(V, v, 0, F, [s \in SUBSET (1..0) |-> v])
    BY DEF LatestLast
  <2> QED BY <2>1
<1>2. ASSUME NEW m \in Nat, m \in Q
      PROVE  m + 1 \in Q
  <2>1. SUFFICES ASSUME m + 1 <= n
                 PROVE  \E h : LatestLast(V, v, m + 1, F, h)
    OBVIOUS
  <2>2. PICK g : LatestLast(V, v, m, F, g)
    BY <1>2, <2>1
  <2>3. PICK k \in 1..n : k = m + 1
    BY <2>1
  <2> DEFINE h == [s \in SUBSET (1..k) |-> IF k \in s THEN F[k][g[s \ {k}]] ELSE g[s]]
  <2>4. \A s \in SUBSET (1..k) : s \ {k} \in SUBSET (1..m) /\ (k \notin s => s \in SUBSET (1..m))
    BY <2>3
  <2>5. g \in [SUBSET (1..m) -> V]
    BY <2>2 DEF LatestLast
  <2>6. h \in [SUBSET (1..k) -> V]
    BY <2>4, <2>5
  <2>7. ASSUME NEW s \in SUBSET (1..k)
        PROVE  h[s] = IF s = {} THEN v ELSE F[Max(s)][h[s \ {Max(s)}]]
    <3>1. CASE k \in s
      <4>1. Max(s) = k
        <5>1. \A i \in s : i <= k
          BY <2>3
        <5>2. k \in Nat
          OBVIOUS
        <5> QED BY <3>1, <5>1, <5>2, MaxIs
      <4>2. s \ {k} \in SUBSET (1..k) /\ k \notin s \ {k}
        OBVIOUS
      <4>3. h[s \ {k}] = g[s \ {k}] /\ h[s] = F[k][g[s \ {k}]]
        BY <3>1, <4>2
      <4> QED BY <3>1, <4>1, <4>3
    <3>2. CASE k \notin s
      <4>1. s \in SUBSET (1..m) /\ h[s] = g[s]
        BY <2>4, <3>2
      <4>2. s # {} => Max(s) \in s
        <5>1. s # {} => \E j \in s : \A i \in s : i <= j
          BY <4>1, GreatestNat
        <5> QED BY <4>1, <5>1, MaxIs
      <4>3. s \ {Max(s)} \in SUBSET (1..k) /\ k \notin s \ {Max(s)}
        BY <3>2
      <4>4. h[s \ {Max(s)}] = g[s \ {Max(s)}]
        BY <4>3
      <4>5. g[s] = IF s = {} THEN v ELSE F[Max(s)][g[s \ {Max(s)}]]
        BY <2>2, <4>1 DEF LatestLast
      <4> QED BY <4>1, <4>4, <4>5
    <3> QED BY <3>1, <3>2
  <2> HIDE DEF h
  <2>8. LatestLast(V, v, k, F, h)
    BY <2>6, <2>7 DEF LatestLast
  <2> QED BY <2>3, <2>8
<1> HIDE DEF Q
<1>3. n \in Q
  BY <1>1, <1>2, NatClosed
<1> QED BY <1>3 DEF Q

(* The last of the first k places, and the places before it. *)
LEMMA FirstPlaces ==
  ASSUME NEW n \in Nat, NEW k \in 1..n
  PROVE  /\ 1..k \in SUBSET (1..n) /\ 1..k # {} /\ Max(1..k) = k
         /\ (1..k) \ {k} = 1..(k - 1)
<1>1. PICK s \in SUBSET (1..n) : s = 1..k
  OBVIOUS
<1>2. k \in s /\ \A i \in s : i <= k
  BY <1>1
<1>3. Max(s) = k
  BY <1>2, MaxIs
<1>4. (1..k) \ {k} = 1..(k - 1) /\ 1..k # {}
  OBVIOUS
<1> QED BY <1>1, <1>3, <1>4
=============================================================================
