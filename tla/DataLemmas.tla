------------------------------ MODULE DataLemmas -----------------------------
(***************************************************************************)
(* Facts about numbers and sequences that the proofs of several components *)
(* rest on.  Induction is stated over sets and functions instead of        *)
(* operators: a set that holds 0 and with each number the next holds all   *)
(* of them, and what a step is, is given as a function.                    *)
(***************************************************************************)
EXTENDS Integers, Sequences, FiniteSets, SequencesExt, SequenceTheorems, FiniteSetTheorems,
        WellFoundedInduction, TLAPS

\* A set of natural numbers has a least element.
LEMMA LeastElement ==
  ASSUME NEW I \in SUBSET Nat, I # {}
  PROVE  \E i \in I : \A j \in I : i <= j
<1> DEFINE R == OpToRel(<, Nat)
<1>1. IsWellFoundedOn(R, Nat)
  BY NatLessThanWellFounded
<1>2. PICK i \in I : \A j \in I : ~(<<j, i>> \in R)
  BY <1>1, WFMin
<1>3. \A j \in I : ~(j < i)
  BY <1>2 DEF OpToRel
<1> QED
  BY <1>3

\* Induction up to a bound.
LEMMA UpTo ==
  ASSUME NEW N \in Nat, NEW Q, 0 \in Q, \A n \in 0..(N - 1) : n \in Q => n + 1 \in Q
  PROVE  \A n \in 0..N : n \in Q
<1> SUFFICES ASSUME NEW m \in 0..N, m \notin Q PROVE FALSE
  OBVIOUS
<1> DEFINE I == {n \in 0..N : n \notin Q}
<1>1. I \in SUBSET Nat /\ I # {}
  OBVIOUS
<1>2. PICK i \in I : \A j \in I : i <= j
  BY <1>1, LeastElement
<1>3. i # 0 /\ i - 1 \in 0..(N - 1) /\ i - 1 \in 0..N /\ ~(i <= i - 1) /\ i - 1 + 1 = i
  OBVIOUS
<1>4. i - 1 \in Q
  BY <1>2, <1>3
<1> QED
  BY <1>3, <1>4

\* What is computed step by step from a first value exists.
Steps(V, N) == [V \X (1..N) -> V]
LEMMA Folded ==
  ASSUME NEW N \in Nat, NEW V, NEW base \in V, NEW F \in Steps(V, N)
  PROVE  \E u \in [0..N -> V] : u[0] = base /\ \A n \in 1..N : u[n] = F[<<u[n - 1], n>>]
<1> DEFINE Is(u, m) == u[0] = base /\ \A n \in 1..m : u[n] = F[<<u[n - 1], n>>]
           Q == {m \in Nat : \E u \in [0..m -> V] : Is(u, m)}
<1>1. 0 \in Q
  <2>1. [k \in 0..0 |-> base] \in [0..0 -> V] /\ Is([k \in 0..0 |-> base], 0)
    OBVIOUS
  <2> QED
    BY <2>1
<1>2. ASSUME NEW m \in 0..(N - 1), m \in Q PROVE m + 1 \in Q
  <2>1. PICK u \in [0..m -> V] : Is(u, m)
    BY <1>2
  <2>2. PICK e \in V : e = F[<<u[m], m + 1>>]
    <3>1. u[m] \in V /\ m + 1 \in 1..N
      OBVIOUS
    <3> QED
      BY <3>1 DEF Steps
  <2>3. PICK w : w = [k \in 0..(m + 1) |-> IF k <= m THEN u[k] ELSE e]
    OBVIOUS
  <2>4. w \in [0..(m + 1) -> V]
    BY <2>2, <2>3
  <2>5. w[0] = base /\ w[m + 1] = e /\ \A k \in 0..m : w[k] = u[k]
    BY <2>1, <2>3
  <2>6. ASSUME NEW n \in 1..(m + 1) PROVE w[n] = F[<<w[n - 1], n>>]
    <3>1. CASE n \in 1..m
      <4>1. n - 1 \in 0..m /\ n \in 0..m
        BY <3>1
      <4>2. w[n] = u[n] /\ w[n - 1] = u[n - 1]
        BY <2>5, <4>1
      <4> QED
        BY <2>1, <3>1, <4>2
    <3>2. CASE n = m + 1
      <4>1. n - 1 = m /\ w[m] = u[m]
        BY <2>5, <3>2
      <4> QED
        BY <2>2, <2>5, <3>2, <4>1
    <3> QED
      BY <3>1, <3>2
  <2>7. Is(w, m + 1)
    BY <2>5, <2>6
  <2> QED
    BY <2>4, <2>7
<1> HIDE DEF Q
<1>3. N \in Q
  BY <1>1, <1>2, UpTo
<1> QED
  BY <1>3 DEF Q
------------------------------------------------------------------------------
\* What is in a sequence when an element is appended, taken from its head, or removed.

LEMMA Appended ==
  ASSUME NEW S, NEW s \in Seq(S), NEW e \in S
  PROVE  \A x : x \in ToSet(Append(s, e)) <=> x \in ToSet(s) \/ x = e
<1>1. /\ Len(s) \in Nat /\ DOMAIN s = 1..Len(s)
      /\ DOMAIN Append(s, e) = 1..(Len(s) + 1)
      /\ Append(s, e)[Len(s) + 1] = e
      /\ \A i \in 1..Len(s) : Append(s, e)[i] = s[i]
  OBVIOUS
<1>2. Len(s) + 1 \in 1..(Len(s) + 1) /\ \A i \in 1..(Len(s) + 1) : i \in 1..Len(s) \/ i = Len(s) + 1
  BY <1>1
<1>3. \A i \in 1..Len(s) : i \in 1..(Len(s) + 1)
  BY <1>1
<1> QED
  BY <1>1, <1>2, <1>3 DEF ToSet

\* Where the elements of a sequence are once another is appended.
LEMMA Extended ==
  ASSUME NEW S, NEW s \in Seq(S), NEW t \in Seq(S)
  PROVE  /\ s \o t \in Seq(S)
         /\ \A n \in DOMAIN s : n \in DOMAIN (s \o t) /\ (s \o t)[n] = s[n]
         /\ \A k \in DOMAIN t : /\ Len(s) + k \in DOMAIN (s \o t) /\ (s \o t)[Len(s) + k] = t[k]
                               /\ Len(s) + k \notin DOMAIN s
         /\ \A n \in DOMAIN (s \o t) : n \in DOMAIN s \/ \E k \in DOMAIN t : n = Len(s) + k
<1>0. PICK r : r = s \o t
  OBVIOUS
<1>1. PICK a \in Nat : a = Len(s) /\ DOMAIN s = 1..a
  BY LenProperties
<1>2. PICK b \in Nat : b = Len(t) /\ DOMAIN t = 1..b
  BY LenProperties
<1>3. /\ r \in Seq(S) /\ Len(r) = a + b
      /\ \A i \in 1..(a + b) : r[i] = IF i <= a THEN s[i] ELSE t[i - a]
  BY <1>0, <1>1, <1>2, ConcatProperties
<1>4. DOMAIN r = 1..(a + b)
  BY <1>3, LenProperties
<1>5. \A n \in 1..a : n \in 1..(a + b) /\ n <= a
  OBVIOUS
<1>6. \A k \in 1..b : a + k \in 1..(a + b) /\ ~(a + k <= a) /\ a + k - a = k /\ a + k \notin 1..a
  OBVIOUS
<1>7. \A n \in 1..(a + b) : n \in 1..a \/ (n - a \in 1..b /\ n = a + (n - a))
  OBVIOUS
<1>8. \A n \in 1..(a + b) : n \in 1..a \/ \E k \in 1..b : n = a + k
  BY <1>7
<1>9. \A n \in DOMAIN s : n \in DOMAIN r /\ r[n] = s[n]
  BY <1>1, <1>3, <1>4, <1>5
<1>10. \A k \in DOMAIN t : /\ Len(s) + k \in DOMAIN r /\ r[Len(s) + k] = t[k]
                          /\ Len(s) + k \notin DOMAIN s
  <2> SUFFICES ASSUME NEW k \in 1..b
               PROVE  a + k \in 1..(a + b) /\ r[a + k] = t[k] /\ a + k \notin 1..a
    BY <1>1, <1>2, <1>4
  <2>1. r[a + k] = IF a + k <= a THEN s[a + k] ELSE t[a + k - a]
    BY <1>3, <1>6
  <2> QED
    BY <1>6, <2>1
<1>11. \A n \in DOMAIN r : n \in DOMAIN s \/ \E k \in DOMAIN t : n = Len(s) + k
  BY <1>1, <1>2, <1>4, <1>8
<1> QED
  BY <1>0, <1>3, <1>9, <1>10, <1>11, Zenon

LEMMA HeadOrTail ==
  ASSUME NEW S, NEW s \in Seq(S), s # <<>>
  PROVE  \A x : x \in ToSet(s) <=> x = Head(s) \/ x \in ToSet(Tail(s))
<1>1. /\ Len(s) \in Nat /\ Len(s) >= 1 /\ DOMAIN s = 1..Len(s) /\ Head(s) = s[1]
      /\ DOMAIN Tail(s) = 1..(Len(s) - 1)
      /\ \A i \in 1..(Len(s) - 1) : Tail(s)[i] = s[i + 1]
  OBVIOUS
<1>2. \A i \in 1..(Len(s) - 1) : i + 1 \in 1..Len(s)
  BY <1>1
<1>3. \A i \in 1..Len(s) : i = 1 \/ (i - 1 \in 1..(Len(s) - 1) /\ i - 1 + 1 = i)
  BY <1>1
<1>4. 1 \in 1..Len(s)
  BY <1>1
<1>5. ASSUME NEW x \in ToSet(s), x # Head(s) PROVE x \in ToSet(Tail(s))
  <2>1. PICK i \in 1..Len(s) : s[i] = x
    BY <1>1 DEF ToSet
  <2>2. i - 1 \in 1..(Len(s) - 1) /\ Tail(s)[i - 1] = x
    BY <1>1, <1>3, <1>5, <2>1
  <2> QED
    BY <1>1, <2>2 DEF ToSet
<1>6. ASSUME NEW x \in ToSet(Tail(s)) PROVE x \in ToSet(s)
  <2>1. PICK i \in 1..(Len(s) - 1) : Tail(s)[i] = x
    BY <1>1 DEF ToSet
  <2> QED
    BY <1>1, <1>2, <2>1 DEF ToSet
<1>7. Head(s) \in ToSet(s)
  BY <1>1, <1>4 DEF ToSet
<1> QED
  BY <1>5, <1>6, <1>7

LEMMA Counting ==
  ASSUME NEW n \in Nat, NEW i \in 1..n
  PROVE  /\ i \in Int /\ n \in Int /\ i - 1 \in Nat /\ n - i \in Nat /\ n - 1 \in Nat
         /\ 1..(i - 1) \subseteq 1..n /\ (i + 1)..n \subseteq 1..n
         /\ (IF 1 <= i - 1 THEN i - 1 - 1 + 1 ELSE 0) = i - 1
         /\ (IF i + 1 <= n THEN n - (i + 1) + 1 ELSE 0) = n - i
         /\ i - 1 - 1 + 1 = i - 1 /\ n - (i + 1) + 1 = n - i
         /\ i - 1 + (n - i) = n - 1
         /\ \A j \in Int : 1 + j - 1 = j /\ i + 1 + j - 1 = i + j
         /\ \A j \in 1..(n - 1) : /\ j \in 1..n /\ j + 1 \in 1..n
                                  /\ j < i <=> j <= i - 1
                                  /\ j < i => j \in 1..(i - 1)
                                  /\ ~(j < i) => /\ j - (i - 1) \in 1..(n - i)
                                                 /\ i + (j - (i - 1)) = j + 1
         /\ \A j \in 1..n : /\ j < i => j \in 1..(n - 1)
                            /\ j > i => /\ j - 1 \in 1..(n - 1) /\ ~(j - 1 < i)
                                        /\ j - 1 + 1 = j
                            /\ j < i \/ j = i \/ j > i
  OBVIOUS

LEMMA RemovedAt ==
  ASSUME NEW S, NEW s \in Seq(S), NEW i \in DOMAIN s
  PROVE  /\ RemoveAt(s, i) \in Seq(S)
         /\ \A x : x # s[i] => (x \in ToSet(RemoveAt(s, i)) <=> x \in ToSet(s))
<1> DEFINE a == SubSeq(s, 1, i - 1)
           b == SubSeq(s, i + 1, Len(s))
<1>1. /\ Len(s) \in Nat /\ DOMAIN s = 1..Len(s) /\ i \in 1..Len(s)
      /\ \A j \in 1..Len(s) : s[j] \in S
  BY LenProperties, ElementOfSeq
<1>c. PICK n \in Nat : n = Len(s) /\ i \in 1..n
  BY <1>1
<1>2. a \in Seq(S) /\ Len(a) = i - 1 /\ \A j \in 1..(i - 1) : a[j] = s[j]
  <2>1. 1 \in Int /\ i - 1 \in Int /\ \A j \in 1..(i - 1) : s[j] \in S
    BY <1>1, <1>c, Counting
  <2>2. /\ a \in Seq(S) /\ Len(a) = IF 1 <= i - 1 THEN i - 1 - 1 + 1 ELSE 0
        /\ \A j \in 1..(i - 1 - 1 + 1) : a[j] = s[1 + j - 1]
    BY <2>1, SubSeqProperties
  <2> HIDE DEF a
  <2> QED
    BY <1>c, <2>2, Counting
<1>3. b \in Seq(S) /\ Len(b) = n - i /\ \A j \in 1..(n - i) : b[j] = s[i + j]
  <2>1. i + 1 \in Int /\ Len(s) \in Int /\ \A j \in (i + 1)..Len(s) : s[j] \in S
    BY <1>1, <1>c, Counting
  <2>2. /\ b \in Seq(S) /\ Len(b) = IF i + 1 <= n THEN n - (i + 1) + 1 ELSE 0
        /\ \A j \in 1..(n - (i + 1) + 1) : b[j] = s[i + 1 + j - 1]
    BY <1>c, <2>1, SubSeqProperties
  <2> HIDE DEF b
  <2> QED
    BY <1>c, <2>2, Counting
<1> HIDE DEF a, b
<1>4. /\ a \o b \in Seq(S) /\ DOMAIN (a \o b) = 1..(n - 1)
      /\ \A j \in 1..(n - 1) : (a \o b)[j] = IF j < i THEN s[j] ELSE s[j + 1]
  <2>0. a \in Seq(S) /\ b \in Seq(S) /\ Len(a) = i - 1 /\ Len(b) = n - i
    BY <1>2, <1>3
  <2>c. /\ a \o b \in Seq(S) /\ Len(a \o b) = Len(a) + Len(b)
        /\ \A j \in 1..(Len(a) + Len(b)) :
             (a \o b)[j] = IF j <= Len(a) THEN a[j] ELSE b[j - Len(a)]
    BY <2>0, ConcatProperties
  <2>1. /\ a \o b \in Seq(S) /\ Len(a \o b) = i - 1 + (n - i)
        /\ \A j \in 1..(i - 1 + (n - i)) :
             (a \o b)[j] = IF j <= i - 1 THEN a[j] ELSE b[j - (i - 1)]
    BY <2>0, <2>c
  <2>2. Len(a \o b) = n - 1
    BY <1>c, <2>1, Counting
  <2>3. DOMAIN (a \o b) = 1..(n - 1)
    BY <2>1, <2>2, LenProperties
  <2>4. ASSUME NEW j \in 1..(n - 1)
        PROVE  (a \o b)[j] = IF j < i THEN s[j] ELSE s[j + 1]
    <3>0. (a \o b)[j] = IF j <= i - 1 THEN a[j] ELSE b[j - (i - 1)]
      BY <1>c, <2>1, Counting
    <3>1. CASE j < i
      BY <1>2, <1>c, <3>0, <3>1, Counting
    <3>2. CASE ~(j < i)
      <4>1. j - (i - 1) \in 1..(n - i) /\ i + (j - (i - 1)) = j + 1 /\ ~(j <= i - 1)
        BY <1>c, <3>2, Counting
      <4> QED
        BY <1>3, <3>0, <3>2, <4>1
    <3> QED
      BY <3>1, <3>2
  <2> QED
    BY <2>1, <2>3, <2>4
<1>5. RemoveAt(s, i) = a \o b
  BY DEF RemoveAt, a, b
<1>6. ASSUME NEW x, x # s[i] PROVE x \in ToSet(a \o b) <=> x \in ToSet(s)
  <2>1. ASSUME x \in ToSet(a \o b) PROVE x \in ToSet(s)
    <3>1. PICK j \in 1..(n - 1) : x = (a \o b)[j]
      BY <1>4, <2>1 DEF ToSet
    <3>2. j \in 1..n /\ j + 1 \in 1..n
      BY <1>c, Counting
    <3>3. x = s[j] \/ x = s[j + 1]
      BY <1>4, <3>1
    <3> QED
      BY <1>1, <1>c, <3>2, <3>3 DEF ToSet
  <2>2. ASSUME x \in ToSet(s) PROVE x \in ToSet(a \o b)
    <3>1. PICK j \in 1..n : x = s[j]
      BY <1>1, <1>c, <2>2 DEF ToSet
    <3>2. CASE j < i
      <4>1. j \in 1..(n - 1) /\ (a \o b)[j] = x
        BY <1>c, <1>4, <3>1, <3>2, Counting
      <4> QED
        BY <1>4, <4>1 DEF ToSet
    <3>3. CASE j > i
      <4>1. j - 1 \in 1..(n - 1) /\ ~(j - 1 < i) /\ j - 1 + 1 = j
        BY <1>c, <3>3, Counting
      <4>2. (a \o b)[j - 1] = x
        BY <1>4, <3>1, <4>1
      <4> QED
        BY <1>4, <4>1, <4>2 DEF ToSet
    <3> QED
      BY <1>c, <1>6, <3>1, <3>2, <3>3, Counting
  <2> QED
    BY <2>1, <2>2
<1> QED
  BY <1>4, <1>5, <1>6
==============================================================================
