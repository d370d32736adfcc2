------------------------------- MODULE PlacesProofs -------------------------------
(***************************************************************************)
(* What a list in order is, and that sorting by places, taking a part,     *)
(* joining and taking the last elements give one.                          *)
(***************************************************************************)
EXTENDS Places, FiniteSetTheorems, SequenceTheorems, TLAPS

LEMMA Ranks ==
    ASSUME NEW S, IsFiniteSet(S), NEW below \in [S -> SUBSET S],
           \A x \in S : x \notin below[x],
           \A x, y \in S : x \in below[y] => below[x] \subseteq below[y],
           NEW x \in S
    PROVE  /\ Cardinality(below[x]) \in 0..(Cardinality(S) - 1)
           /\ \A y \in S : x \in below[y] => Cardinality(below[x]) < Cardinality(below[y])
<1> DEFINE T == S \ {x}
           B == below[x]
<1>1. B \in SUBSET T /\ x \notin B
  BY Zenon
<1>2. /\ IsFiniteSet(T) /\ Cardinality(T) = Cardinality(S) - 1 /\ Cardinality(S) \in Nat
  BY FS_RemoveElement, FS_CardinalityType
<1> HIDE DEF T, B
<1>3. IsFiniteSet(B) /\ Cardinality(B) <= Cardinality(T)
  BY <1>1, <1>2, FS_Subset
<1>4. Cardinality(B) \in Nat
  BY <1>3, FS_CardinalityType
<1>5. ASSUME NEW y \in S, x \in below[y]
      PROVE  Cardinality(B) < Cardinality(below[y])
  <2> DEFINE C == below[y]
  <2>1. B \cup {x} \in SUBSET C /\ C \in SUBSET S
    BY <1>5 DEF B
  <2> HIDE DEF C
  <2>2. IsFiniteSet(C)
    BY <2>1, FS_Subset
  <2>3. Cardinality(B \cup {x}) = Cardinality(B) + 1
    BY <1>1, <1>3, FS_AddElement
  <2>4. Cardinality(B \cup {x}) <= Cardinality(C) /\ Cardinality(C) \in Nat
    BY <2>1, <2>2, FS_Subset, FS_CardinalityType
  <2>5. Cardinality(B) < Cardinality(C)
    BY <1>4, <2>3, <2>4
  <2> QED BY <2>5 DEF C
<1>6. Cardinality(B) \in 0..(Cardinality(S) - 1)
  BY <1>2, <1>3, <1>4
<1> QED BY <1>5, <1>6 DEF B

\* In a total order each element has its place, and the places are all taken.
LEMMA PlacesInOrder ==
    ASSUME NEW S, IsFiniteSet(S), NEW below \in [S -> SUBSET S],
           \A x \in S : x \notin below[x],
           \A x, y \in S : x \in below[y] => below[x] \subseteq below[y],
           \A x, y \in S : x # y => x \in below[y] \/ y \in below[x]
    PROVE  /\ InPlaces(S, below) \in Seq(S) /\ Len(InPlaces(S, below)) \in Nat
           /\ \A x \in S : \E i \in 1..Len(InPlaces(S, below)) : InPlaces(S, below)[i] = x
           /\ \A i \in 1..Len(InPlaces(S, below)) : InPlaces(S, below)[i] \in S
           /\ \A i, j \in 1..Len(InPlaces(S, below)) :
                i < j => InPlaces(S, below)[i] \in below[InPlaces(S, below)[j]]
<1> DEFINE n == Cardinality(S)
           rank == [x \in S |-> Cardinality(below[x]) + 1]
           q == InPlaces(S, below)
<1>1. n \in Nat
  BY FS_CardinalityType
<1>2. \A x \in S : Cardinality(below[x]) \in 0..(n - 1)
  BY Ranks
<1>3. \A x, y \in S : x \in below[y] => Cardinality(below[x]) < Cardinality(below[y])
  BY Ranks
<1>4. rank \in [S -> 1..n]
  BY <1>1, <1>2
<1>5. ASSUME NEW x \in S, NEW y \in S, x \in below[y]
      PROVE  rank[x] < rank[y]
  <2> DEFINE k == Cardinality(below[x])
             m == Cardinality(below[y])
  <2>1. k \in Int /\ m \in Int /\ k < m
    BY <1>1, <1>2, <1>3, <1>5
  <2>2. rank[x] = k + 1 /\ rank[y] = m + 1
    OBVIOUS
  <2> HIDE DEF k, m, rank
  <2> QED BY <2>1, <2>2
<1>6. \A x, y \in S : rank[x] = rank[y] => x = y
  <2> SUFFICES ASSUME NEW x \in S, NEW y \in S, rank[x] = rank[y], x # y PROVE FALSE
    OBVIOUS
  <2> HIDE DEF rank, n
  <2>1. rank[x] \in Int /\ rank[y] \in Int
    BY <1>1, <1>4
  <2>2. rank[x] < rank[y] \/ rank[y] < rank[x]
    BY <1>5
  <2> QED BY <2>1, <2>2
<1>7. ASSUME NEW k \in 1..n
      PROVE  q[k] \in S /\ rank[q[k]] = k
  <2>1. \A x \in S : (Cardinality(below[x]) = k - 1 <=> rank[x] = k)
    BY <1>1, <1>2
  <2>2. q[k] = CHOOSE x \in S : Cardinality(below[x]) = k - 1
    BY DEF InPlaces
  <2>3. (CHOOSE x \in S : Cardinality(below[x]) = k - 1) = CHOOSE x \in S : rank[x] = k
    <3> HIDE DEF rank
    <3> QED BY <2>1
  <2>4. IsFiniteSet(1..n) /\ Cardinality(1..n) = n
    BY <1>1, FS_Interval
  <2> HIDE DEF rank, q, n
  <2>5. rank \in Injection(S, 1..n)
    BY <1>4, <1>6 DEF Injection, IsInjective
  <2>6. rank \in Surjection(S, 1..n)
    BY <2>4, <2>5, FS_Injection DEF n
  <2>7. \E x \in S : rank[x] = k
    BY <2>6 DEF Surjection
  <2> QED BY <2>2, <2>3, <2>7
<1>8. q = [k \in 1..n |-> q[k]]
  <2> DEFINE at(k) == CHOOSE x \in S : Cardinality(below[x]) = k - 1
             ordered == [k \in 1..n |-> at(k)]
  <2>1. q = ordered
    BY DEF InPlaces
  <2>2. ordered = [k \in 1..n |-> ordered[k]]
    <3> HIDE DEF at
    <3> QED OBVIOUS
  <2> HIDE DEF q, ordered
  <2> QED BY <2>1, <2>2
<1> HIDE DEF rank, q, n
<1>9. q \in [1..n -> S]
  BY <1>7, <1>8
<1>10. q \in Seq(S) /\ Len(q) = n
  BY <1>1, <1>9, SeqDef, LenProperties
<1>11. ASSUME NEW x \in S PROVE \E i \in 1..n : q[i] = x
  <2>1. PICK k \in 1..n : k = rank[x]
    BY <1>4
  <2>2. q[k] \in S /\ rank[q[k]] = rank[x]
    BY <1>7, <2>1
  <2> QED BY <1>6, <2>2
<1>12. ASSUME NEW i \in 1..n, NEW j \in 1..n, i < j
       PROVE  q[i] \in below[q[j]]
  <2>1. PICK x, y : x = q[i] /\ y = q[j]
    OBVIOUS
  <2>2. /\ x \in S /\ y \in S /\ i \in Int /\ j \in Int /\ rank[x] = i /\ rank[y] = j
    BY <1>1, <1>7, <2>1
  <2>3. x # y /\ ~(rank[y] < rank[x])
    BY <1>12, <2>2
  <2>4. x \in below[y]
    BY <1>5, <2>2, <2>3
  <2> QED BY <2>1, <2>4
<1>13. /\ q \in Seq(S) /\ Len(q) \in Nat
       /\ \A x \in S : \E i \in 1..Len(q) : q[i] = x
       /\ \A i \in 1..Len(q) : q[i] \in S
       /\ \A i, j \in 1..Len(q) : i < j => q[i] \in below[q[j]]
  BY <1>1, <1>7, <1>10, <1>11, <1>12
<1> QED BY <1>13 DEF q

\* q has the elements of S, each of them once, in this order.
Lists(q, S, below) ==
    /\ q \in Seq(S) /\ Len(q) \in Nat
    /\ \A x \in S : \E i \in 1..Len(q) : q[i] = x
    /\ \A i \in 1..Len(q) : q[i] \in S
    /\ \A i, j \in 1..Len(q) : i < j => q[i] \in below[q[j]]

LEMMA InPlacesLists ==
    ASSUME NEW S, IsFiniteSet(S), NEW below \in [S -> SUBSET S],
           \A x \in S : x \notin below[x],
           \A x, y \in S : x \in below[y] => below[x] \subseteq below[y],
           \A x, y \in S : x # y => x \in below[y] \/ y \in below[x]
    PROVE  Lists(InPlaces(S, below), S, below)
  BY PlacesInOrder DEF Lists

\* A part of a list in order.
LEMMA PickedLists ==
    ASSUME NEW q, NEW S, NEW below, Lists(q, S, below), NEW I \in SUBSET (1..Len(q))
    PROVE  Lists(Picked(q, I), {q[i] : i \in I}, below)
<1> DEFINE lower == [i \in I |-> {j \in I : j < i}]
           at == InPlaces(I, lower)
           picked == Picked(q, I)
           T == {q[i] : i \in I}
           n == Cardinality(I)
<1>1. Len(q) \in Nat /\ \A i \in I : i \in Int
  BY DEF Lists
<1>2. IsFiniteSet(I)
  <2>1. IsFiniteSet(1..Len(q))
    BY <1>1, FS_Interval
  <2> QED BY <2>1, FS_Subset
<1>3. /\ lower \in [I -> SUBSET I]
      /\ \A i, j \in I : j \in lower[i] <=> j < i
  OBVIOUS
<1> HIDE DEF lower
<1>4. Lists(at, I, lower)
  <2>1. \A i \in I : i \notin lower[i]
    BY <1>1, <1>3
  <2>2. \A i, j \in I : i \in lower[j] => lower[i] \subseteq lower[j]
    <3> SUFFICES ASSUME NEW i \in I, NEW j \in I, i \in lower[j], NEW k \in lower[i]
                 PROVE  k \in lower[j]
      OBVIOUS
    <3>1. k \in I
      BY <1>3
    <3> QED BY <1>1, <1>3, <3>1
  <2>3. \A i, j \in I : i # j => i \in lower[j] \/ j \in lower[i]
    BY <1>1, <1>3
  <2> QED BY <1>2, <1>3, <2>1, <2>2, <2>3, InPlacesLists
<1>5. n \in Nat
  BY <1>2, FS_CardinalityType
<1>6. Len(at) = n
  <2>1. at = [k \in 1..n |-> CHOOSE x \in I : Cardinality(lower[x]) = k - 1]
    BY DEF InPlaces
  <2> HIDE DEF n, at
  <2>2. DOMAIN at = 1..n
    BY <2>1
  <2> QED BY <1>4, <1>5, <2>2, LenProperties DEF Lists
<1>7. picked = [k \in 1..n |-> q[at[k]]]
  BY DEF Picked, lower
<1> HIDE DEF n, at, picked
<1>8. /\ \A k \in 1..n : at[k] \in I /\ picked[k] = q[at[k]]
      /\ \A i \in I : \E k \in 1..n : at[k] = i
      /\ \A k, l \in 1..n : k < l => at[k] < at[l]
  BY <1>3, <1>4, <1>6, <1>7 DEF Lists
<1>9. picked \in [1..n -> T]
  BY <1>7, <1>8
<1>10. picked \in Seq(T) /\ Len(picked) = n
  BY <1>5, <1>9, SeqDef, LenProperties
<1>11. \A k, l \in 1..n : k < l => picked[k] \in below[picked[l]]
  <2> SUFFICES ASSUME NEW k \in 1..n, NEW l \in 1..n, k < l
               PROVE  picked[k] \in below[picked[l]]
    OBVIOUS
  <2>1. PICK i \in I, j \in I : i = at[k] /\ j = at[l] /\ i < j
    BY <1>8
  <2>2. q[i] \in below[q[j]]
    BY <1>1, <2>1 DEF Lists
  <2> QED BY <1>8, <2>1, <2>2
<1>12. \A x \in T : \E k \in 1..n : picked[k] = x
  BY <1>8
<1>13. Lists(picked, T, below)
  BY <1>5, <1>8, <1>10, <1>11, <1>12 DEF Lists
<1> QED BY <1>13 DEF picked

\* Two lists one after the other.
LEMMA JoinedLists ==
    ASSUME NEW p, NEW q, NEW S, NEW T, NEW below, Lists(p, S, below), Lists(q, T, below),
           \A x \in S : \A y \in T : x \in below[y]
    PROVE  Lists(p \o q, S \cup T, below)
<1> DEFINE m == Len(p)
           n == Len(q)
           U == S \cup T
           r == p \o q
<1>1. m \in Nat /\ n \in Nat /\ p \in Seq(U) /\ q \in Seq(U)
  <2>1. m \in Nat /\ n \in Nat /\ p \in Seq(S) /\ q \in Seq(T)
    BY DEF Lists
  <2>2. p \in [1..m -> S] /\ q \in [1..n -> T]
    BY <2>1, LenProperties
  <2> HIDE DEF m, n
  <2>3. p \in [1..m -> U] /\ q \in [1..n -> U]
    BY <2>2
  <2> QED BY <2>1, <2>3, SeqDef
<1>2. /\ r \in Seq(U) /\ Len(r) = m + n
      /\ \A i \in 1..(m + n) : r[i] = IF i <= m THEN p[i] ELSE q[i - m]
  <2> HIDE DEF U
  <2> QED BY <1>1, ConcatProperties
<1>3. /\ \A i \in 1..m : p[i] \in S
      /\ \A i \in 1..n : q[i] \in T
      /\ \A x \in S : \E i \in 1..m : p[i] = x
      /\ \A x \in T : \E i \in 1..n : q[i] = x
      /\ \A i, j \in 1..m : i < j => p[i] \in below[p[j]]
      /\ \A i, j \in 1..n : i < j => q[i] \in below[q[j]]
  BY DEF Lists
<1> HIDE DEF m, n, r
<1>4. /\ \A i \in 1..m : i \in 1..(m + n) /\ r[i] = p[i]
      /\ \A i \in 1..n : m + i \in 1..(m + n) /\ r[m + i] = q[i]
  <2>1. ASSUME NEW i \in 1..m PROVE i \in 1..(m + n) /\ r[i] = p[i]
    BY <1>1, <1>2
  <2>2. ASSUME NEW i \in 1..n PROVE m + i \in 1..(m + n) /\ r[m + i] = q[i]
    <3>1. PICK k : k = m + i
      OBVIOUS
    <3>2. k \in 1..(m + n) /\ ~(k <= m) /\ k - m = i
      BY <1>1, <3>1
    <3>3. r[k] = q[i]
      BY <1>2, <3>2
    <3> QED BY <3>1, <3>2, <3>3
  <2> QED BY <2>1, <2>2
<1>5. \A i \in 1..(m + n) : i \in 1..m \/ \E k \in 1..n : i = m + k
  <2> SUFFICES ASSUME NEW i \in 1..(m + n), i \notin 1..m
               PROVE  \E k \in 1..n : i = m + k
    OBVIOUS
  <2>1. i - m \in 1..n /\ i = m + (i - m)
    BY <1>1
  <2> QED BY <2>1
<1>6. \A i \in 1..(m + n) : r[i] \in U
  BY <1>3, <1>4, <1>5
<1>7. \A x \in U : \E i \in 1..(m + n) : r[i] = x
  <2>1. ASSUME NEW x \in S PROVE \E i \in 1..(m + n) : r[i] = x
    BY <1>3, <1>4
  <2>2. ASSUME NEW x \in T PROVE \E i \in 1..(m + n) : r[i] = x
    <3>1. PICK k \in 1..n : q[k] = x
      BY <1>3
    <3> QED BY <1>4, <3>1
  <2> QED BY <2>1, <2>2
<1>8. ASSUME NEW i \in 1..(m + n), NEW j \in 1..(m + n), i < j
      PROVE  r[i] \in below[r[j]]
  <2>1. CASE j \in 1..m
    <3>1. i \in 1..m
      BY <1>1, <1>8, <2>1
    <3> QED BY <1>3, <1>4, <1>8, <2>1, <3>1
  <2>2. CASE i \in 1..m /\ j \notin 1..m
    <3>1. PICK k \in 1..n : j = m + k
      BY <1>5, <2>2
    <3> QED BY <1>3, <1>4, <2>2, <3>1
  <2>3. CASE i \notin 1..m /\ j \notin 1..m
    <3>1. PICK k \in 1..n, l \in 1..n : i = m + k /\ j = m + l
      BY <1>5, <2>3
    <3>2. k < l
      BY <1>1, <1>8, <3>1
    <3> QED BY <1>3, <1>4, <3>1, <3>2
  <2> QED BY <2>1, <2>2, <2>3
<1>9. Lists(r, U, below)
  BY <1>1, <1>2, <1>6, <1>7, <1>8 DEF Lists
<1> QED BY <1>9 DEF r, U

\* A list in order has its elements once.
LEMMA ListCardinality ==
    ASSUME NEW q, NEW S, NEW below, Lists(q, S, below), \A x \in S : x \notin below[x]
    PROVE  IsFiniteSet(S) /\ Cardinality(S) = Len(q)
<1> DEFINE n == Len(q)
<1>1. n \in Nat /\ q \in [1..n -> S] /\ \A x \in S : \E i \in 1..n : q[i] = x
  BY LenProperties DEF Lists
<1>2. \A i, j \in 1..n : q[i] = q[j] => i = j
  <2> SUFFICES ASSUME NEW i \in 1..n, NEW j \in 1..n, q[i] = q[j], i < j PROVE FALSE
    BY <1>1
  <2>1. q[i] \in below[q[j]] /\ q[i] \in S
    BY DEF Lists
  <2> QED BY <2>1
<1> HIDE DEF n
<1>3. IsFiniteSet(1..n) /\ Cardinality(1..n) = n
  BY <1>1, FS_Interval
<1>4. q \in Bijection(1..n, S)
  BY <1>1, <1>2 DEF Bijection, Injection, Surjection, IsInjective
<1>5. IsFiniteSet(S) /\ Cardinality(S) = n
  BY <1>3, <1>4, FS_Bijection DEF ExistsBijection
<1> QED BY <1>5 DEF n

\* l lists the n greatest of S, or all of fewer: what is left out is below all of them.
ListsLast(l, n, S, below) ==
    \E T \in SUBSET S : /\ Lists(l, T, below)
                        /\ \A x \in S \ T : Len(l) = n /\ \A y \in T : x \in below[y]

LEMMA LastOfList ==
    ASSUME NEW q, NEW S, NEW below, Lists(q, S, below), NEW n \in Nat \ {0}
    PROVE  ListsLast(LastOf(q, n), n, S, below)
<1> DEFINE N == Len(q)
           l == LastOf(q, n)
<1>1. /\ q \in Seq(S) /\ N \in Nat
      /\ \A x \in S : \E i \in 1..N : q[i] = x
      /\ \A i \in 1..N : q[i] \in S
      /\ \A i, j \in 1..N : i < j => q[i] \in below[q[j]]
  BY DEF Lists
<1>2. l = SubSeq(q, IF N > n THEN N - n + 1 ELSE 1, N)
  BY DEF LastOf
<1> HIDE DEF N, l
<1>3. PICK s \in Nat, m \in Nat :
        s + m = N /\ l = SubSeq(q, s + 1, N) /\ (s > 0 => m = n)
  <2>1. CASE N > n
    <3>1. PICK s : s = N - n
      OBVIOUS
    <3>2. s \in Nat /\ s + n = N /\ N - n + 1 = s + 1
      BY <1>1, <2>1, <3>1
    <3> QED BY <1>1, <1>2, <2>1, <3>2
  <2>2. CASE ~(N > n)
    <3>1. l = SubSeq(q, 0 + 1, N) /\ 0 + N = N
      BY <1>1, <1>2, <2>2
    <3> QED BY <1>1, <3>1
  <2> QED BY <2>1, <2>2
<1>4. Len(l) = m /\ (\A i \in 1..m : l[i] = q[s + i]) /\ DOMAIN l = 1..m
  <2>1. PICK first : first = s + 1
    OBVIOUS
  <2>2. first \in Int /\ N \in Int /\ \A i \in first..N : q[i] \in S
    BY <1>1, <2>1
  <2>3. /\ l \in Seq(S) /\ Len(l) = IF first <= N THEN N - first + 1 ELSE 0
        /\ \A i \in 1..(N - first + 1) : l[i] = q[first + i - 1]
    BY <1>3, <2>1, <2>2, SubSeqProperties
  <2>4. N - first + 1 = m /\ (first <= N \/ m = 0)
    BY <1>1, <1>3, <2>1
  <2>5. \A i \in 1..m : first + i - 1 = s + i
    BY <2>1
  <2> QED BY <2>3, <2>4, <2>5, LenProperties
<1>5. \A i \in 1..m : s + i \in 1..N
  BY <1>3
<1> DEFINE T == {l[i] : i \in 1..m}
<1>6. T \in SUBSET S
  <2>1. ASSUME NEW i \in 1..m PROVE l[i] \in S
    <3>1. PICK a \in 1..N : l[i] = q[a]
      BY <1>4, <1>5
    <3> QED BY <1>1, <3>1
  <2> QED BY <2>1
<1>7. Lists(l, T, below)
  <2>1. l \in Seq(T)
    <3>1. l = [i \in 1..m |-> l[i]]
      <4>1. l \in Seq(S)
        <5>1. PICK first : first = s + 1
          OBVIOUS
        <5>2. first \in Int /\ N \in Int /\ \A i \in first..N : q[i] \in S
          BY <1>1, <5>1
        <5> QED BY <1>3, <5>1, <5>2, SubSeqProperties
      <4> QED BY <1>4, <4>1, LenProperties
    <3>2. l \in [1..m -> T]
      BY <3>1
    <3> HIDE DEF T
    <3> QED BY <1>3, <3>2, SeqDef
  <2>2. ASSUME NEW i \in 1..m, NEW j \in 1..m, i < j
        PROVE  l[i] \in below[l[j]]
    <3>1. PICK a, b : a = s + i /\ b = s + j
      OBVIOUS
    <3>2. a \in 1..N /\ b \in 1..N /\ l[i] = q[a] /\ l[j] = q[b]
      BY <1>4, <1>5, <3>1
    <3>3. a < b
      BY <2>2, <3>1
    <3> QED BY <1>1, <3>2, <3>3
  <2>3. /\ \A x \in T : \E i \in 1..m : l[i] = x
        /\ \A i \in 1..m : l[i] \in T
    OBVIOUS
  <2> HIDE DEF T
  <2> QED BY <1>4, <2>1, <2>2, <2>3 DEF Lists
<1>8. ASSUME NEW x \in S \ T
      PROVE  Len(l) = n /\ \A y \in T : x \in below[y]
  <2>1. PICK k \in 1..N : q[k] = x
    BY <1>1
  <2>2. ASSUME NEW i \in 1..m, s + i = k PROVE FALSE
    <3>1. l[i] = q[k]
      BY <1>4, <2>2
    <3> QED BY <1>8, <2>1, <3>1
  <2>3. k <= s
    <3>1. k - s \in 1..m \/ k <= s
      BY <1>1, <1>3
    <3>2. s + (k - s) = k
      BY <1>1
    <3> QED BY <2>2, <3>1, <3>2
  <2>4. s > 0
    BY <1>1, <2>3
  <2>5. ASSUME NEW i \in 1..m PROVE x \in below[l[i]]
    <3>1. PICK a : a = s + i
      OBVIOUS
    <3>2. a \in 1..N /\ l[i] = q[a]
      BY <1>4, <1>5, <3>1
    <3>3. k < a
      BY <1>1, <2>3, <3>1
    <3> QED BY <1>1, <2>1, <3>2, <3>3
  <2> QED BY <1>3, <1>4, <2>4, <2>5
<1>9. ListsLast(l, n, S, below)
  <2> HIDE DEF T
  <2> QED BY <1>6, <1>7, <1>8 DEF ListsLast
<1> QED BY <1>9 DEF l

\* An element with fewer than n elements above it is among the last n.
LEMMA LastOfReaches ==
    ASSUME NEW q, NEW S, NEW below, Lists(q, S, below), \A x \in S : x \notin below[x],
           NEW n \in Nat \ {0}, NEW x \in S, Cardinality({y \in S : x \in below[y]}) < n
    PROVE  \E i \in 1..Len(LastOf(q, n)) : LastOf(q, n)[i] = x
<1> DEFINE above == {y \in S : x \in below[y]}
           l == LastOf(q, n)
<1>1. PICK T \in SUBSET S : /\ Lists(l, T, below)
                           /\ \A z \in S \ T : Len(l) = n /\ \A y \in T : z \in below[y]
  BY LastOfList DEF ListsLast
<1>2. x \in T
  <2> SUFFICES ASSUME x \notin T PROVE FALSE
    OBVIOUS
  <2>1. Len(l) = n /\ T \in SUBSET above
    BY <1>1
  <2>2. Cardinality(T) = n
    BY <1>1, <2>1, ListCardinality
  <2>3. IsFiniteSet(above)
    <3>1. IsFiniteSet(S) /\ above \in SUBSET S
      BY ListCardinality
    <3> HIDE DEF above
    <3> QED BY <3>1, FS_Subset
  <2>4. Cardinality(above) < n
    OBVIOUS
  <2> HIDE DEF above, l
  <2>5. Cardinality(T) <= Cardinality(above) /\ Cardinality(above) \in Nat
    BY <2>1, <2>3, FS_Subset, FS_CardinalityType
  <2> QED BY <2>2, <2>4, <2>5
<1> HIDE DEF l
<1>3. \E i \in 1..Len(l) : l[i] = x
  BY <1>1, <1>2 DEF Lists
<1> QED BY <1>3 DEF l


\* A nonempty list in order has a first and a last element.
LEMMA FirstAndLast ==
    ASSUME NEW q, NEW S, NEW below, Lists(q, S, below), S # {}
    PROVE  /\ Len(q) \in Nat \ {0} /\ q[1] \in S /\ q[Len(q)] \in S
           /\ \A y \in S : y = q[1] \/ q[1] \in below[y]
           /\ \A y \in S : y = q[Len(q)] \/ y \in below[q[Len(q)]]
<1>1. /\ Len(q) \in Nat
      /\ \A x \in S : \E i \in 1..Len(q) : q[i] = x
      /\ \A i \in 1..Len(q) : q[i] \in S
      /\ \A i, j \in 1..Len(q) : i < j => q[i] \in below[q[j]]
  BY DEF Lists
<1>2. 1 \in 1..Len(q) /\ Len(q) \in 1..Len(q)
  <2>1. PICK x \in S : TRUE
    OBVIOUS
  <2>2. PICK i \in 1..Len(q) : q[i] = x
    BY <1>1
  <2> QED BY <1>1, <2>2
<1>3. ASSUME NEW y \in S
      PROVE  /\ y = q[1] \/ q[1] \in below[y]
             /\ y = q[Len(q)] \/ y \in below[q[Len(q)]]
  <2>1. PICK i \in 1..Len(q) : q[i] = y
    BY <1>1
  <2>2. i = 1 \/ 1 < i
    BY <1>1
  <2>3. i = Len(q) \/ i < Len(q)
    BY <1>1
  <2>4. y = q[1] \/ q[1] \in below[y]
    BY <1>1, <1>2, <2>1, <2>2
  <2>5. y = q[Len(q)] \/ y \in below[q[Len(q)]]
    BY <1>1, <1>2, <2>1, <2>3
  <2> QED BY <2>4, <2>5
<1> QED BY <1>1, <1>2, <1>3

\* Positions have a least and a greatest.
LEMMA LeastAndGreatest ==
    ASSUME NEW I, I \subseteq Int, IsFiniteSet(I), I # {}
    PROVE  /\ \E i \in I : \A j \in I : i <= j
           /\ \E i \in I : \A j \in I : j <= i
<1> DEFINE lower == [i \in I |-> {j \in I : j < i}]
           q == InPlaces(I, lower)
<1>1. /\ lower \in [I -> SUBSET I]
      /\ \A i, j \in I : j \in lower[i] <=> j < i
  OBVIOUS
<1> HIDE DEF lower
<1>2. \A i \in I : i \in Int
  OBVIOUS
<1>3. Lists(q, I, lower)
  <2>1. \A i \in I : i \notin lower[i]
    BY <1>1, <1>2
  <2>2. \A i, j \in I : i \in lower[j] => lower[i] \subseteq lower[j]
    <3> SUFFICES ASSUME NEW i \in I, NEW j \in I, i \in lower[j], NEW k \in lower[i]
                 PROVE  k \in lower[j]
      OBVIOUS
    <3>1. k \in I
      BY <1>1
    <3> QED BY <1>1, <1>2, <3>1
  <2>3. \A i, j \in I : i # j => i \in lower[j] \/ j \in lower[i]
    BY <1>1, <1>2
  <2> QED BY <1>1, <2>1, <2>2, <2>3, InPlacesLists
<1> HIDE DEF q
<1>4. PICK a \in I, b \in I :
        (\A j \in I : j = a \/ a \in lower[j]) /\ (\A j \in I : j = b \/ j \in lower[b])
  BY <1>3, FirstAndLast
<1>5. \A j \in I : a <= j /\ j <= b
  BY <1>1, <1>2, <1>4
<1> QED BY <1>5
===================================================================================
