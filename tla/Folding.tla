--------------------------------- MODULE Folding ---------------------------------
(***************************************************************************)
(* What a fold over a sequence keeps.  An ingestion walks the rows of an   *)
(* answer and changes the database with each; this module is the induction *)
(* over the rows, for any step and any property of the walk.  It is        *)
(* instantiated, without parameters, with the step and the property at     *)
(* hand; a, b and g stand for whatever these depend on besides.            *)
(***************************************************************************)
EXTENDS Integers, SequencesExt, WellFoundedInduction, TLAPS

CONSTANTS
    Step(_, _, _, _),   \* Step(a, b, d, x): what the element x makes of d
    Keeps(_, _, _)      \* Keeps(g, k, d): d may be the outcome of the first k elements

Folded(a, b, base, seq) == FoldLeft(LAMBDA d, x : Step(a, b, d, x), base, seq)

\* The recursion of the fold, over the subsets of the positions.
Iterates(a, b, base, seq, S, f) ==
    f = [s \in SUBSET S |->
           IF s = {} THEN base ELSE Step(a, b, f[s \ {Max(s)}], seq[Max(s)])]

-----------------------------------------------------------------------------

\* A nonempty set of naturals has a least element.
LEMMA FirstFailure ==
    ASSUME NEW T \in SUBSET Nat, T # {}
    PROVE  \E n \in T : \A m \in T : n <= m
<1>1. \E n \in T : \A m \in T : <<m, n>> \notin OpToRel(<, Nat)
  <2>1. IsWellFoundedOn(OpToRel(<, Nat), Nat)
    BY NatLessThanWellFounded
  <2> DEFINE R == OpToRel(<, Nat)
  <2> HIDE DEF R
  <2>2. \E n \in T : \A m \in T : <<m, n>> \notin R
    BY <2>1, WFMin DEF R
  <2> QED BY <2>2 DEF R
<1>2. ASSUME NEW m \in Nat, NEW n \in Nat, m < n PROVE <<m, n>> \in OpToRel(<, Nat)
  <2> DEFINE pair == <<m, n>>
  <2>1. pair \in Nat \X Nat /\ pair[1] < pair[2]
    BY <1>2
  <2> HIDE DEF pair
  <2>2. pair \in OpToRel(<, Nat)
    BY <2>1 DEF OpToRel
  <2> QED BY <2>2 DEF pair
<1>3. PICK n \in T : \A m \in T : <<m, n>> \notin OpToRel(<, Nat)
  BY <1>1
<1>4. \A m \in T : m \in Nat /\ n \in Nat /\ ~(m < n)
  BY <1>2, <1>3, Zenon
<1>5. \A m \in T : n <= m
  BY <1>4
<1> QED BY <1>5

\* The maximum of a set of positions is the greatest of them.
LEMMA MaxOfPositions ==
    ASSUME NEW n \in Nat, NEW s \in SUBSET (1..n), s # {}
    PROVE  Max(s) \in s /\ \A x \in s : x <= Max(s)
<1> DEFINE T == {m \in Nat : \A x \in s : x <= m}
<1>1. n \in T
  OBVIOUS
<1>2. PICK m \in T : \A k \in T : m <= k
  <2> T \in SUBSET Nat /\ T # {}
    BY <1>1
  <2> HIDE DEF T
  <2> QED BY FirstFailure
<1>3. m \in s
  <2> SUFFICES ASSUME m \notin s PROVE FALSE
    OBVIOUS
  <2>1. \A x \in s : x <= m /\ x # m /\ x \in 1..n
    BY <1>2
  <2>2. m # 0
    <3>1. PICK x \in s : TRUE
      OBVIOUS
    <3>2. x <= m /\ x \in 1..n
      BY <2>1
    <3> QED BY <3>2
  <2>3. m - 1 \in T
    BY <1>2, <2>1, <2>2
  <2> QED BY <1>2, <2>3
<1>4. \E x \in s : \A y \in s : x >= y
  BY <1>2, <1>3
<1>5. Max(s) \in s /\ \A y \in s : Max(s) >= y
  BY <1>4 DEF Max
<1> QED BY <1>5

\* The recursion has a solution, whatever the step.
LEMMA IterationExists ==
    ASSUME NEW a, NEW b, NEW base, NEW seq, NEW n \in Nat
    PROVE  \E f : Iterates(a, b, base, seq, 1..n, f)
<1> DEFINE P(m) == \E f : Iterates(a, b, base, seq, 1..m, f)
           T == {m \in 0..n : ~P(m)}
<1>1. P(0)
  <2> DEFINE f == [s \in SUBSET (1..0) |-> base]
  <2>1. \A s \in SUBSET (1..0) : s = {}
    OBVIOUS
  <2>2. Iterates(a, b, base, seq, 1..0, f)
    BY <2>1 DEF Iterates
  <2> QED BY <2>2
<1>2. ASSUME NEW m \in Nat, P(m)
      PROVE  P(m + 1)
  <2>1. PICK f : Iterates(a, b, base, seq, 1..m, f)
    BY <1>2
  <2> DEFINE g == [s \in SUBSET (1..(m + 1)) |->
                     IF m + 1 \in s THEN Step(a, b, f[s \ {m + 1}], seq[m + 1]) ELSE f[s]]
  <2>2. ASSUME NEW s \in SUBSET (1..(m + 1))
        PROVE  g[s] = IF s = {} THEN base ELSE Step(a, b, g[s \ {Max(s)}], seq[Max(s)])
    <3>1. CASE m + 1 \in s
      <4>1. Max(s) = m + 1
        <5>1. m + 1 \in Nat /\ s # {}
          BY <3>1
        <5>2. Max(s) \in s /\ \A x \in s : x <= Max(s)
          BY <5>1, MaxOfPositions
        <5>3. Max(s) \in 1..(m + 1) /\ m + 1 <= Max(s)
          BY <3>1, <5>2
        <5> QED BY <5>3
      <4>2. s \ {m + 1} \in SUBSET (1..(m + 1)) /\ m + 1 \notin s \ {m + 1}
        OBVIOUS
      <4>3. g[s \ {m + 1}] = f[s \ {m + 1}]
        BY <4>2
      <4>4. g[s] = Step(a, b, f[s \ {m + 1}], seq[m + 1])
        BY <3>1
      <4> HIDE DEF g
      <4> QED BY <3>1, <4>1, <4>3, <4>4
    <3>2. CASE m + 1 \notin s
      <4>1. s \in SUBSET (1..m)
        BY <3>2
      <4>2. f[s] = IF s = {} THEN base ELSE Step(a, b, f[s \ {Max(s)}], seq[Max(s)])
        BY <2>1, <4>1 DEF Iterates
      <4>3. s \ {Max(s)} \in SUBSET (1..(m + 1)) /\ m + 1 \notin s \ {Max(s)}
        BY <3>2
      <4>4. g[s \ {Max(s)}] = f[s \ {Max(s)}] /\ g[s] = f[s]
        BY <3>2, <4>3
      <4> HIDE DEF g
      <4> QED BY <4>2, <4>4
    <3> QED BY <3>1, <3>2
  <2>3. g = [s \in SUBSET (1..(m + 1)) |-> g[s]]
    OBVIOUS
  <2> HIDE DEF g
  <2>4. Iterates(a, b, base, seq, 1..(m + 1), g)
    BY <2>2, <2>3 DEF Iterates
  <2> QED BY <2>4
<1> HIDE DEF P
<1>3. T = {}
  <2> SUFFICES ASSUME T # {} PROVE FALSE
    OBVIOUS
  <2>1. T \in SUBSET Nat
    OBVIOUS
  <2>2. PICK m \in T : \A k \in T : m <= k
    <3> HIDE DEF T
    <3> QED BY <2>1, FirstFailure
  <2>3. m \in 0..n /\ ~P(m) /\ m # 0
    BY <1>1, <2>2
  <2>4. m - 1 \in Nat /\ m - 1 \notin T
    BY <2>2, <2>3
  <2>5. P(m - 1)
    BY <2>3, <2>4
  <2>6. P((m - 1) + 1)
    BY <1>2, <2>4, <2>5
  <2> QED BY <2>3, <2>6
<1>4. P(n)
  BY <1>3
<1> QED BY <1>4 DEF P

\* The fold is the value of its recursion at all positions.
LEMMA FoldedIterates ==
    ASSUME NEW a, NEW b, NEW base, NEW seq, NEW n \in Nat, DOMAIN seq = 1..n
    PROVE  \E f : Iterates(a, b, base, seq, 1..n, f) /\ Folded(a, b, base, seq) = f[1..n]
<1> DEFINE Q(f) == Iterates(a, b, base, seq, 1..n, f)
           iter == CHOOSE f : Q(f)
<1>1. \E f : Q(f)
  BY IterationExists
<1>2. Q(iter)
  <2> HIDE DEF Q
  <2> QED BY <1>1
<1>3. Folded(a, b, base, seq) = iter[1..n]
  BY Zenon DEF Folded, FoldLeft, MapThenFoldSet, Iterates
<1> QED BY <1>2, <1>3

\* What the first element finds, and every element keeps, the fold ends with.
THEOREM FoldKeeps ==
    ASSUME NEW a, NEW b, NEW g, NEW base, NEW seq, NEW n \in Nat, DOMAIN seq = 1..n,
           Keeps(g, 0, base),
           \A k \in 1..n : \A d : Keeps(g, k - 1, d) => Keeps(g, k, Step(a, b, d, seq[k]))
    PROVE  Keeps(g, n, Folded(a, b, base, seq))
<1>1. PICK f : Iterates(a, b, base, seq, 1..n, f) /\ Folded(a, b, base, seq) = f[1..n]
  BY FoldedIterates
<1>2. ASSUME NEW k \in 0..n
      PROVE  f[1..k] = IF k = 0 THEN base ELSE Step(a, b, f[1..(k - 1)], seq[k])
  <2>1. 1..k \in SUBSET (1..n) /\ (k = 0 <=> 1..k = {})
    OBVIOUS
  <2>2. f[1..k] = IF 1..k = {} THEN base
                  ELSE Step(a, b, f[(1..k) \ {Max(1..k)}], seq[Max(1..k)])
    BY <1>1, <2>1 DEF Iterates
  <2>3. k # 0 => Max(1..k) = k
    <3> SUFFICES ASSUME k # 0 PROVE Max(1..k) = k
      OBVIOUS
    <3>1. Max(1..k) \in 1..k /\ \A x \in 1..k : x <= Max(1..k)
      BY <2>1, MaxOfPositions
    <3>2. k \in 1..k
      OBVIOUS
    <3> QED BY <3>1, <3>2
  <2>4. (1..k) \ {k} = 1..(k - 1)
    OBVIOUS
  <2> QED BY <2>1, <2>2, <2>3, <2>4
<1> DEFINE T == {k \in 0..n : ~Keeps(g, k, f[1..k])}
<1>3. T = {}
  <2> SUFFICES ASSUME T # {} PROVE FALSE
    OBVIOUS
  <2>1. T \in SUBSET Nat
    OBVIOUS
  <2>2. PICK m \in T : \A k \in T : m <= k
    <3> HIDE DEF T
    <3> QED BY <2>1, FirstFailure
  <2>3. m \in 0..n /\ ~Keeps(g, m, f[1..m])
    BY <2>2
  <2>4. m # 0
    BY <1>2, <2>3
  <2>5. m - 1 \in 0..n /\ m - 1 \notin T
    BY <2>2, <2>3, <2>4
  <2>6. Keeps(g, m - 1, f[1..(m - 1)])
    BY <2>5
  <2>7. Keeps(g, m, Step(a, b, f[1..(m - 1)], seq[m]))
    BY <2>3, <2>4, <2>6
  <2> QED BY <1>2, <2>3, <2>4, <2>7
<1>4. Keeps(g, n, f[1..n])
  BY <1>3
<1> QED BY <1>1, <1>4

=============================================================================
