------------------------------ MODULE FoldFacts -------------------------------
(***************************************************************************)
(* Facts about numbers, and about what a fold of the community modules     *)
(* unfolds to: a non-empty set of numbers has a least one, the choice that *)
(* FoldLeft makes among indices is the greatest, how a sum over a finite   *)
(* set grows with its terms, and what a fold over a sequence, or over a    *)
(* set in the order of some choice, has at the end if it has it at the     *)
(* start and keeps it at each step.                                        *)
(***************************************************************************)
EXTENDS Integers, FiniteSetsExt, FiniteSetTheorems, WellFoundedInduction, TLAPS

\* The numbers are well-founded.
LEMMA LessWF == IsWellFoundedOn({ss \in Nat \X Nat : ss[1] < ss[2]}, Nat)
  BY NatLessThanWellFounded DEF OpToRel

\* A non-empty set of numbers has a least element: the form of induction used in these proofs.
LEMMA Least ==
  ASSUME NEW T \in SUBSET Nat, T # {}
  PROVE  \E m \in T : \A k \in T : m <= k
<1>1. PICK m \in T : \A k \in T : ~(<<k, m>> \in {ss \in Nat \X Nat : ss[1] < ss[2]})
  BY LessWF, WFMin
<1>2. ASSUME NEW k \in T PROVE m <= k
  <2>1. k \in Nat /\ m \in Nat /\ ~(<<k, m>> \in {ss \in Nat \X Nat : ss[1] < ss[2]})
    BY <1>1
  <2>2. ~(k < m)
    BY <2>1
  <2> QED BY <2>1, <2>2
<1> QED
  BY <1>2

\* Max chooses the greatest element of a set of indices.
LEMMA MaxOf ==
  ASSUME NEW n \in Nat, NEW s \in SUBSET (1..n), s # {}
  PROVE  Max(s) \in s /\ \A x \in s : x <= Max(s)
<1> DEFINE T == {k \in Nat : \E x \in s : k = n - x}
<1>1. PICK x \in s : TRUE
  OBVIOUS
<1>2. n - x \in T
  BY <1>1
<1>3. PICK m \in T : \A k \in T : m <= k
  BY <1>2, Least
<1>4. PICK y \in s : m = n - y
  BY <1>3
<1>5. ASSUME NEW z \in s PROVE z <= y
  <2>1. n - z \in T
    OBVIOUS
  <2> QED BY <2>1, <1>3, <1>4
<1>6. \A z \in s : y >= z
  BY <1>5
<1> QED
  BY <1>6 DEF Max

\* The greatest index of a set that holds the last one.
LEMMA MaxIs ==
  ASSUME NEW n \in Nat, NEW s \in SUBSET (1..n), n \in s
  PROVE  Max(s) = n
<1>1. Max(s) \in s /\ n <= Max(s)
  BY MaxOf
<1>2. Max(s) \in 1..n
  BY <1>1
<1> QED
  BY <1>1, <1>2

------------------------------------------------------------------------------
(* Sums over a finite set S: it maps every subset of S to the sum of the     *)
(* terms w there, as the fold behind MapThenSumSet does.                     *)

First(s) == CHOOSE x \in s : TRUE
Adds(w, S, it) ==
  it = [s \in SUBSET S |-> IF s = {} THEN 0 ELSE w[First(s)] + it[s \ {First(s)}]]

\* The same for the subsets of at most n elements.
Upto(S, n) == {s \in SUBSET S : Cardinality(s) <= n}
AddsUpto(w, S, n, it) ==
  it = [s \in Upto(S, n) |-> IF s = {} THEN 0 ELSE w[First(s)] + it[s \ {First(s)}]]

\* What is chosen first, and what is left.
LEMMA FirstOf ==
  ASSUME NEW S, IsFiniteSet(S), NEW s \in SUBSET S
  PROVE  /\ IsFiniteSet(s) /\ Cardinality(s) \in Nat /\ Cardinality(s) <= Cardinality(S)
         /\ Cardinality(s) = 0 <=> s = {}
         /\ s # {} => /\ First(s) \in s /\ s \ {First(s)} \in SUBSET S
                      /\ Cardinality(s \ {First(s)}) = Cardinality(s) - 1
<1>1. IsFiniteSet(s) /\ Cardinality(s) \in Nat /\ Cardinality(s) <= Cardinality(S)
  BY FS_Subset, FS_CardinalityType
<1>2. Cardinality(s) = 0 <=> s = {}
  BY <1>1, FS_EmptySet
<1>3. ASSUME s # {}
      PROVE  /\ First(s) \in s /\ s \ {First(s)} \in SUBSET S
             /\ Cardinality(s \ {First(s)}) = Cardinality(s) - 1
  <2>1. First(s) \in s
    BY <1>3 DEF First
  <2> QED BY <1>1, <2>1, FS_RemoveElement
<1> QED
  BY <1>1, <1>2, <1>3

\* There is such a function.
LEMMA AddsExists ==
  ASSUME NEW S, IsFiniteSet(S), NEW w
  PROVE  \E it : Adds(w, S, it)
<1> DEFINE T == {n \in Nat : ~ \E it : AddsUpto(w, S, n, it)}
<1>1. ASSUME T # {} PROVE FALSE
  <2>1. PICK n \in T : \A k \in T : n <= k
    <3>1. T \in SUBSET Nat
      OBVIOUS
    <3> HIDE DEF T
    <3> QED BY <1>1, <3>1, Least
  <2>2. CASE n = 0
    <3>1. \A s \in Upto(S, 0) : s = {}
      <4>1. ASSUME NEW s \in Upto(S, 0) PROVE s = {}
        <5>1. s \in SUBSET S /\ Cardinality(s) <= 0
          BY DEF Upto
        <5>2. Cardinality(s) \in Nat /\ (Cardinality(s) = 0 <=> s = {})
          BY <5>1, FirstOf
        <5> QED BY <5>1, <5>2
      <4> QED BY <4>1
    <3>2. AddsUpto(w, S, 0, [s \in Upto(S, 0) |-> 0])
      BY <3>1 DEF AddsUpto
    <3> QED BY <2>2, <3>2
  <2>3. CASE n # 0
    <3>1. n - 1 \in Nat /\ n - 1 \notin T /\ n \in Nat
      <4>1. n \in Nat
        OBVIOUS
      <4>2. n - 1 \in Nat /\ ~(n <= n - 1)
        BY <2>3, <4>1
      <4> QED BY <2>1, <4>1, <4>2
    <3>2. PICK it : AddsUpto(w, S, n - 1, it)
      BY <3>1
    <3> DEFINE g == [s \in Upto(S, n) |->
                       IF s \in Upto(S, n - 1) THEN it[s]
                       ELSE w[First(s)] + it[s \ {First(s)}]]
    <3>3. ASSUME NEW s \in Upto(S, n)
          PROVE  g[s] = IF s = {} THEN 0 ELSE w[First(s)] + g[s \ {First(s)}]
      <4>1. /\ s \in SUBSET S /\ Cardinality(s) <= n /\ Cardinality(s) \in Nat
            /\ s # {} => /\ s \ {First(s)} \in SUBSET S
                         /\ Cardinality(s \ {First(s)}) = Cardinality(s) - 1
        BY FirstOf DEF Upto
      <4>2. s # {} => s \ {First(s)} \in Upto(S, n - 1) /\ s \ {First(s)} \in Upto(S, n)
        BY <3>1, <4>1 DEF Upto
      <4>3. s # {} => g[s \ {First(s)}] = it[s \ {First(s)}]
        BY <4>2
      <4>4. CASE s \in Upto(S, n - 1)
        <5>1. g[s] = it[s]
          BY <4>4
        <5>2. it[s] = IF s = {} THEN 0 ELSE w[First(s)] + it[s \ {First(s)}]
          BY <3>2, <4>4 DEF AddsUpto
        <5> HIDE DEF g
        <5> QED BY <4>3, <5>1, <5>2
      <4>5. CASE s \notin Upto(S, n - 1)
        <5>1. g[s] = w[First(s)] + it[s \ {First(s)}]
          BY <4>5
        <5>2. s # {}
          <6>1. ASSUME s = {} PROVE FALSE
            <7>1. Cardinality(s) = 0
              BY <6>1, FS_EmptySet
            <7> QED BY <3>1, <4>1, <4>5, <7>1 DEF Upto
          <6> QED BY <6>1
        <5> HIDE DEF g
        <5> QED BY <4>3, <5>1, <5>2
      <4> QED BY <4>4, <4>5
    <3>4. AddsUpto(w, S, n, g)
      BY <3>3 DEF AddsUpto
    <3> QED BY <3>4
  <2> QED BY <2>2, <2>3
<1>2. Cardinality(S) \in Nat
  BY FS_CardinalityType
<1>3. PICK it : AddsUpto(w, S, Cardinality(S), it)
  BY <1>1, <1>2
<1>4. Upto(S, Cardinality(S)) = SUBSET S
  BY FirstOf DEF Upto
<1> QED
  BY <1>3, <1>4 DEF AddsUpto, Adds

\* If no term grows but that of g, and that by at most k, the sum grows by at most k.
LEMMA AddsBound ==
  ASSUME NEW S, IsFiniteSet(S), NEW w \in [S -> Nat], NEW v \in [S -> Nat], NEW g, NEW k \in Nat,
         \A x \in S : IF x = g THEN v[x] <= w[x] + k ELSE v[x] <= w[x],
         NEW it, Adds(w, S, it), NEW jt, Adds(v, S, jt)
  PROVE  it[S] \in Nat /\ jt[S] \in Nat /\ jt[S] <= it[S] + k
<1> DEFINE Good(s) == /\ it[s] \in Nat /\ jt[s] \in Nat /\ jt[s] <= it[s] + k
                      /\ g \notin s => jt[s] <= it[s]
           T == {n \in Nat : \E s \in SUBSET S : Cardinality(s) = n /\ ~Good(s)}
<1>1. ASSUME T # {} PROVE FALSE
  <2>1. PICK n \in T : \A m \in T : n <= m
    <3>1. T \in SUBSET Nat
      OBVIOUS
    <3> HIDE DEF T
    <3> QED BY <1>1, <3>1, Least
  <2>2. PICK s \in SUBSET S : Cardinality(s) = n /\ ~Good(s)
    OBVIOUS
  <2>3. s # {}
    <3>1. ASSUME s = {} PROVE FALSE
      <4>1. it[s] = 0 /\ jt[s] = 0
        BY <3>1 DEF Adds
      <4> QED BY <2>2, <4>1
    <3> QED BY <3>1
  <2> DEFINE x == First(s)
             t == s \ {x}
  <2>4. x \in s /\ t \in SUBSET S /\ Cardinality(t) = n - 1 /\ n \in Nat /\ n # 0
    BY <2>2, <2>3, FirstOf
  <2>5. n - 1 \in Nat /\ ~(n <= n - 1)
    BY <2>4
  <2>6. Good(t)
    <3> HIDE DEF Good, t
    <3> QED BY <2>1, <2>4, <2>5
  <2>7. it[s] = w[x] + it[t] /\ jt[s] = v[x] + jt[t]
    BY <2>3 DEF Adds
  <2>8. x \in S /\ w[x] \in Nat /\ v[x] \in Nat /\ x \notin t
    BY <2>4
  <2>9. Good(s)
    <3>1. it[t] \in Nat /\ jt[t] \in Nat /\ jt[t] <= it[t] + k /\ (g \notin t => jt[t] <= it[t])
      BY <2>6
    <3>2. g \notin s => x # g /\ g \notin t
      BY <2>4
    <3>3. x = g => g \notin t /\ v[x] <= w[x] + k
      BY <2>8
    <3>4. x # g => v[x] <= w[x]
      BY <2>8
    <3>5. it[s] \in Nat /\ jt[s] \in Nat
      BY <2>7, <2>8, <3>1
    <3>6. g \notin s => jt[s] <= it[s]
      BY <2>7, <2>8, <3>1, <3>2, <3>4
    <3>7. jt[s] <= it[s] + k
      BY <2>7, <2>8, <3>1, <3>3, <3>4
    <3> QED BY <3>5, <3>6, <3>7
  <2> QED BY <2>2, <2>9
<1>2. Good(S)
  <2>1. Cardinality(S) \in Nat
    BY FS_CardinalityType
  <2> QED BY <1>1, <2>1
<1> QED
  BY <1>2

------------------------------------------------------------------------------
(* FoldLeft over a sequence of length n: it maps every set of indices to     *)
(* what the items there lead to, in their order.                             *)

\* What each step leaves in A is in A.
LEMMA FoldStays ==
  ASSUME NEW n \in Nat, NEW A, NEW it, it[{}] \in A,
         \A s \in SUBSET (1..n) : s # {} /\ it[s \ {Max(s)}] \in A => it[s] \in A
  PROVE  \A s \in SUBSET (1..n) : it[s] \in A
<1> DEFINE T == {k \in 0..n : \E s \in SUBSET (1..k) : it[s] \notin A}
<1>1. ASSUME T # {} PROVE FALSE
  <2>1. PICK k \in T : \A j \in T : k <= j
    <3>1. T \in SUBSET Nat
      OBVIOUS
    <3> HIDE DEF T
    <3> QED BY <1>1, <3>1, Least
  <2>2. PICK s \in SUBSET (1..k) : it[s] \notin A
    BY <2>1
  <2>3. k \in Nat /\ k <= n /\ s # {} /\ k \in Nat \ {0}
    <3>1. k \in 0..n /\ s # {}
      BY <2>1, <2>2
    <3>2. k # 0
      <4>1. ASSUME k = 0 PROVE s = {}
        BY <4>1
      <4> QED BY <3>1, <4>1
    <3> QED BY <3>1, <3>2
  <2>4. Max(s) \in s /\ \A x \in s : x <= Max(s)
    BY <2>3, MaxOf
  <2>5. k - 1 \in 0..n /\ s \ {Max(s)} \in SUBSET (1..(k - 1))
    <3>1. \A x \in s : x \in 1..k
      OBVIOUS
    <3>2. PICK m \in 1..k : m = Max(s) /\ m \in s /\ \A x \in s : x <= m
      BY <2>4, <3>1
    <3> HIDE DEF T
    <3>3. \A x \in s \ {m} : x \in 1..(k - 1)
      BY <2>3, <3>1, <3>2
    <3>4. k - 1 \in 0..n
      BY <2>3
    <3> QED BY <3>2, <3>3, <3>4
  <2>6. k - 1 \notin T
    BY <2>1, <2>3
  <2>7. it[s \ {Max(s)}] \in A
    BY <2>5, <2>6
  <2>8. s \in SUBSET (1..n)
    BY <2>3
  <2> QED BY <2>2, <2>3, <2>7, <2>8
<1>2. n \in 0..n /\ n \notin T
  BY <1>1
<1> QED
  BY <1>2

\* Such a function, for a step g.
FoldOf(n, b, g, p) ==
  CHOOSE it : it = [s \in SUBSET (1..n) |->
                      IF s = {} THEN b ELSE g[it[s \ {Max(s)}]][p[Max(s)]]]

\* There is one when the step stays in A, and so does it.
LEMMA FoldExists ==
  ASSUME NEW n \in Nat, NEW A, NEW B, NEW b \in A, NEW g \in [A -> [B -> A]], NEW p \in [1..n -> B]
  PROVE  /\ FoldOf(n, b, g, p) = [s \in SUBSET (1..n) |->
             IF s = {} THEN b ELSE g[FoldOf(n, b, g, p)[s \ {Max(s)}]][p[Max(s)]]]
         /\ \A s \in SUBSET (1..n) : FoldOf(n, b, g, p)[s] \in A
<1> DEFINE Is(k, it) == it = [s \in SUBSET (1..k) |->
                           IF s = {} THEN b ELSE g[it[s \ {Max(s)}]][p[Max(s)]]]
           T == {k \in Nat : ~ \E it : Is(k, it)}
<1>1. ASSUME T # {} PROVE FALSE
  <2>1. PICK k \in T : \A j \in T : k <= j
    <3>1. T \in SUBSET Nat
      OBVIOUS
    <3> HIDE DEF T
    <3> QED BY <1>1, <3>1, Least
  <2>2. CASE k = 0
    <3> DEFINE h == [s \in SUBSET (1..0) |-> b]
    <3>1. SUBSET (1..0) = {{}}
      <4> HIDE DEF T
      <4>1. 1..0 = {}
        OBVIOUS
      <4> QED BY <4>1
    <3>2. Is(0, h)
      BY <3>1
    <3> QED BY <2>1, <2>2, <3>2
  <2>3. CASE k # 0
    <3>0. k \in Nat
      OBVIOUS
    <3>1. k \in Nat /\ k - 1 \in Nat /\ k - 1 \notin T
      <4> HIDE DEF T
      <4>1. k - 1 \in Nat /\ ~(k <= k - 1)
        BY <2>3, <3>0
      <4> QED BY <2>1, <3>0, <4>1
    <3>2. PICK it : Is(k - 1, it)
      BY <3>1
    <3> DEFINE h == [s \in SUBSET (1..k) |->
                       IF k \in s THEN g[it[s \ {k}]][p[k]] ELSE it[s]]
    <3>3. ASSUME NEW s \in SUBSET (1..k)
          PROVE  h[s] = IF s = {} THEN b ELSE g[h[s \ {Max(s)}]][p[Max(s)]]
      <4>1. CASE k \in s
        <5>1. Max(s) = k
          BY <3>1, <4>1, MaxIs
        <5>2. s \ {k} \in SUBSET (1..k) /\ k \notin s \ {k}
          OBVIOUS
        <5>3. h[s \ {k}] = it[s \ {k}]
          BY <5>2
        <5>4. h[s] = g[it[s \ {k}]][p[k]]
          BY <4>1
        <5> HIDE DEF h
        <5> QED BY <4>1, <5>1, <5>3, <5>4
      <4>2. CASE k \notin s
        <5>1. s \in SUBSET (1..(k - 1))
          <6>1. \A x \in s : x \in 1..k /\ x # k
            BY <4>2
          <6> HIDE DEF T
          <6> QED BY <3>1, <6>1
        <5>2. it[s] = IF s = {} THEN b ELSE g[it[s \ {Max(s)}]][p[Max(s)]]
          BY <5>1, <3>2
        <5>3. h[s] = it[s]
          BY <4>2
        <5>4. h[s \ {Max(s)}] = it[s \ {Max(s)}]
          BY <4>2
        <5> HIDE DEF h
        <5> QED BY <5>2, <5>3, <5>4
      <4> QED BY <4>1, <4>2
    <3>4. Is(k, h)
      BY <3>3
    <3> QED BY <3>1, <3>4
  <2> QED BY <2>2, <2>3
<1> DEFINE it == FoldOf(n, b, g, p)
<1>2. Is(n, it)
  BY <1>1 DEF FoldOf
<1> HIDE DEF it
<1>3. \A s \in SUBSET (1..n) : it[s] = IF s = {} THEN b ELSE g[it[s \ {Max(s)}]][p[Max(s)]]
  BY <1>2
<1>4. it[{}] \in A
  BY <1>3
<1>5. ASSUME NEW s \in SUBSET (1..n), s # {}, it[s \ {Max(s)}] \in A PROVE it[s] \in A
  <2>1. Max(s) \in 1..n
    BY <1>5, MaxOf
  <2>2. it[s \ {Max(s)}] \in A /\ p[Max(s)] \in B
    BY <1>5, <2>1
  <2>3. it[s] = g[it[s \ {Max(s)}]][p[Max(s)]]
    BY <1>3, <1>5
  <2> QED BY <2>2, <2>3
<1>6. \A s \in SUBSET (1..n) : it[s] \in A
  <2> HIDE DEF Is
  <2> QED BY <1>4, <1>5, FoldStays
<1> QED
  BY <1>2, <1>6 DEF it

------------------------------------------------------------------------------
(* A fold over a finite set S that takes the element c[s] of what is left.   *)

SetFoldOf(S, b, g, c) ==
  CHOOSE it : it = [s \in SUBSET S |-> IF s = {} THEN b ELSE g[c[s]][it[s \ {c[s]}]]]

\* Taking one away makes a set smaller.
LEMMA TakeOne ==
  ASSUME NEW S, IsFiniteSet(S), NEW s \in SUBSET S, NEW x \in s
  PROVE  /\ s \ {x} \in SUBSET S
         /\ Cardinality(s) \in Nat /\ Cardinality(s \ {x}) \in Nat
         /\ Cardinality(s \ {x}) = Cardinality(s) - 1
<1>1. IsFiniteSet(s) /\ Cardinality(s) \in Nat
  BY FS_Subset, FS_CardinalityType
<1>2. IsFiniteSet(s \ {x}) /\ Cardinality(s \ {x}) = Cardinality(s) - 1
  BY <1>1, FS_RemoveElement
<1>3. Cardinality(s \ {x}) \in Nat
  BY <1>2, FS_CardinalityType
<1> QED
  BY <1>1, <1>2, <1>3

\* What each step leaves in A is in A.
LEMMA SetFoldStays ==
  ASSUME NEW S, IsFiniteSet(S), NEW A, NEW c, \A s \in SUBSET S : s # {} => c[s] \in s,
         NEW it, it[{}] \in A,
         \A s \in SUBSET S : s # {} /\ it[s \ {c[s]}] \in A => it[s] \in A
  PROVE  \A s \in SUBSET S : it[s] \in A
<1> DEFINE T == {k \in Nat : \E s \in SUBSET S : Cardinality(s) = k /\ it[s] \notin A}
<1>1. ASSUME T # {} PROVE FALSE
  <2>1. PICK k \in T : \A j \in T : k <= j
    <3>1. T \in SUBSET Nat
      OBVIOUS
    <3> HIDE DEF T
    <3> QED BY <1>1, <3>1, Least
  <2>2. PICK s \in SUBSET S : Cardinality(s) = k /\ it[s] \notin A
    BY <2>1
  <2>3. s # {} /\ c[s] \in s
    BY <2>2
  <2> DEFINE t == s \ {c[s]}
  <2>4. t \in SUBSET S /\ k \in Nat /\ Cardinality(t) \in Nat /\ Cardinality(t) = k - 1
    BY <2>2, <2>3, TakeOne
  <2>5. Cardinality(t) \notin T
    <3> HIDE DEF T, t
    <3> QED BY <2>1, <2>4
  <2>6. it[t] \in A
    BY <2>4, <2>5
  <2> QED BY <2>2, <2>3, <2>6
<1>2. ASSUME NEW s \in SUBSET S PROVE it[s] \in A
  <2>1. Cardinality(s) \in Nat
    BY FS_Subset, FS_CardinalityType
  <2> QED BY <1>1, <2>1
<1> QED
  BY <1>2

\* There is such a function when the step stays in A, and so does it.
LEMMA SetFoldExists ==
  ASSUME NEW S, IsFiniteSet(S), NEW A, NEW b \in A, NEW g \in [S -> [A -> A]],
         NEW c, \A s \in SUBSET S : s # {} => c[s] \in s
  PROVE  /\ SetFoldOf(S, b, g, c) = [s \in SUBSET S |->
             IF s = {} THEN b ELSE g[c[s]][SetFoldOf(S, b, g, c)[s \ {c[s]}]]]
         /\ \A s \in SUBSET S : SetFoldOf(S, b, g, c)[s] \in A
<1> DEFINE Is(k, it) == it = [s \in Upto(S, k) |->
                                IF s = {} THEN b ELSE g[c[s]][it[s \ {c[s]}]]]
           T == {k \in Nat : ~ \E it : Is(k, it)}
<1>0. ASSUME NEW s \in SUBSET S
      PROVE  /\ Cardinality(s) \in Nat /\ Cardinality(s) <= Cardinality(S)
             /\ Cardinality(s) = 0 <=> s = {}
  <2>1. IsFiniteSet(s) /\ Cardinality(s) \in Nat /\ Cardinality(s) <= Cardinality(S)
    BY FS_Subset, FS_CardinalityType
  <2> QED BY <2>1, FS_EmptySet
<1>1. ASSUME T # {} PROVE FALSE
  <2>1. PICK k \in T : \A j \in T : k <= j
    <3>1. T \in SUBSET Nat
      OBVIOUS
    <3> HIDE DEF T
    <3> QED BY <1>1, <3>1, Least
  <2>2. CASE k = 0
    <3>1. \A s \in Upto(S, 0) : s = {}
      BY <1>0 DEF Upto
    <3>2. Is(0, [s \in Upto(S, 0) |-> b])
      BY <3>1
    <3> QED BY <2>1, <2>2, <3>2
  <2>3. CASE k # 0
    <3>1. k - 1 \in Nat /\ k - 1 \notin T /\ k \in Nat
      <4>1. k \in Nat
        OBVIOUS
      <4>2. k - 1 \in Nat /\ ~(k <= k - 1)
        BY <2>3, <4>1
      <4> HIDE DEF T
      <4> QED BY <2>1, <4>1, <4>2
    <3>2. PICK it : Is(k - 1, it)
      BY <3>1
    <3> DEFINE h == [s \in Upto(S, k) |->
                       IF s \in Upto(S, k - 1) THEN it[s] ELSE g[c[s]][it[s \ {c[s]}]]]
    <3>3. ASSUME NEW s \in Upto(S, k)
          PROVE  h[s] = IF s = {} THEN b ELSE g[c[s]][h[s \ {c[s]}]]
      <4>1. s \in SUBSET S /\ Cardinality(s) <= k /\ Cardinality(s) \in Nat
        BY <1>0 DEF Upto
      <4>2. ASSUME s # {} PROVE s \ {c[s]} \in Upto(S, k - 1) /\ s \ {c[s]} \in Upto(S, k)
        <5>1. c[s] \in s
          BY <4>1, <4>2
        <5>2. s \ {c[s]} \in SUBSET S /\ Cardinality(s \ {c[s]}) \in Nat
              /\ Cardinality(s \ {c[s]}) = Cardinality(s) - 1
          BY <4>1, <5>1, TakeOne
        <5> QED BY <3>1, <4>1, <5>2 DEF Upto
      <4>3. s # {} => h[s \ {c[s]}] = it[s \ {c[s]}]
        BY <4>2
      <4>4. CASE s \in Upto(S, k - 1)
        <5>1. h[s] = it[s]
          BY <4>4
        <5>2. it[s] = IF s = {} THEN b ELSE g[c[s]][it[s \ {c[s]}]]
          BY <3>2, <4>4
        <5> HIDE DEF h
        <5> QED BY <4>3, <5>1, <5>2
      <4>5. CASE s \notin Upto(S, k - 1)
        <5>1. h[s] = g[c[s]][it[s \ {c[s]}]]
          BY <4>5
        <5>2. s # {}
          BY <1>0, <3>1, <4>1, <4>5 DEF Upto
        <5> HIDE DEF h
        <5> QED BY <4>3, <5>1, <5>2
      <4> QED BY <4>4, <4>5
    <3>4. Is(k, h)
      BY <3>3
    <3> QED BY <3>1, <3>4
  <2> QED BY <2>2, <2>3
<1>2. Cardinality(S) \in Nat
  BY FS_CardinalityType
<1>3. PICK w : Is(Cardinality(S), w)
  BY <1>1, <1>2
<1>4. Upto(S, Cardinality(S)) = SUBSET S
  BY <1>0 DEF Upto
<1> DEFINE it == SetFoldOf(S, b, g, c)
<1>5. it = [s \in SUBSET S |-> IF s = {} THEN b ELSE g[c[s]][it[s \ {c[s]}]]]
  BY <1>3, <1>4 DEF SetFoldOf
<1> HIDE DEF it
<1>6. it[{}] \in A
  BY <1>5
<1>7. ASSUME NEW s \in SUBSET S, s # {}, it[s \ {c[s]}] \in A PROVE it[s] \in A
  <2>1. it[s] = g[c[s]][it[s \ {c[s]}]] /\ c[s] \in S
    BY <1>5, <1>7
  <2> QED BY <1>7, <2>1
<1>8. \A s \in SUBSET S : it[s] \in A
  BY <1>6, <1>7, SetFoldStays
<1> QED
  BY <1>5, <1>8 DEF it

------------------------------------------------------------------------------
(* A function on the numbers from lo to hi, each value worked out of the one *)
(* before it.                                                                *)

StepsOf(lo, hi, b, g) ==
  CHOOSE it : it = [i \in lo..hi |-> IF i = lo THEN b ELSE g[i][it[i - 1]]]

\* What each step leaves in A is in A.
LEMMA StepsStay ==
  ASSUME NEW lo \in Nat, NEW hi \in Nat, NEW A, NEW it,
         lo <= hi => it[lo] \in A,
         \A i \in lo..hi : i # lo /\ it[i - 1] \in A => it[i] \in A
  PROVE  \A i \in lo..hi : it[i] \in A
<1> DEFINE T == {i \in lo..hi : it[i] \notin A}
<1>1. ASSUME T # {} PROVE FALSE
  <2>1. PICK k \in T : \A j \in T : k <= j
    <3>1. T \in SUBSET Nat
      OBVIOUS
    <3> HIDE DEF T
    <3> QED BY <1>1, <3>1, Least
  <2>2. k \in lo..hi /\ it[k] \notin A
    OBVIOUS
  <2>3. k # lo
    BY <2>2
  <2>4. k - 1 \in lo..hi /\ ~(k <= k - 1)
    BY <2>2, <2>3
  <2>5. k - 1 \notin T
    <3> HIDE DEF T
    <3> QED BY <2>1, <2>4
  <2>6. it[k - 1] \in A
    BY <2>4, <2>5
  <2> QED BY <2>2, <2>3, <2>6
<1> QED
  BY <1>1

\* There is such a function, and when the step stays in A, so does it.
LEMMA StepsExist ==
  ASSUME NEW lo \in Nat, NEW hi \in Nat, NEW A, NEW b \in A, NEW g \in [lo..hi -> [A -> A]]
  PROVE  /\ StepsOf(lo, hi, b, g) =
              [i \in lo..hi |-> IF i = lo THEN b ELSE g[i][StepsOf(lo, hi, b, g)[i - 1]]]
         /\ \A i \in lo..hi : StepsOf(lo, hi, b, g)[i] \in A
<1> DEFINE Is(k, it) == it = [i \in lo..k |-> IF i = lo THEN b ELSE g[i][it[i - 1]]]
           T == {k \in Nat : ~ \E it : Is(k, it)}
<1>1. ASSUME T # {} PROVE FALSE
  <2>1. PICK k \in T : \A j \in T : k <= j
    <3>1. T \in SUBSET Nat
      OBVIOUS
    <3> HIDE DEF T
    <3> QED BY <1>1, <3>1, Least
  <2>0. k \in Nat /\ ~ \E it : Is(k, it)
    OBVIOUS
  <2> HIDE DEF T
  <2>2. CASE k <= lo
    <3>1. Is(k, [i \in lo..k |-> b])
      BY <2>0, <2>2
    <3> QED BY <2>0, <3>1
  <2>3. CASE ~(k <= lo)
    <3>1. k - 1 \in Nat /\ ~(k <= k - 1) /\ lo < k
      BY <2>0, <2>3
    <3>2. PICK it : Is(k - 1, it)
      BY <2>1, <3>1 DEF T
    <3> DEFINE h == [i \in lo..k |-> IF i = k THEN g[k][it[k - 1]] ELSE it[i]]
    <3>3. ASSUME NEW i \in lo..k
          PROVE  h[i] = IF i = lo THEN b ELSE g[i][h[i - 1]]
      <4>1. i - 1 \in lo..k => h[i - 1] = it[i - 1]
        BY <3>1
      <4>2. CASE i = k
        <5>1. h[i] = g[k][it[k - 1]] /\ i # lo /\ i - 1 \in lo..k
          BY <2>0, <3>1, <4>2
        <5> HIDE DEF h
        <5> QED BY <4>1, <4>2, <5>1
      <4>3. CASE i # k
        <5>1. h[i] = it[i] /\ i \in lo..(k - 1) /\ (i # lo => i - 1 \in lo..k)
          BY <2>0, <3>1, <4>3
        <5>2. it[i] = IF i = lo THEN b ELSE g[i][it[i - 1]]
          BY <3>2, <5>1
        <5> HIDE DEF h
        <5> QED BY <4>1, <5>1, <5>2
      <4> QED BY <4>2, <4>3
    <3>4. Is(k, h)
      BY <3>3
    <3> QED BY <2>0, <3>4
  <2> QED BY <2>2, <2>3
<1>2. PICK w : Is(hi, w)
  BY <1>1
<1> DEFINE it == StepsOf(lo, hi, b, g)
<1>3. it = [i \in lo..hi |-> IF i = lo THEN b ELSE g[i][it[i - 1]]]
  BY <1>2 DEF StepsOf
<1> HIDE DEF it
<1>4. lo <= hi => it[lo] \in A
  BY <1>3
<1>5. ASSUME NEW i \in lo..hi, i # lo, it[i - 1] \in A PROVE it[i] \in A
  BY <1>3, <1>5
<1>6. \A i \in lo..hi : it[i] \in A
  BY <1>4, <1>5, StepsStay
<1> QED
  BY <1>3, <1>6 DEF it

=============================================================================
