--------------------------- MODULE CountingLemmas ---------------------------
(***************************************************************************)
(* Facts about numbers and finite sets that the proofs about the pipeline  *)
(* need: induction over the natural numbers as a statement about sets of   *)
(* numbers, the n-th element of a set of numbers, and sums.                *)
(***************************************************************************)
EXTENDS Integers, FiniteSetTheorems, WellFoundedInduction, TLAPS

(* A non-empty set of natural numbers has a least element.                 *)
LEMMA LeastElement ==
  ASSUME NEW S \in SUBSET Nat, S # {}
  PROVE  \E m \in S : \A n \in S : m <= n
<1>1. PICK R : R = OpToRel(<, Nat)
  OBVIOUS
<1>2. IsWellFoundedOn(R, Nat)
  BY <1>1, NatLessThanWellFounded
<1>3. PICK m \in S : \A n \in S : ~(<<n, m>> \in R)
  BY <1>2, WFMin
<1>4. ASSUME NEW n \in S PROVE m <= n
  <2>1. m \in Nat /\ n \in Nat
    OBVIOUS
  <2>2. n < m => <<n, m>> \in R
    BY <1>1, <2>1 DEF OpToRel
  <2> QED
    BY <1>3, <2>1, <2>2
<1> QED
  BY <1>4

(* Induction: a set with 0 and the successors of its elements has all.     *)
LEMMA SetInduction ==
  ASSUME NEW P, 0 \in P, \A n \in Nat : n \in P => n + 1 \in P
  PROVE  \A n \in Nat : n \in P
<1>1. SUFFICES ASSUME Nat \ P # {} PROVE FALSE
  OBVIOUS
<1>2. PICK m \in Nat \ P : \A n \in Nat \ P : m <= n
  BY <1>1, LeastElement
<1>3. m # 0 /\ m - 1 \in Nat /\ (m - 1) + 1 = m /\ ~(m <= m - 1)
  BY <1>2
<1>4. m - 1 \in P
  BY <1>2, <1>3
<1> QED
  BY <1>2, <1>3, <1>4

(* A part of a finite set that lacks an element is smaller.                *)
LEMMA FewerInPart ==
  ASSUME NEW U, IsFiniteSet(U), NEW S \in SUBSET U, NEW x \in U, x \notin S
  PROVE  Cardinality(S) < Cardinality(U)
<1>1. PICK m, n : m = Cardinality(S) /\ n = Cardinality(U)
  OBVIOUS
<1>2. IsFiniteSet(S) /\ m \in Nat /\ n \in Nat
  BY <1>1, FS_Subset, FS_CardinalityType
<1>3. m <= n /\ m # n
  BY <1>1, FS_Subset
<1>4. m < n
  BY <1>2, <1>3
<1> QED
  BY <1>1, <1>4

(* The elements of a set of numbers up to a number                         *)
UpTo(S, e) == {b \in S : b <= e}

(* A finite set of natural numbers has an n-th element for every n up to   *)
(* its size.                                                               *)
LEMMA NthElement ==
  ASSUME NEW S \in SUBSET Nat, IsFiniteSet(S), NEW n \in 1..Cardinality(S)
  PROVE  \E e \in S : Cardinality(UpTo(S, e)) = n
<1>0. Cardinality(S) \in Nat
  BY FS_CardinalityType
<1>1. PICK P : P = {k \in Nat : k + 1 <= Cardinality(S) =>
                                  \E e \in S : Cardinality(UpTo(S, e)) = k + 1}
  OBVIOUS
<1>2. ASSUME NEW T \in SUBSET S PROVE IsFiniteSet(T) /\ Cardinality(T) \in Nat
  BY FS_Subset, FS_CardinalityType
<1>3. 0 \in P
  <2>1. ASSUME 0 + 1 <= Cardinality(S)
        PROVE  \E e \in S : Cardinality(UpTo(S, e)) = 0 + 1
    <3>1. S # {}
      BY <2>1, FS_EmptySet
    <3>2. PICK e \in S : \A b \in S : e <= b
      BY <3>1, LeastElement
    <3>3. UpTo(S, e) = {e}
      <4>1. ASSUME NEW b \in S PROVE b <= e <=> b = e
        <5>1. b \in Nat /\ e \in Nat /\ e <= b
          BY <3>2
        <5> QED
          BY <5>1
      <4> QED
        BY <4>1 DEF UpTo
    <3> QED
      BY <3>3, FS_Singleton
  <2> QED
    BY <1>1, <2>1
<1>4. ASSUME NEW k \in Nat, k \in P PROVE k + 1 \in P
  <2>1. ASSUME (k + 1) + 1 <= Cardinality(S)
        PROVE  \E e \in S : Cardinality(UpTo(S, e)) = (k + 1) + 1
    <3>1. PICK d \in S : Cardinality(UpTo(S, d)) = k + 1
      BY <1>0, <1>1, <1>4, <2>1
    <3>2. PICK Low, High : Low = UpTo(S, d) /\ High = S \ Low
      OBVIOUS
    <3>3. High # {}
      <4>1. High = {} => Low = S
        BY <3>2 DEF UpTo
      <4>2. Cardinality(Low) # Cardinality(S)
        BY <1>0, <2>1, <3>1, <3>2
      <4> QED
        BY <4>1, <4>2
    <3>4. PICK e \in High : \A b \in High : e <= b
      BY <3>2, <3>3, LeastElement
    <3>5. UpTo(S, e) = Low \cup {e}
      <4>1. ASSUME NEW b \in S PROVE b <= e <=> b <= d \/ b = e
        <5>1. b \in Nat /\ e \in Nat /\ d \in Nat
          BY <3>2
        <5>2. ~(e <= d)
          BY <3>2, <3>4 DEF UpTo
        <5>3. ~(b <= d) => e <= b
          BY <3>2, <3>4 DEF UpTo
        <5> QED
          BY <5>1, <5>2, <5>3
      <4>2. e \in S
        BY <3>2
      <4> QED
        BY <3>2, <4>1, <4>2 DEF UpTo
    <3>6. IsFiniteSet(Low) /\ e \notin Low /\ Cardinality(Low) = k + 1
      BY <1>2, <3>1, <3>2, <3>4 DEF UpTo
    <3>7. Cardinality(UpTo(S, e)) = (k + 1) + 1
      BY <3>5, <3>6, FS_AddElement
    <3> QED
      BY <3>2, <3>4, <3>7
  <2> QED
    BY <1>1, <2>1
<1>5. \A k \in Nat : k \in P
  BY <1>3, <1>4, SetInduction
<1>6. n - 1 \in Nat /\ (n - 1) + 1 = n /\ n <= Cardinality(S)
  BY <1>0
<1> QED
  BY <1>1, <1>5, <1>6

-----------------------------------------------------------------------------
(* A sum over the elements of a finite set, taken in any order, of numbers *)
(* is a number.                                                            *)
LEMMA SumOfNumbers ==
  ASSUME NEW f, IsFiniteSet(DOMAIN f), \A x \in DOMAIN f : f[x] \in Int
  PROVE  SumFunction(f) \in Int
<1> DEFINE S == DOMAIN f
           c(s) == CHOOSE x \in s : TRUE
           Step(g, s) == IF s = {} THEN 0 ELSE f[c(s)] + g[s \ {c(s)}]
           iter == CHOOSE g : g = [s \in SUBSET S |-> Step(g, s)]
<1>1. SumFunction(f) = iter[S]
  BY DEF SumFunction, SumFunctionOnSet, FoldFunctionOnSet, MapThenFoldSet
<1> HIDE DEF c
<1>2. ASSUME NEW s \in SUBSET S, s # {}
      PROVE  c(s) \in s /\ f[c(s)] \in Int /\ s \ {c(s)} \in SUBSET S
  BY <1>2 DEF c
<1>3. ASSUME NEW n \in Nat, NEW s \in SUBSET S, s # {}, Cardinality(s) <= n + 1
      PROVE  Cardinality(s \ {c(s)}) <= n
  <2>1. IsFiniteSet(s) /\ Cardinality(s) \in Nat
    BY FS_Subset, FS_CardinalityType
  <2>2. PICK x : x = c(s) /\ x \in s
    BY <1>2, <1>3
  <2>3. Cardinality(s \ {x}) = Cardinality(s) - 1
    BY <2>1, <2>2, FS_RemoveElement
  <2> QED
    BY <1>3, <2>1, <2>2, <2>3
<1>4. PICK size : size = [s \in SUBSET S |-> Cardinality(s)]
  OBVIOUS
<1>5. ASSUME NEW s \in SUBSET S
      PROVE  size[s] \in Nat /\ size[s] <= size[S] /\ (size[s] = 0 => s = {})
  <2>1. IsFiniteSet(s) /\ Cardinality(s) \in Nat /\ Cardinality(s) <= Cardinality(S)
    BY FS_Subset, FS_CardinalityType
  <2> QED
    BY <1>4, <2>1, FS_EmptySet
<1>6. ASSUME NEW n \in Nat, NEW s \in SUBSET S, s # {}, size[s] <= n + 1
      PROVE  size[s \ {c(s)}] <= n
  BY <1>2, <1>3, <1>4, <1>6
<1> DEFINE D(n) == {s \in SUBSET S : size[s] <= n}
           Defined(n) == \E g \in [D(n) -> Int] : \A s \in D(n) : g[s] = Step(g, s)
<1>7. PICK P : P = {n \in Nat : Defined(n)}
  OBVIOUS
<1>8. 0 \in P
  <2>1. PICK g : g = [s \in D(0) |-> 0]
    OBVIOUS
  <2>2. \A s \in D(0) : s = {}
    BY <1>5
  <2>3. g \in [D(0) -> Int] /\ \A s \in D(0) : g[s] = Step(g, s)
    BY <2>1, <2>2
  <2> QED
    BY <1>7, <2>3
<1>9. ASSUME NEW n \in Nat, n \in P PROVE n + 1 \in P
  <2>1. PICK g \in [D(n) -> Int] : \A s \in D(n) : g[s] = Step(g, s)
    BY <1>7, <1>9
  <2>2. PICK h : h = [s \in D(n + 1) |-> Step(g, s)]
    OBVIOUS
  <2>3. ASSUME NEW s \in D(n + 1), s # {}
        PROVE  /\ s \ {c(s)} \in D(n)
               /\ s \ {c(s)} \in D(n + 1)
    <3>1. s \ {c(s)} \in SUBSET S /\ size[s \ {c(s)}] <= n
      BY <1>2, <1>6, <2>3
    <3>2. size[s \ {c(s)}] \in Nat
      BY <1>5, <3>1
    <3> QED
      BY <3>1, <3>2
  <2>4. ASSUME NEW s \in D(n + 1) PROVE h[s] \in Int /\ h[s] = Step(h, s)
    <3>1. CASE s = {}
      BY <2>2, <3>1
    <3>2. CASE s # {}
      <4>1. PICK t : t = s \ {c(s)} /\ t \in D(n) /\ t \in D(n + 1)
        BY <2>3, <3>2
      <4>2. h[t] = Step(g, t) /\ g[t] = Step(g, t)
        BY <2>1, <2>2, <4>1
      <4>3. h[s] = f[c(s)] + g[t] /\ g[t] \in Int
        BY <2>1, <2>2, <3>2, <4>1
      <4>4. f[c(s)] \in Int
        BY <1>2, <3>2
      <4> QED
        BY <3>2, <4>1, <4>2, <4>3, <4>4
    <3> QED
      BY <3>1, <3>2
  <2>5. h \in [D(n + 1) -> Int]
    BY <2>2, <2>4
  <2>6. Defined(n + 1)
    BY <2>4, <2>5, Zenon
  <2> HIDE DEF Defined
  <2> QED
    BY <1>7, <2>6
<1>10. \A n \in Nat : n \in P
  BY <1>8, <1>9, SetInduction
<1>11. iter = [s \in SUBSET S |-> Step(iter, s)]
  <2>1. size[S] \in Nat /\ D(size[S]) = SUBSET S
    BY <1>5
  <2>2. PICK g \in [D(size[S]) -> Int] : \A s \in D(size[S]) : g[s] = Step(g, s)
    BY <1>7, <1>10, <2>1
  <2>3. g = [s \in SUBSET S |-> Step(g, s)]
    BY <2>1, <2>2
  <2> QED
    BY <2>3
<1>12. PICK it : it = iter
  OBVIOUS
<1>13. \A s \in SUBSET S : it[s] = Step(it, s)
  BY <1>11, <1>12
<1>14. it[{}] = 0 /\ \A s \in SUBSET S : s # {} => it[s] = f[c(s)] + it[s \ {c(s)}]
  BY <1>13, Zenon
<1>15. PICK Q : Q = {n \in Nat : \A s \in SUBSET S : size[s] <= n => it[s] \in Int}
  OBVIOUS
<1>16. 0 \in Q
  <2>1. ASSUME NEW s \in SUBSET S, size[s] <= 0 PROVE it[s] \in Int
    <3>1. s = {}
      BY <1>5, <2>1
    <3> QED
      BY <1>14, <3>1
  <2> QED
    BY <1>15, <2>1
<1>17. ASSUME NEW n \in Nat, n \in Q PROVE n + 1 \in Q
  <2>1. ASSUME NEW s \in SUBSET S, size[s] <= n + 1 PROVE it[s] \in Int
    <3>1. CASE s = {}
      BY <1>14, <3>1
    <3>2. CASE s # {}
      <4>1. PICK t : t = s \ {c(s)} /\ t \in SUBSET S /\ size[t] <= n
        BY <1>2, <1>6, <2>1, <3>2
      <4>2. it[t] \in Int
        BY <1>15, <1>17, <4>1
      <4>3. it[s] = f[c(s)] + it[t] /\ f[c(s)] \in Int
        BY <1>2, <1>14, <3>2, <4>1
      <4> QED
        BY <4>2, <4>3
    <3> QED
      BY <3>1, <3>2
  <2> QED
    BY <1>15, <2>1
<1>18. \A n \in Nat : n \in Q
  BY <1>16, <1>17, SetInduction
<1>19. it[S] \in Int
  BY <1>5, <1>15, <1>18
<1> QED
  BY <1>1, <1>12, <1>19

-----------------------------------------------------------------------------
(* N values, each made from the one before                                 *)
Steps(g, D, start, step, N) ==
  /\ g \in [0..N -> D] /\ g[0] = start
  /\ \A n \in 1..N : g[n] = step[n][g[n - 1]]

(* Such values exist.                                                      *)
LEMMA StepByStep ==
  ASSUME NEW D, NEW start \in D, NEW step \in [Nat -> [D -> D]], NEW N \in Nat
  PROVE  \E g : Steps(g, D, start, step, N)
<1> DEFINE Reaches(k) == \E g \in [0..k -> D] :
                           /\ g[0] = start
                           /\ \A n \in 1..k : g[n] = step[n][g[n - 1]]
<1>1. PICK P : P = {k \in Nat : Reaches(k)}
  OBVIOUS
<1>2. 0 \in P
  <2>1. PICK g : g = [n \in 0..0 |-> start]
    OBVIOUS
  <2>2. g \in [0..0 -> D] /\ g[0] = start /\ \A n \in 1..0 : g[n] = step[n][g[n - 1]]
    BY <2>1
  <2> QED
    BY <1>1, <2>2
<1>3. ASSUME NEW k \in Nat, k \in P PROVE k + 1 \in P
  <2>1. PICK g \in [0..k -> D] : g[0] = start /\ \A n \in 1..k : g[n] = step[n][g[n - 1]]
    BY <1>1, <1>3
  <2>2. PICK last : last = step[k + 1][g[k]]
    OBVIOUS
  <2>3. last \in D
    <3>1. g[k] \in D /\ k + 1 \in Nat
      BY <2>1
    <3> QED
      BY <2>2, <3>1
  <2>4. PICK h : h = [n \in 0..(k + 1) |-> IF n = k + 1 THEN last ELSE g[n]]
    OBVIOUS
  <2>5. h \in [0..(k + 1) -> D] /\ h[0] = start
    BY <2>1, <2>3, <2>4
  <2>6. ASSUME NEW n \in 1..(k + 1) PROVE h[n] = step[n][h[n - 1]]
    <3>1. CASE n = k + 1
      BY <2>2, <2>4, <3>1
    <3>2. CASE n \in 1..k
      BY <2>1, <2>4, <3>2
    <3> QED
      BY <3>1, <3>2
  <2>7. Reaches(k + 1)
    BY <2>5, <2>6
  <2> HIDE DEF Reaches
  <2> QED
    BY <1>1, <2>7
<1>4. \A k \in Nat : k \in P
  BY <1>2, <1>3, SetInduction
<1> QED
  BY <1>1, <1>4 DEF Steps
=============================================================================
