------------------------- MODULE ProviderSinkProofs -------------------------
(***************************************************************************)
(* What the registry serves after a provider's callback is a tree, laminar *)
(* and complete, whatever events the provider has sent, and whatever sets  *)
(* of events there are.                                                    *)
(***************************************************************************)
EXTENDS ProviderSink, MergeLemmas

(* Above, of any analysis *)
ClosedIn(x, S) ==
  \A p \in Ids(x) : \A c \in Range(NodeAt(x, p).children) : c \in S => p \in S

AboveIn(x, m) == {n \in Ids(x) : \A S \in SUBSET Ids(x) : m \in S /\ ClosedIn(x, S) => n \in S}

(* A set is closed if it has who holds what it has.                        *)
LEMMA ClosedByHolders ==
  ASSUME NEW x, NEW S
  PROVE  ClosedIn(x, S) <=> \A c, p, k : ListsChild(x, c, p, k) /\ c \in S => p \in S
BY DEF ClosedIn, ListsChild, Range

(* Every node is above itself, and what is above a node's parent is above  *)
(* the node.                                                               *)
LEMMA AboveParent ==
  ASSUME NEW x, NEW m \in Ids(x)
  PROVE  /\ m \in AboveIn(x, m)
         /\ \A p, k : ListsChild(x, m, p, k) => AboveIn(x, p) \subseteq AboveIn(x, m)
<1>1. ASSUME NEW p, NEW k, ListsChild(x, m, p, k), NEW n \in AboveIn(x, p),
             NEW S \in SUBSET Ids(x), m \in S, ClosedIn(x, S)
      PROVE  n \in S
  <2>1. p \in S
    BY <1>1, ClosedByHolders
  <2> QED
    BY <1>1, <2>1 DEF AboveIn
<1> QED
  BY <1>1 DEF AboveIn

(* A node is also above those above which a node is that it holds.         *)
LEMMA AboveIsClosed ==
  ASSUME NEW x, NEW m, NEW c \in AboveIn(x, m), NEW p, NEW k, ListsChild(x, c, p, k)
  PROVE  p \in AboveIn(x, m)
<1>1. p \in Ids(x)
  BY DEF ListsChild
<1>2. ASSUME NEW S \in SUBSET Ids(x), m \in S, ClosedIn(x, S) PROVE p \in S
  <2>1. c \in S
    BY <1>2 DEF AboveIn
  <2> QED
    BY <1>2, <2>1, ClosedByHolders
<1> QED
  BY <1>1, <1>2 DEF AboveIn

(* A node above another one is that node, or holds one that is above it.   *)
LEMMA AboveThroughChild ==
  ASSUME NEW x, NEW m \in Ids(x), NEW n \in AboveIn(x, m), n # m
  PROVE  \E c, k : ListsChild(x, c, n, k) /\ c \in AboveIn(x, m)
<1>1. PICK S : S = {m} \cup {j \in Ids(x) : \E c, k : ListsChild(x, c, j, k) /\ c \in AboveIn(x, m)}
  OBVIOUS
<1>2. m \in S /\ S \in SUBSET Ids(x)
  BY <1>1
<1>3. ASSUME NEW c \in S, NEW p, NEW k, ListsChild(x, c, p, k) PROVE p \in S
  <2>1. c \in AboveIn(x, m)
    <3>1. CASE c = m
      BY <3>1, AboveParent
    <3>2. CASE c # m
      <4>1. PICK d, l : ListsChild(x, d, c, l) /\ d \in AboveIn(x, m)
        BY <1>1, <3>2
      <4> QED
        BY <4>1, AboveIsClosed
    <3> QED
      BY <3>1, <3>2
  <2>2. p \in Ids(x)
    BY <1>3 DEF ListsChild
  <2> QED
    BY <1>1, <1>3, <2>1, <2>2
<1>4. ClosedIn(x, S)
  BY <1>3, ClosedByHolders
<1>5. n \in S
  BY <1>2, <1>4 DEF AboveIn
<1> QED
  BY <1>1, <1>5

-----------------------------------------------------------------------------
(* The spans of a valid analysis *)

(* What is known of an analysis whose children the validator has passed    *)
Ordered(x) == IsAnalysis(x) /\ OrderedChildren(x)

(* A node's span is in that of every node above it.                        *)
LEMMA AboveContains ==
  ASSUME NEW x, Ordered(x), NEW m \in Ids(x), NEW n \in AboveIn(x, m)
  PROVE  Contains(NodeAt(x, n).span, NodeAt(x, m).span)
<1>1. \A i \in Ids(x) : IsSpan(NodeAt(x, i).span)
  BY NodesAreTyped DEF Ordered, IsNode
<1>2. PICK S : S = {j \in Ids(x) : Contains(NodeAt(x, j).span, NodeAt(x, m).span)}
  OBVIOUS
<1>3. m \in S
  BY <1>1, <1>2 DEF Contains, IsSpan
<1>4. ASSUME NEW c \in S, NEW p, NEW k, ListsChild(x, c, p, k) PROVE p \in S
  <2>1. p \in Ids(x) /\ c \in Ids(x) /\ Contains(NodeAt(x, p).span, NodeAt(x, c).span)
    BY <1>2, <1>4 DEF Ordered, OrderedChildren, ListsChild
  <2>2. Contains(NodeAt(x, c).span, NodeAt(x, m).span)
    BY <1>2
  <2>3. PICK s, u, v : s = NodeAt(x, p).span /\ u = NodeAt(x, c).span /\ v = NodeAt(x, m).span
    OBVIOUS
  <2>4. IsSpan(s) /\ IsSpan(u) /\ IsSpan(v) /\ Contains(s, u) /\ Contains(u, v)
    BY <1>1, <2>1, <2>2, <2>3
  <2>5. Contains(s, v)
    BY <2>4 DEF IsSpan, Contains
  <2> QED
    BY <1>2, <2>1, <2>3, <2>5
<1>5. ClosedIn(x, S)
  BY <1>4, ClosedByHolders
<1>6. n \in S
  BY <1>2, <1>3, <1>5 DEF AboveIn
<1> QED
  BY <1>2, <1>6

(* The children of a node follow each other, the distant ones too.         *)
LEMMA ChildrenApart ==
  ASSUME NEW x, Ordered(x), NEW p, NEW c, NEW k, NEW d, NEW l,
         ListsChild(x, c, p, k), ListsChild(x, d, p, l), k < l
  PROVE  NodeAt(x, c).span.end <= NodeAt(x, d).span.begin
<1>1. PICK q, L : q = NodeAt(x, p).children /\ L = Len(q)
  OBVIOUS
<1>2. L \in Nat /\ DOMAIN q = 1..L /\ p \in Ids(x)
  BY <1>1, ChildrenAreTyped DEF Ordered, ListsChild
<1>3. PICK B, E : /\ B = [j \in 1..L |-> NodeAt(x, q[j]).span.begin]
                  /\ E = [j \in 1..L |-> NodeAt(x, q[j]).span.end]
  OBVIOUS
<1>4. \A j \in 1..L : B[j] \in Nat /\ E[j] \in Nat /\ B[j] <= E[j]
  <2>1. ASSUME NEW j \in 1..L PROVE IsSpan(NodeAt(x, q[j]).span)
    <3>1. q[j] \in Ids(x)
      BY <1>1, <1>2, <2>1 DEF Ordered, OrderedChildren
    <3> QED
      BY <3>1, NodesAreTyped DEF Ordered, IsNode
  <2> QED
    BY <1>3, <2>1 DEF IsSpan
<1>5. ASSUME NEW j \in 2..L PROVE E[j - 1] <= B[j]
  <2>1. j \in DOMAIN q /\ j # 1 /\ j - 1 \in 1..L /\ j \in 1..L
    BY <1>2
  <2>2. NodeAt(x, q[j - 1]).span.end <= NodeAt(x, q[j]).span.begin
    BY <1>1, <1>2, <2>1 DEF Ordered, OrderedChildren
  <2> QED
    BY <1>3, <2>1, <2>2
<1>6. k \in 1..L /\ l \in 1..L /\ c = q[k] /\ d = q[l]
  BY <1>1, <1>2 DEF ListsChild
<1>7. PICK P : P = {j \in Nat : k + j + 1 <= L => E[k] <= B[k + j + 1]}
  OBVIOUS
<1>8. 0 \in P
  <2>1. ASSUME k + 0 + 1 <= L PROVE E[k] <= B[k + 0 + 1]
    <3>1. k + 1 \in 2..L /\ (k + 1) - 1 = k /\ k + 0 + 1 = k + 1
      BY <1>2, <1>6, <2>1
    <3> QED
      BY <1>5, <3>1
  <2> QED
    BY <1>7, <2>1
<1>9. ASSUME NEW j \in Nat, j \in P PROVE j + 1 \in P
  <2>1. ASSUME k + (j + 1) + 1 <= L PROVE E[k] <= B[k + (j + 1) + 1]
    <3>1. PICK a, b : a = k + j + 1 /\ b = k + (j + 1) + 1
      OBVIOUS
    <3>2. a \in 1..L /\ b \in 2..L /\ b \in 1..L /\ b - 1 = a /\ a <= L
      BY <1>2, <1>6, <2>1, <3>1
    <3>3. E[k] <= B[a]
      BY <1>7, <1>9, <3>1, <3>2
    <3>4. B[a] <= E[a] /\ E[a] <= B[b]
      BY <1>4, <1>5, <3>2
    <3>5. E[k] \in Nat /\ B[a] \in Nat /\ E[a] \in Nat /\ B[b] \in Nat
      BY <1>4, <1>6, <3>2
    <3> QED
      BY <3>1, <3>3, <3>4, <3>5
  <2> QED
    BY <1>7, <2>1
<1>10. \A j \in Nat : j \in P
  BY <1>8, <1>9, SetInduction
<1>11. PICK j : j = l - k - 1
  OBVIOUS
<1>12. j \in Nat /\ k + j + 1 = l /\ l <= L
  BY <1>2, <1>6, <1>11
<1>13. E[k] <= B[l]
  BY <1>7, <1>10, <1>12
<1> QED
  BY <1>3, <1>6, <1>13

(* Two nodes are nested as their ancestry says, or apart.                  *)
Related(x, m, n) ==
  \/ n \in AboveIn(x, m) /\ Contains(NodeAt(x, n).span, NodeAt(x, m).span)
  \/ m \in AboveIn(x, n) /\ Contains(NodeAt(x, m).span, NodeAt(x, n).span)
  \/ Disjoint(NodeAt(x, m).span, NodeAt(x, n).span)

(* If a node's parent and another node are, so are the node and that one:  *)
(* if the other is below the parent it is below one of its children, and   *)
(* the children are apart.                                                 *)
LEMMA RelatedThroughParent ==
  ASSUME NEW x, Ordered(x), NEW m \in Ids(x), NEW n \in Ids(x), NEW p, NEW k,
         ListsChild(x, m, p, k), Related(x, p, n)
  PROVE  Related(x, m, n)
<1>1. PICK u, v, w : u = NodeAt(x, m).span /\ v = NodeAt(x, n).span /\ w = NodeAt(x, p).span
  OBVIOUS
<1>2. p \in Ids(x) /\ Contains(w, u)
  BY <1>1 DEF ListsChild, Ordered, OrderedChildren
<1>3. IsSpan(u) /\ IsSpan(v) /\ IsSpan(w)
  BY <1>1, <1>2, NodesAreTyped DEF Ordered, IsNode
<1>4. CASE n \in AboveIn(x, p)
  <2>1. n \in AboveIn(x, m)
    BY <1>4, AboveParent
  <2> QED
    BY <2>1, AboveContains DEF Related
<1>5. CASE p \in AboveIn(x, n) /\ p = n
  <2>1. n \in AboveIn(x, m)
    BY <1>2, <1>5, AboveParent
  <2> QED
    BY <2>1, AboveContains DEF Related
<1>6. CASE p \in AboveIn(x, n) /\ p # n
  <2>1. PICK c, l : ListsChild(x, c, p, l) /\ c \in AboveIn(x, n)
    BY <1>6, AboveThroughChild
  <2>2. CASE c = m
    BY <2>1, <2>2, AboveContains DEF Related
  <2>3. CASE c # m
    <3>1. PICK s : s = NodeAt(x, c).span
      OBVIOUS
    <3>2. c \in Ids(x) /\ Contains(s, v) /\ IsSpan(s)
      BY <1>1, <2>1, <3>1, AboveContains, NodesAreTyped DEF Ordered, IsNode, AboveIn
    <3>3. k \in Nat /\ l \in Nat /\ k # l
      <4>1. k # l
        BY <2>1, <2>3 DEF ListsChild
      <4>2. k \in DOMAIN NodeAt(x, p).children /\ l \in DOMAIN NodeAt(x, p).children
        BY <2>1 DEF ListsChild
      <4> QED
        BY <1>2, <4>1, <4>2, ChildrenAreTyped DEF Ordered
    <3>4. k < l => u.end <= s.begin
      BY <1>1, <2>1, <3>1, ChildrenApart
    <3>5. l < k => s.end <= u.begin
      BY <1>1, <2>1, <3>1, ChildrenApart
    <3>6. u.end <= s.begin \/ s.end <= u.begin
      BY <3>3, <3>4, <3>5
    <3>7. Disjoint(u, v)
      BY <1>3, <3>2, <3>6 DEF Disjoint, Contains, IsSpan
    <3> QED
      BY <1>1, <3>7 DEF Related
  <2> QED
    BY <2>2, <2>3
<1>7. CASE Disjoint(w, v)
  <2>1. Disjoint(u, v)
    BY <1>2, <1>3, <1>7 DEF Disjoint, Contains, IsSpan
  <2> QED
    BY <1>1, <2>1 DEF Related
<1> QED
  BY <1>1, <1>4, <1>5, <1>6, <1>7 DEF Related

(* In an analysis whose nodes the traversal reaches, the root is above all *)
(* nodes, and any two are related: by induction over the levels.           *)
LEMMA ReachedIsTree ==
  ASSUME NEW x, Ordered(x), Connected(x), x.nodes # <<>>
  PROVE  /\ \A m \in Ids(x) : 0 \in AboveIn(x, m)
         /\ \A m, n \in Ids(x) : Related(x, m, n)
<1>1. Len(x.nodes) \in Nat \ {0}
  <2>1. Len(x.nodes) \in Nat
    BY SequenceFacts DEF Ordered, IsAnalysis
  <2>2. Len(x.nodes) = 0 => x.nodes = <<>>
    BY DEF Ordered, IsAnalysis
  <2> QED
    BY <2>1, <2>2
<1>2. PICK R, N : Levels(x, R, N)
  BY <1>1, LevelsExist DEF Ordered
<1>3. N \in Nat \ {0} /\ 0 \in Ids(x)
  BY <1>1, <1>2 DEF Levels, Ids
<1>4. R[0] = {0} /\ \A m \in Ids(x) : m \in R[N]
  BY <1>2 DEF Levels, Connected
<1>5. ASSUME NEW k \in Nat, k + 1 <= N, NEW m \in R[k + 1]
      PROVE  m \in R[k] \/ \E i \in R[k] : \E p : ListsChild(x, m, i, p)
  BY <1>2, <1>3, <1>5, LevelsReachChildren
<1>6. ASSUME NEW k \in Nat, k <= N PROVE R[k] \subseteq Ids(x)
  <2>1. k \in 0..N
    BY <1>3, <1>6
  <2> QED
    BY <1>2, <2>1 DEF Levels
<1>7. \A m \in Ids(x) : 0 \in AboveIn(x, m)
  <2>1. PICK P : P = {k \in Nat : k <= N => \A m \in R[k] : 0 \in AboveIn(x, m)}
    OBVIOUS
  <2>2. 0 \in P
    BY <1>3, <1>4, <2>1, AboveParent
  <2>3. ASSUME NEW k \in Nat, k \in P PROVE k + 1 \in P
    <3>1. ASSUME k + 1 <= N, NEW m \in R[k + 1] PROVE 0 \in AboveIn(x, m)
      <4>1. k <= N /\ m \in Ids(x)
        BY <1>3, <1>6, <3>1
      <4>2. \A i \in R[k] : 0 \in AboveIn(x, i)
        BY <2>1, <2>3, <4>1
      <4> QED
        BY <1>5, <3>1, <4>1, <4>2, AboveParent
    <3> QED
      BY <2>1, <3>1
  <2>4. \A k \in Nat : k \in P
    BY <2>2, <2>3, SetInduction
  <2>5. N \in P /\ N <= N
    BY <1>3, <2>4
  <2> QED
    BY <1>4, <2>1, <2>5
<1>8. \A m, n \in Ids(x) : Related(x, m, n)
  <2>1. PICK P : P = {k \in Nat : k <= N => \A m \in R[k], n \in Ids(x) : Related(x, m, n)}
    OBVIOUS
  <2>2. 0 \in P
    <3>1. ASSUME NEW n \in Ids(x) PROVE Related(x, 0, n)
      BY <1>3, <1>7, AboveContains DEF Related
    <3> QED
      BY <1>4, <2>1, <3>1
  <2>3. ASSUME NEW k \in Nat, k \in P PROVE k + 1 \in P
    <3>1. ASSUME k + 1 <= N, NEW m \in R[k + 1], NEW n \in Ids(x) PROVE Related(x, m, n)
      <4>1. k <= N /\ m \in Ids(x)
        BY <1>3, <1>6, <3>1
      <4>2. \A i \in R[k] : Related(x, i, n)
        BY <2>1, <2>3, <4>1
      <4> QED
        BY <1>5, <3>1, <4>1, <4>2, RelatedThroughParent
    <3> QED
      BY <2>1, <3>1
  <2>4. \A k \in Nat : k \in P
    BY <2>2, <2>3, SetInduction
  <2>5. N \in P /\ N <= N
    BY <1>3, <2>4
  <2> QED
    BY <1>4, <2>1, <2>5
<1> QED
  BY <1>7, <1>8

-----------------------------------------------------------------------------
(* Sums of sequences of numbers *)

(* The sums of the parts of a sequence                                     *)
Sums(q, g) ==
  /\ g \in [0..Len(q) -> Nat] /\ g[0] = 0
  /\ \A i \in 1..Len(q) : g[i] = g[i - 1] + q[i]

(* A sum of numbers is the last of such sums.                              *)
LEMMA TotalIsSum ==
  ASSUME NEW q \in Seq(Nat)
  PROVE  \E g : Sums(q, g) /\ Total(q) = g[Len(q)]
<1>1. PICK N : N = Len(q)
  OBVIOUS
<1>2. N \in Nat /\ \A i \in 1..N : q[i] \in Nat
  BY <1>1
<1> DEFINE iter == CHOOSE g : g = [i \in 0..N |-> IF i = 0 THEN 0 ELSE g[i - 1] + q[i]]
<1>3. Total(q) = iter[N]
  BY <1>1 DEF Total
<1>4. PICK step : step = [n \in Nat |-> [v \in Nat |-> IF n \in 1..N THEN v + q[n] ELSE v]]
  OBVIOUS
<1>5. step \in [Nat -> [Nat -> Nat]]
  <2>1. ASSUME NEW n \in Nat, NEW v \in Nat
        PROVE  (IF n \in 1..N THEN v + q[n] ELSE v) \in Nat
    BY <1>2
  <2> QED
    BY <1>4, <2>1
<1>6. PICK g : Steps(g, Nat, 0, step, N)
  <2>1. 0 \in Nat
    OBVIOUS
  <2> QED
    BY <1>2, <1>5, <2>1, StepByStep
<1>7. ASSUME NEW i \in 1..N PROVE g[i] = g[i - 1] + q[i]
  <2>1. i \in Nat /\ g[i - 1] \in Nat
    BY <1>2, <1>6 DEF Steps
  <2>2. g[i] = step[i][g[i - 1]]
    BY <1>6 DEF Steps
  <2> QED
    BY <1>4, <2>1, <2>2
<1>8. g = [i \in 0..N |-> IF i = 0 THEN 0 ELSE g[i - 1] + q[i]]
  BY <1>2, <1>6, <1>7 DEF Steps
<1>9. iter = [i \in 0..N |-> IF i = 0 THEN 0 ELSE iter[i - 1] + q[i]]
  BY <1>8
<1> HIDE DEF iter
<1>10. PICK h : h = iter
  OBVIOUS
<1>11. h[0] = 0 /\ \A i \in 1..N : h[i] = h[i - 1] + q[i]
  <2>1. 0 \in 0..N /\ \A i \in 1..N : i \in 0..N /\ i # 0
    BY <1>2
  <2> QED
    BY <1>9, <1>10, <2>1
<1>12. PICK P : P = {i \in Nat : i <= N => h[i] \in Nat}
  OBVIOUS
<1>13. \A i \in Nat : i \in P
  <2>1. 0 \in P
    BY <1>11, <1>12
  <2>2. ASSUME NEW i \in Nat, i \in P PROVE i + 1 \in P
    <3>1. ASSUME i + 1 <= N PROVE h[i + 1] \in Nat
      <4>1. i + 1 \in 1..N /\ (i + 1) - 1 = i /\ i <= N
        BY <1>2, <3>1
      <4>2. h[i] \in Nat
        BY <1>12, <2>2, <4>1
      <4>3. q[i + 1] \in Nat
        BY <1>2, <4>1
      <4>4. h[i + 1] = h[i] + q[i + 1]
        BY <1>11, <4>1
      <4> QED
        BY <4>2, <4>3, <4>4
    <3> QED
      BY <1>12, <3>1
  <2> QED
    BY <2>1, <2>2, SetInduction
<1>14. h \in [0..N -> Nat]
  <2>1. \A i \in 0..N : i \in Nat /\ i <= N
    BY <1>2
  <2>2. \A i \in 0..N : h[i] \in Nat
    BY <1>12, <1>13, <2>1
  <2>3. h = [i \in 0..N |-> h[i]]
    BY <1>9, <1>10
  <2> QED
    BY <2>2, <2>3
<1>15. Sums(q, h) /\ Total(q) = h[Len(q)]
  BY <1>1, <1>3, <1>10, <1>11, <1>14 DEF Sums
<1> QED
  BY <1>15

(* Totals are numbers.                                                    *)
LEMMA TotalsAreNumbers ==
  ASSUME NEW q \in Seq(Nat)
  PROVE  Total(q) \in Nat
<1>1. PICK g : Sums(q, g) /\ Total(q) = g[Len(q)]
  BY TotalIsSum
<1>2. Len(q) \in Nat
  OBVIOUS
<1> QED
  BY <1>1, <1>2 DEF Sums

(* Where a sequence goes on with another, but for d more at place k         *)
MoreAt(q, r, k, d) ==
  \A i \in 1..Len(q) : r[i] = q[i] + (IF i = k THEN d ELSE 0)

(* The sums of a sequence are those of another up to where they differ,    *)
(* and then differ by as much.                                             *)
LEMMA SumsMove ==
  ASSUME NEW q \in Seq(Nat), NEW r \in Seq(Nat), NEW g, NEW h, Sums(q, g), Sums(r, h),
         NEW k \in 0..Len(q), Len(q) <= Len(r), NEW d \in Nat, MoreAt(q, r, k, d)
  PROVE  \A i \in 0..Len(q) : h[i] = g[i] + (IF k # 0 /\ k <= i THEN d ELSE 0)
<1>1. PICK N : N = Len(q) /\ N \in Nat /\ N <= Len(r) /\ Len(r) \in Nat /\ k \in 0..N
  OBVIOUS
<1>2. PICK P : P = {i \in Nat : i <= N => h[i] = g[i] + (IF k # 0 /\ k <= i THEN d ELSE 0)}
  OBVIOUS
<1>3. 0 \in P
  BY <1>1, <1>2 DEF Sums
<1>4. ASSUME NEW i \in Nat, i \in P PROVE i + 1 \in P
  <2>1. ASSUME i + 1 <= N
        PROVE  h[i + 1] = g[i + 1] + (IF k # 0 /\ k <= i + 1 THEN d ELSE 0)
    <3>1. /\ i + 1 \in 1..Len(q) /\ i + 1 \in 1..Len(r) /\ (i + 1) - 1 = i /\ i <= N
          /\ i \in 0..Len(q)
      BY <1>1, <2>1
    <3>2. h[i] = g[i] + (IF k # 0 /\ k <= i THEN d ELSE 0)
      BY <1>2, <1>4, <3>1
    <3>3. h[i + 1] = h[i] + r[i + 1] /\ g[i + 1] = g[i] + q[i + 1]
      BY <3>1 DEF Sums
    <3>4. r[i + 1] = q[i + 1] + (IF i + 1 = k THEN d ELSE 0)
      BY <3>1 DEF MoreAt
    <3>5. PICK a, b, c, e : a = g[i] /\ b = q[i + 1] /\ c = h[i] /\ e = r[i + 1]
      OBVIOUS
    <3>6. a \in Nat
      BY <3>1, <3>5 DEF Sums
    <3>7. b \in Nat
      BY <3>1, <3>5
    <3>8. k \in Nat
      BY <1>1
    <3>9. c + e = (a + b) + (IF k # 0 /\ k <= i + 1 THEN d ELSE 0)
      <4>1. c = a + (IF k # 0 /\ k <= i THEN d ELSE 0)
        BY <3>2, <3>5
      <4>2. e = b + (IF i + 1 = k THEN d ELSE 0)
        BY <3>4, <3>5
      <4> QED
        BY <3>6, <3>7, <3>8, <4>1, <4>2
    <3> QED
      BY <3>3, <3>5, <3>9
  <2> QED
    BY <1>2, <2>1
<1>5. \A i \in Nat : i \in P
  BY <1>3, <1>4, SetInduction
<1> QED
  BY <1>1, <1>2, <1>5

(* What follows a sequence with 0 has its total.                           *)
LEMMA TotalOfAppended ==
  ASSUME NEW q \in Seq(Nat), NEW r \in Seq(Nat), Len(r) = Len(q) + 1,
         \A i \in 1..Len(q) : r[i] = q[i], r[Len(q) + 1] = 0
  PROVE  Total(q) \in Nat /\ Total(r) = Total(q)
<1>1. PICK g : Sums(q, g) /\ Total(q) = g[Len(q)]
  BY TotalIsSum
<1>2. PICK h : Sums(r, h) /\ Total(r) = h[Len(r)]
  BY TotalIsSum
<1>3. PICK N : N = Len(q)
  OBVIOUS
<1>4. N \in Nat /\ N \in 0..Len(q) /\ 0 \in 0..Len(q) /\ Len(q) <= Len(r)
  BY <1>3
<1>5. h[N] = g[N]
  <2>1. MoreAt(q, r, 0, 0)
    BY <1>4 DEF MoreAt
  <2>2. \A i \in 0..Len(q) : h[i] = g[i] + (IF 0 # 0 /\ 0 <= i THEN 0 ELSE 0)
    <3>1. 0 \in Nat
      OBVIOUS
    <3> QED
      BY <1>1, <1>2, <1>4, <2>1, <3>1, SumsMove
  <2>3. h[N] = g[N] + (IF 0 # 0 /\ 0 <= N THEN 0 ELSE 0) /\ g[N] \in Nat
    BY <1>1, <1>4, <2>2 DEF Sums
  <2> QED
    BY <2>3
<1>6. h[N + 1] = h[N] + 0
  <2>1. N + 1 \in 1..Len(r) /\ (N + 1) - 1 = N /\ r[N + 1] = 0
    BY <1>3, <1>4
  <2> QED
    BY <1>2, <2>1 DEF Sums
<1>7. g[N] \in Nat
  BY <1>1, <1>4 DEF Sums
<1> QED
  BY <1>1, <1>2, <1>3, <1>5, <1>6, <1>7

(* A sequence with one number increased by 1 has a total increased by 1.   *)
LEMMA TotalOfIncreased ==
  ASSUME NEW q \in Seq(Nat), NEW r \in Seq(Nat), Len(r) = Len(q), NEW k \in 1..Len(q),
         MoreAt(q, r, k, 1)
  PROVE  Total(q) \in Nat /\ Total(r) = Total(q) + 1
<1>1. PICK g : Sums(q, g) /\ Total(q) = g[Len(q)]
  BY TotalIsSum
<1>2. PICK h : Sums(r, h) /\ Total(r) = h[Len(r)]
  BY TotalIsSum
<1>3. PICK N : N = Len(q)
  OBVIOUS
<1>4. N \in Nat /\ N \in 0..Len(q) /\ k \in 0..Len(q) /\ k # 0 /\ k <= N /\ Len(q) <= Len(r)
  BY <1>3
<1>5. \A i \in 0..Len(q) : h[i] = g[i] + (IF k # 0 /\ k <= i THEN 1 ELSE 0)
  <2>1. 1 \in Nat
    OBVIOUS
  <2> QED
    BY <1>1, <1>2, <1>4, <2>1, SumsMove
<1>6. h[N] = g[N] + 1 /\ g[N] \in Nat
  BY <1>1, <1>4, <1>5 DEF Sums
<1> QED
  BY <1>1, <1>2, <1>3, <1>6

-----------------------------------------------------------------------------
(* The children of a tree *)

(* The numbers of children and of features of the nodes                    *)
ChildCounts(x) == [i \in DOMAIN x.nodes |-> Len(x.nodes[i].children)]
FeatureCounts(x) == [i \in DOMAIN x.nodes |-> Len(x.nodes[i].features)]

(* They are sequences of numbers.                                          *)
LEMMA CountsAreNumbers ==
  ASSUME NEW x, IsAnalysis(x)
  PROVE  /\ Len(x.nodes) \in Nat /\ DOMAIN x.nodes = 1..Len(x.nodes)
         /\ ChildCounts(x) \in Seq(Nat) /\ Len(ChildCounts(x)) = Len(x.nodes)
         /\ FeatureCounts(x) \in Seq(Nat) /\ Len(FeatureCounts(x)) = Len(x.nodes)
<1>1. PICK q : q = x.nodes
  OBVIOUS
<1>2. q \in Seq(Range(q)) /\ \A n \in Range(q) : IsNode(n)
  BY <1>1 DEF IsAnalysis
<1>3. Len(q) \in Nat /\ DOMAIN q = 1..Len(q) /\ \A i \in 1..Len(q) : q[i] \in Range(q)
  BY <1>2, SequenceFacts
<1>4. ASSUME NEW i \in 1..Len(q)
      PROVE  Len(q[i].children) \in Nat /\ Len(q[i].features) \in Nat
  <2>1. IsNode(q[i])
    BY <1>2, <1>3
  <2>2. PICK cs, fs : cs = q[i].children /\ fs = q[i].features
    OBVIOUS
  <2>3. cs \in Seq(Nat) /\ fs \in Seq(Range(fs))
    BY <2>1, <2>2 DEF IsNode
  <2>4. Len(cs) \in Nat
    BY <2>3
  <2>5. Len(fs) \in Nat
    BY <2>3, SequenceFacts
  <2> QED
    BY <2>2, <2>4, <2>5
<1>5. PICK c : c = [i \in 1..Len(q) |-> Len(q[i].children)]
  OBVIOUS
<1>6. PICK f : f = [i \in 1..Len(q) |-> Len(q[i].features)]
  OBVIOUS
<1>7. c \in Seq(Nat) /\ Len(c) = Len(q)
  BY <1>3, <1>4, <1>5
<1>8. f \in Seq(Nat) /\ Len(f) = Len(q)
  BY <1>3, <1>4, <1>6
<1>9. c = ChildCounts(x) /\ f = FeatureCounts(x)
  BY <1>1, <1>3, <1>5, <1>6 DEF ChildCounts, FeatureCounts
<1> QED
  BY <1>1, <1>3, <1>7, <1>8, <1>9

(* The places of a sequence without repetitions are as many as its         *)
(* elements.                                                               *)
LEMMA AsManyAsPlaces ==
  ASSUME NEW S, NEW q \in Seq(S), \A k, l \in DOMAIN q : q[k] = q[l] => k = l
  PROVE  IsFiniteSet(Range(q)) /\ Cardinality(Range(q)) = Len(q)
<1>1. PICK D, T : D = DOMAIN q /\ T = Range(q)
  OBVIOUS
<1>2. Len(q) \in Nat /\ D = 1..Len(q)
  BY <1>1, SequenceFacts
<1>3. IsFiniteSet(D) /\ Cardinality(D) = Len(q)
  <2>1. 1 \in Int /\ Len(q) \in Int /\ (Len(q) - 1) + 1 = Len(q) /\ (1 > Len(q) <=> Len(q) = 0)
    BY <1>2
  <2> QED
    BY <1>2, <2>1, FS_Interval
<1>4. q \in [D -> T] /\ \A t \in T : \E k \in D : q[k] = t
  <2>1. q = [k \in DOMAIN q |-> q[k]]
    OBVIOUS
  <2> QED
    BY <1>1, <2>1 DEF Range
<1>5. q \in Bijection(D, T)
  BY <1>1, <1>4 DEF Bijection, Injection, Surjection, IsInjective
<1>6. ExistsBijection(D, T)
  BY <1>5 DEF ExistsBijection
<1> QED
  BY <1>1, <1>3, <1>6, FS_Bijection

(* In a tree the nodes' children are as many as the nodes below the root,  *)
(* for every one of these has one place among the children of one node: by *)
(* induction over the nodes whose children are counted.                    *)
LEMMA ChildrenAreCounted ==
  ASSUME NEW x, Ordered(x), SingleParent(x), x.nodes # <<>>
  PROVE  Total(ChildCounts(x)) = Len(x.nodes) - 1
<1>1. PICK N, q : N = Len(x.nodes) /\ q = ChildCounts(x)
  OBVIOUS
<1>2. N \in Nat /\ q \in Seq(Nat) /\ Len(q) = N /\ Ids(x) = 0..(N - 1)
  BY <1>1, CountsAreNumbers DEF Ordered, Ids
<1>3. N # 0
  <2>1. Len(x.nodes) = 0 => x.nodes = <<>>
    BY DEF Ordered, IsAnalysis
  <2> QED
    BY <1>1, <2>1
<1>4. PICK g : Sums(q, g) /\ Total(q) = g[N]
  BY <1>2, TotalIsSum
<1>5. \A c \in Ids(x) \ {0} : OneHolder(x, c)
  BY SingleParentIsOneHolder
<1>6. \A c, i, k : ListsChild(x, c, i, k) => c \in Ids(x) \ {0} /\ i \in Ids(x)
  BY HeldIsANode DEF Ordered
<1> DEFINE K(n) == {c \in Ids(x) : \E i \in Ids(x) : i < n /\ \E k : ListsChild(x, c, i, k)}
<1>7. PICK P : P = {n \in Nat : n <= N => IsFiniteSet(K(n)) /\ Cardinality(K(n)) = g[n]}
  OBVIOUS
<1>8. 0 \in P
  <2>1. K(0) = {}
    BY <1>2
  <2> QED
    BY <1>4, <1>7, <2>1, FS_EmptySet DEF Sums
<1>9. ASSUME NEW n \in Nat, n \in P PROVE n + 1 \in P
  <2>1. ASSUME n + 1 <= N
        PROVE  IsFiniteSet(K(n + 1)) /\ Cardinality(K(n + 1)) = g[n + 1]
    <3>1. n \in Ids(x) /\ n + 1 \in 1..Len(q) /\ (n + 1) - 1 = n /\ n <= N /\ n \in 0..Len(q)
      BY <1>2, <2>1
    <3>2. PICK cs : cs = NodeAt(x, n).children
      OBVIOUS
    <3>3. cs \in Seq(Nat)
      BY <3>1, <3>2, NodesAreTyped DEF Ordered, IsNode
    <3>4. \A c : c \in Range(cs) <=> \E k : ListsChild(x, c, n, k)
      BY <3>1, <3>2 DEF ListsChild, Range
    <3>5. \A k, l \in DOMAIN cs : cs[k] = cs[l] => k = l
      <4>1. ASSUME NEW k \in DOMAIN cs, NEW l \in DOMAIN cs, cs[k] = cs[l] PROVE k = l
        <5>1. ListsChild(x, cs[k], n, k) /\ ListsChild(x, cs[k], n, l)
          BY <3>1, <3>2, <4>1 DEF ListsChild
        <5> QED
          BY <1>5, <1>6, <5>1 DEF OneHolder
      <4> QED
        BY <4>1
    <3>6. IsFiniteSet(Range(cs)) /\ Cardinality(Range(cs)) = Len(cs)
      BY <3>3, <3>5, AsManyAsPlaces
    <3>7. K(n + 1) = K(n) \cup Range(cs)
      <4>1. \A i \in Ids(x) : i < n + 1 <=> i < n \/ i = n
        BY <1>2
      <4> QED
        BY <1>6, <3>1, <3>4, <4>1
    <3>8. K(n) \cap Range(cs) = {}
      <4>1. ASSUME NEW c \in K(n), c \in Range(cs) PROVE FALSE
        <5>1. PICK i \in Ids(x) : i < n /\ \E k : ListsChild(x, c, i, k)
          BY <4>1
        <5>2. PICK l : ListsChild(x, c, n, l)
          BY <3>4, <4>1
        <5>3. i = n
          BY <1>5, <1>6, <5>1, <5>2 DEF OneHolder
        <5> QED
          BY <1>2, <5>1, <5>3
      <4> QED
        BY <4>1
    <3>9. IsFiniteSet(K(n)) /\ Cardinality(K(n)) = g[n]
      BY <1>7, <1>9, <3>1
    <3> HIDE DEF K
    <3>10. IsFiniteSet(K(n + 1))
      <4>1. PICK A, B : A = K(n) /\ B = Range(cs)
        OBVIOUS
      <4>2. IsFiniteSet(A \cup B)
        BY <3>6, <3>9, <4>1, FS_Union
      <4> QED
        BY <3>7, <4>1, <4>2
    <3>11. Cardinality(K(n + 1)) = Cardinality(K(n)) + Cardinality(Range(cs)) - Cardinality({})
      <4>1. PICK A, B : A = K(n) /\ B = Range(cs)
        OBVIOUS
      <4>2. Cardinality(A \cup B) = Cardinality(A) + Cardinality(B) - Cardinality(A \cap B)
        BY <3>6, <3>9, <4>1, FS_Union
      <4> QED
        BY <3>7, <3>8, <4>1, <4>2
    <3>12. Cardinality({}) = 0 /\ g[n] \in Nat /\ Len(cs) \in Nat
      BY <1>4, <3>1, <3>3, FS_EmptySet DEF Sums
    <3>13. g[n + 1] = g[n] + Len(cs)
      <4>1. g[n + 1] = g[n] + q[n + 1]
        BY <1>4, <3>1 DEF Sums
      <4>2. n + 1 \in DOMAIN x.nodes
        BY <1>1, <1>2, <3>1, CountsAreNumbers DEF Ordered
      <4>3. q[n + 1] = Len(cs)
        BY <1>1, <3>2, <4>2 DEF ChildCounts, NodeAt
      <4> QED
        BY <4>1, <4>3
    <3>14. PICK a, b, c, d : /\ a = Cardinality(K(n + 1)) /\ b = g[n] /\ c = Len(cs)
                             /\ d = Cardinality({})
      OBVIOUS
    <3>15. a = b + c - d /\ d = 0 /\ b \in Nat /\ c \in Nat /\ g[n + 1] = b + c
      BY <3>6, <3>9, <3>11, <3>12, <3>13, <3>14
    <3>16. a = g[n + 1]
      BY <3>15
    <3> QED
      BY <3>10, <3>14, <3>16
  <2> QED
    BY <1>7, <2>1
<1>10. \A n \in Nat : n \in P
  BY <1>8, <1>9, SetInduction
<1>11. K(N) = 1..(N - 1)
  <2>1. \A c \in Ids(x) \ {0} : \E i, k : ListsChild(x, c, i, k)
    BY <1>5 DEF OneHolder
  <2>2. \A i \in Ids(x) : i < N
    BY <1>2
  <2>3. \A c : c \in 1..(N - 1) <=> c \in Ids(x) \ {0}
    BY <1>2
  <2>4. \A c : c \in K(N) <=> c \in Ids(x) \ {0}
    BY <1>6, <2>1, <2>2
  <2> QED
    BY <2>3, <2>4
<1>12. Cardinality(K(N)) = g[N]
  <2>1. N \in P /\ N <= N
    BY <1>2, <1>10
  <2> QED
    BY <1>7, <2>1
<1>13. Cardinality(1..(N - 1)) = N - 1
  <2>1. 1 \in Int /\ N - 1 \in Int /\ ((N - 1) - 1) + 1 = N - 1 /\ (1 > N - 1 => N - 1 = 0)
    BY <1>2, <1>3
  <2> QED
    BY <2>1, FS_Interval
<1> HIDE DEF K
<1> QED
  BY <1>1, <1>4, <1>11, <1>12, <1>13

-----------------------------------------------------------------------------
(* What an event adds to an analysis *)

(* Nodes, children, features and regions: one for each valid event         *)
Size(x) ==
  Len(x.nodes) + Total(ChildCounts(x)) + Total(FeatureCounts(x)) + Len(x.regions)

(* An analysis of given nodes and regions                                  *)
Of(ns, rs) == [nodes |-> ns, regions |-> rs]

(* The regions of a typed analysis have a number.                          *)
LEMMA RegionsAreTyped ==
  ASSUME NEW x, IsAnalysis(x)
  PROVE  Len(x.regions) \in Nat
BY SequenceFacts DEF IsAnalysis

(* add_node                                                                *)
LEMMA NodeIsAdded ==
  ASSUME NEW x, IsAnalysis(x), NEW n, IsNode(n), n.children = <<>>, n.features = <<>>
  PROVE  LET y == [x EXCEPT !.nodes = Append(@, n)]
         IN  IsAnalysis(y) /\ Size(x) \in Nat /\ Size(y) = Size(x) + 1
<1>1. PICK q, L, y : q = x.nodes /\ L = Len(q) /\ y = Of(Append(q, n), x.regions)
  OBVIOUS
<1>2. y = [x EXCEPT !.nodes = Append(@, n)]
  <2>1. PICK s : s = x.regions
    OBVIOUS
  <2>2. x = [nodes |-> q, regions |-> s]
    BY <1>1, <2>1 DEF IsAnalysis
  <2>3. y = [nodes |-> Append(q, n), regions |-> s]
    BY <1>1, <2>1 DEF Of
  <2> QED
    BY <2>2, <2>3
<1>3. L \in Nat /\ DOMAIN q = 1..L
  BY <1>1, CountsAreNumbers
<1>4. PICK r : r = Append(q, n)
  OBVIOUS
<1>5. /\ Len(r) = L + 1 /\ DOMAIN r = 1..(L + 1) /\ r[L + 1] = n
      /\ \A i \in 1..L : r[i] = q[i]
      /\ r = [i \in 1..(L + 1) |-> r[i]]
  <2>1. q \in Seq(Range(q) \cup {n})
    <3>1. q \in Seq(Range(q))
      BY <1>1 DEF IsAnalysis
    <3> QED
      BY <3>1
  <2> QED
    BY <1>1, <1>4, <2>1
<1>6. \A i \in 1..(L + 1) : IsNode(r[i])
  <2>1. \A i \in 1..L : IsNode(q[i])
    BY <1>1, <1>3 DEF IsAnalysis, Range
  <2>2. \A i \in 1..(L + 1) : i \in 1..L \/ i = L + 1
    BY <1>3
  <2> QED
    BY <1>5, <2>1, <2>2
<1>7. r \in Seq(Range(r)) /\ \A m \in Range(r) : IsNode(m)
  <2>1. r \in Seq(Range(r))
    BY <1>3, <1>5, IsASequence
  <2> QED
    BY <1>5, <1>6, <2>1 DEF Range
<1>8. IsAnalysis(y)
  BY <1>1, <1>4, <1>7 DEF IsAnalysis, Of
<1>9. /\ ChildCounts(x) \in Seq(Nat) /\ Len(ChildCounts(x)) = L
      /\ FeatureCounts(x) \in Seq(Nat) /\ Len(FeatureCounts(x)) = L
  BY <1>1, CountsAreNumbers
<1>10. /\ ChildCounts(y) \in Seq(Nat) /\ Len(ChildCounts(y)) = L + 1
       /\ FeatureCounts(y) \in Seq(Nat) /\ Len(FeatureCounts(y)) = L + 1
  BY <1>1, <1>4, <1>5, <1>8, CountsAreNumbers DEF Of
<1>11. y.nodes = r /\ y.regions = x.regions
  BY <1>1, <1>4 DEF Of
<1>12. /\ \A i \in 1..L : ChildCounts(y)[i] = ChildCounts(x)[i]
       /\ \A i \in 1..L : FeatureCounts(y)[i] = FeatureCounts(x)[i]
       /\ ChildCounts(y)[L + 1] = 0 /\ FeatureCounts(y)[L + 1] = 0
  <2>1. \A i \in 1..L : i \in DOMAIN q /\ i \in DOMAIN r
    BY <1>3, <1>5
  <2>2. L + 1 \in DOMAIN r
    BY <1>3, <1>5
  <2>3. Len(n.children) = 0 /\ Len(n.features) = 0
    OBVIOUS
  <2> QED
    BY <1>1, <1>5, <1>11, <2>1, <2>2, <2>3 DEF ChildCounts, FeatureCounts
<1>13. Total(ChildCounts(x)) \in Nat /\ Total(ChildCounts(y)) = Total(ChildCounts(x))
  BY <1>9, <1>10, <1>12, TotalOfAppended
<1>14. Total(FeatureCounts(x)) \in Nat /\ Total(FeatureCounts(y)) = Total(FeatureCounts(x))
  BY <1>9, <1>10, <1>12, TotalOfAppended
<1>15. Size(x) \in Nat /\ Size(y) = Size(x) + 1
  <2>1. PICK a, b, c, d : /\ a = L /\ b = Total(ChildCounts(x))
                          /\ c = Total(FeatureCounts(x)) /\ d = Len(x.regions)
    OBVIOUS
  <2>2. a \in Nat /\ b \in Nat /\ c \in Nat /\ d \in Nat
    BY <1>3, <1>13, <1>14, <2>1, RegionsAreTyped
  <2>3. Size(x) = a + b + c + d /\ Size(y) = (a + 1) + b + c + d
    BY <1>1, <1>5, <1>11, <1>13, <1>14, <2>1 DEF Size
  <2> QED
    BY <2>2, <2>3
<1> QED
  BY <1>2, <1>8, <1>15

(* add_language_region                                                     *)
LEMMA RegionIsAdded ==
  ASSUME NEW x, IsAnalysis(x), NEW n, IsRegion(n)
  PROVE  LET y == [x EXCEPT !.regions = Append(@, n)]
         IN  IsAnalysis(y) /\ Size(x) \in Nat /\ Size(y) = Size(x) + 1
<1>1. PICK q, L, y : q = x.regions /\ L = Len(q) /\ y = Of(x.nodes, Append(q, n))
  OBVIOUS
<1>2. y = [x EXCEPT !.regions = Append(@, n)]
  <2>1. PICK s : s = x.nodes
    OBVIOUS
  <2>2. x = [nodes |-> s, regions |-> q]
    BY <1>1, <2>1 DEF IsAnalysis
  <2>3. y = [nodes |-> s, regions |-> Append(q, n)]
    BY <1>1, <2>1 DEF Of
  <2>4. PICK w : w = Append(q, n)
    OBVIOUS
  <2>5. [x EXCEPT !.regions = w] = [nodes |-> s, regions |-> w]
    BY <2>2
  <2>6. x.regions = q
    BY <1>1
  <2> QED
    BY <2>3, <2>4, <2>5, <2>6
<1>3. L \in Nat /\ DOMAIN q = 1..L
  BY <1>1, SequenceFacts DEF IsAnalysis
<1>4. PICK r : r = Append(q, n)
  OBVIOUS
<1>5. /\ Len(r) = L + 1 /\ DOMAIN r = 1..(L + 1) /\ r[L + 1] = n
      /\ \A i \in 1..L : r[i] = q[i]
      /\ r = [i \in 1..(L + 1) |-> r[i]]
  <2>1. q \in Seq(Range(q) \cup {n})
    <3>1. q \in Seq(Range(q))
      BY <1>1 DEF IsAnalysis
    <3> QED
      BY <3>1
  <2> QED
    BY <1>1, <1>4, <2>1
<1>6. \A i \in 1..(L + 1) : IsRegion(r[i])
  <2>1. \A i \in 1..L : IsRegion(q[i])
    BY <1>1, <1>3 DEF IsAnalysis, Range
  <2>2. \A i \in 1..(L + 1) : i \in 1..L \/ i = L + 1
    BY <1>3
  <2> QED
    BY <1>5, <2>1, <2>2
<1>7. r \in Seq(Range(r)) /\ \A m \in Range(r) : IsRegion(m)
  <2>1. r \in Seq(Range(r))
    BY <1>3, <1>5, IsASequence
  <2> QED
    BY <1>5, <1>6, <2>1 DEF Range
<1>8. IsAnalysis(y)
  BY <1>1, <1>4, <1>7 DEF IsAnalysis, Of
<1>9. y.nodes = x.nodes /\ y.regions = r
  BY <1>1, <1>4 DEF Of
<1>10. ChildCounts(y) = ChildCounts(x) /\ FeatureCounts(y) = FeatureCounts(x)
  BY <1>9 DEF ChildCounts, FeatureCounts
<1>11. ChildCounts(x) \in Seq(Nat) /\ FeatureCounts(x) \in Seq(Nat) /\ Len(x.nodes) \in Nat
  BY CountsAreNumbers
<1>12. Total(ChildCounts(x)) \in Nat /\ Total(FeatureCounts(x)) \in Nat
  BY <1>11, TotalsAreNumbers
<1>13. Size(x) \in Nat /\ Size(y) = Size(x) + 1
  <2>1. PICK a, b, c, d : /\ a = Len(x.nodes) /\ b = Total(ChildCounts(x))
                          /\ c = Total(FeatureCounts(x)) /\ d = L
    OBVIOUS
  <2>2. a \in Nat /\ b \in Nat /\ c \in Nat /\ d \in Nat
    BY <1>3, <1>11, <1>12, <2>1
  <2>3. Size(x) = a + b + c + d /\ Size(y) = a + b + c + (d + 1)
    BY <1>1, <1>5, <1>9, <1>10, <2>1 DEF Size
  <2> QED
    BY <2>2, <2>3
<1> QED
  BY <1>2, <1>8, <1>13

(* Another node in the place of one                                        *)
LEMMA NodeIsReplaced ==
  ASSUME NEW x, IsAnalysis(x), NEW p \in Ids(x), NEW m, IsNode(m), NEW y,
         y = Of([x.nodes EXCEPT ![p + 1] = m], x.regions)
  PROVE  /\ IsAnalysis(y) /\ y.regions = x.regions /\ Len(y.nodes) = Len(x.nodes)
         /\ p + 1 \in 1..Len(x.nodes)
         /\ DOMAIN x.nodes = 1..Len(x.nodes) /\ DOMAIN y.nodes = 1..Len(x.nodes)
         /\ \A i \in 1..Len(x.nodes) : y.nodes[i] = IF i = p + 1 THEN m ELSE x.nodes[i]
<1>1. PICK q, L, r : q = x.nodes /\ L = Len(q) /\ r = [q EXCEPT ![p + 1] = m]
  OBVIOUS
<1>2. L \in Nat /\ DOMAIN q = 1..L
  BY <1>1, CountsAreNumbers
<1>3. p + 1 \in 1..L
  BY <1>1, <1>2 DEF Ids
<1>4. /\ r = [i \in 1..L |-> r[i]]
      /\ \A i \in 1..L : r[i] = IF i = p + 1 THEN m ELSE q[i]
  BY <1>1, <1>2, <1>3
<1>5. Len(r) = L /\ DOMAIN r = 1..L /\ r \in Seq(Range(r))
  BY <1>2, <1>4, IsASequence
<1>6. \A i \in 1..L : IsNode(r[i])
  <2>1. \A i \in 1..L : IsNode(q[i])
    BY <1>1, <1>2 DEF IsAnalysis, Range
  <2> QED
    BY <1>4, <2>1
<1>7. \A e \in Range(r) : IsNode(e)
  BY <1>5, <1>6 DEF Range
<1>8. y.nodes = r /\ y.regions = x.regions /\ y = [nodes |-> y.nodes, regions |-> y.regions]
  BY <1>1 DEF Of
<1>9. IsAnalysis(y)
  BY <1>5, <1>7, <1>8 DEF IsAnalysis
<1> QED
  BY <1>1, <1>2, <1>3, <1>4, <1>5, <1>8, <1>9

(* add_child                                                               *)
LEMMA ChildIsAdded ==
  ASSUME NEW x, IsAnalysis(x), NEW p \in Ids(x), NEW c \in Nat
  PROVE  LET y == [x EXCEPT !.nodes[p + 1].children = Append(@, c)]
         IN  IsAnalysis(y) /\ Size(x) \in Nat /\ Size(y) = Size(x) + 1
<1>1. PICK n, m : n = x.nodes[p + 1] /\ m = [n EXCEPT !.children = Append(@, c)]
  OBVIOUS
<1>2. IsNode(n)
  BY <1>1, NodesAreTyped DEF NodeAt
<1>3. PICK cs : cs = n.children
  OBVIOUS
<1>4. cs \in Seq(Nat) /\ Len(cs) \in Nat
  BY <1>2, <1>3 DEF IsNode
<1>5. Append(cs, c) \in Seq(Nat) /\ Len(Append(cs, c)) = Len(cs) + 1
  BY <1>4
<1>6. /\ DOMAIN m = {"id", "kind", "span", "children", "features"}
      /\ m.children = Append(cs, c) /\ m.span = n.span /\ m.features = n.features
  BY <1>1, <1>2, <1>3 DEF IsNode
<1>7. IsNode(m)
  <2>1. Fielded(n)
    BY <1>2 DEF IsNode, Fielded
  <2>2. Fielded(m)
    BY <1>1, <2>1, FieldsAreSet
  <2> QED
    BY <1>2, <1>5, <1>6, <2>2 DEF IsNode, Fielded
<1>8. PICK y : y = Of([x.nodes EXCEPT ![p + 1] = m], x.regions)
  OBVIOUS
<1>9. y = [x EXCEPT !.nodes[p + 1].children = Append(@, c)]
  <2>1. PICK ns, rs : ns = x.nodes /\ rs = x.regions
    OBVIOUS
  <2>2. x = [nodes |-> ns, regions |-> rs]
    BY <2>1 DEF IsAnalysis
  <2>3. y = [nodes |-> [ns EXCEPT ![p + 1] = m], regions |-> rs]
    BY <1>8, <2>1 DEF Of
  <2>4. m = [ns[p + 1] EXCEPT !.children = Append(@, c)]
    BY <1>1, <2>1
  <2> QED
    BY <2>2, <2>3, <2>4
<1>10. PICK L : L = Len(x.nodes)
  OBVIOUS
<1>11. /\ IsAnalysis(y) /\ y.regions = x.regions /\ Len(y.nodes) = L
       /\ p + 1 \in 1..L /\ DOMAIN x.nodes = 1..L /\ DOMAIN y.nodes = 1..L
       /\ \A i \in 1..L : y.nodes[i] = IF i = p + 1 THEN m ELSE x.nodes[i]
  BY <1>7, <1>8, <1>10, NodeIsReplaced
<1>12. PICK q, r : q = ChildCounts(x) /\ r = ChildCounts(y)
  OBVIOUS
<1>13. q \in Seq(Nat) /\ r \in Seq(Nat) /\ Len(q) = L /\ Len(r) = L /\ L \in Nat
  BY <1>10, <1>11, <1>12, CountsAreNumbers
<1>14. \A i \in 1..L : r[i] = q[i] + (IF i = p + 1 THEN 1 ELSE 0)
  <2>1. ASSUME NEW i \in 1..L PROVE r[i] = q[i] + (IF i = p + 1 THEN 1 ELSE 0)
    <3>1. q[i] = Len(x.nodes[i].children) /\ r[i] = Len(y.nodes[i].children) /\ q[i] \in Nat
      BY <1>11, <1>12, <1>13, <2>1 DEF ChildCounts
    <3>2. CASE i = p + 1
      <4>1. q[i] = Len(cs) /\ r[i] = Len(cs) + 1
        BY <1>1, <1>3, <1>5, <1>6, <1>11, <3>1, <3>2
      <4> QED
        BY <3>2, <4>1
    <3>3. CASE i # p + 1
      <4>1. r[i] = q[i]
        BY <1>11, <3>1, <3>3
      <4> QED
        BY <3>1, <3>3, <4>1
    <3> QED
      BY <3>2, <3>3
  <2> QED
    BY <2>1
<1>15. Total(q) \in Nat /\ Total(r) = Total(q) + 1
  <2>1. MoreAt(q, r, p + 1, 1)
    BY <1>13, <1>14 DEF MoreAt
  <2> QED
    BY <1>11, <1>13, <2>1, TotalOfIncreased
<1>16. FeatureCounts(y) = FeatureCounts(x)
  <2>1. \A i \in 1..L : Len(y.nodes[i].features) = Len(x.nodes[i].features)
    BY <1>1, <1>6, <1>11
  <2> QED
    BY <1>11, <2>1 DEF FeatureCounts
<1>17. Total(FeatureCounts(x)) \in Nat
  BY CountsAreNumbers, TotalsAreNumbers
<1>18. Size(x) \in Nat /\ Size(y) = Size(x) + 1
  <2>1. PICK a, b, c0, d : /\ a = L /\ b = Total(q)
                           /\ c0 = Total(FeatureCounts(x)) /\ d = Len(x.regions)
    OBVIOUS
  <2>2. a \in Nat /\ b \in Nat /\ c0 \in Nat /\ d \in Nat
    BY <1>13, <1>15, <1>17, <2>1, RegionsAreTyped
  <2>3. Size(x) = a + b + c0 + d /\ Size(y) = a + (b + 1) + c0 + d
    BY <1>10, <1>11, <1>12, <1>15, <1>16, <2>1 DEF Size
  <2> QED
    BY <2>2, <2>3
<1> QED
  BY <1>9, <1>11, <1>18

(* add_feature                                                             *)
LEMMA FeatureIsAdded ==
  ASSUME NEW x, IsAnalysis(x), NEW p \in Ids(x), NEW f, f.value \in Int
  PROVE  LET y == [x EXCEPT !.nodes[p + 1].features = Append(@, f)]
         IN  IsAnalysis(y) /\ Size(x) \in Nat /\ Size(y) = Size(x) + 1
<1>1. PICK n, m : n = x.nodes[p + 1] /\ m = [n EXCEPT !.features = Append(@, f)]
  OBVIOUS
<1>2. IsNode(n)
  BY <1>1, NodesAreTyped DEF NodeAt
<1>3. PICK fs, gs : fs = n.features /\ gs = Append(fs, f)
  OBVIOUS
<1>4. fs \in Seq(Range(fs)) /\ Len(fs) \in Nat /\ \A e \in Range(fs) : e.value \in Int
  <2>1. fs \in Seq(Range(fs)) /\ \A e \in Range(fs) : e.value \in Int
    BY <1>2, <1>3 DEF IsNode
  <2> QED
    BY <2>1, SequenceFacts
<1>5. gs \in Seq(Range(gs)) /\ Len(gs) = Len(fs) + 1 /\ \A e \in Range(gs) : e.value \in Int
  <2>1. PICK S : S = Range(fs) \cup {f}
    OBVIOUS
  <2>2. fs \in Seq(S) /\ f \in S
    BY <1>4, <2>1
  <2>3. gs \in Seq(S) /\ Len(gs) = Len(fs) + 1
    BY <1>3, <2>2
  <2>4. gs \in Seq(Range(gs))
    BY <2>3, SequenceFacts
  <2>5. \A e \in Range(gs) : e \in S
    BY <2>3 DEF Range
  <2>6. \A e \in S : e.value \in Int
    BY <1>4, <2>1
  <2> QED
    BY <2>3, <2>4, <2>5, <2>6
<1>6. /\ DOMAIN m = {"id", "kind", "span", "children", "features"}
      /\ m.children = n.children /\ m.span = n.span /\ m.features = gs
  BY <1>1, <1>2, <1>3 DEF IsNode
<1>7. IsNode(m)
  <2>1. Fielded(n)
    BY <1>2 DEF IsNode, Fielded
  <2>2. Fielded(m)
    BY <1>1, <2>1, FieldsAreSet
  <2> QED
    BY <1>2, <1>5, <1>6, <2>2 DEF IsNode, Fielded
<1>8. PICK y : y = Of([x.nodes EXCEPT ![p + 1] = m], x.regions)
  OBVIOUS
<1>9. y = [x EXCEPT !.nodes[p + 1].features = Append(@, f)]
  <2>1. PICK ns, rs : ns = x.nodes /\ rs = x.regions
    OBVIOUS
  <2>2. x = [nodes |-> ns, regions |-> rs]
    BY <2>1 DEF IsAnalysis
  <2>3. y = [nodes |-> [ns EXCEPT ![p + 1] = m], regions |-> rs]
    BY <1>8, <2>1 DEF Of
  <2>4. m = [ns[p + 1] EXCEPT !.features = Append(@, f)]
    BY <1>1, <2>1
  <2> QED
    BY <2>2, <2>3, <2>4
<1>10. PICK L : L = Len(x.nodes)
  OBVIOUS
<1>11. /\ IsAnalysis(y) /\ y.regions = x.regions /\ Len(y.nodes) = L
       /\ p + 1 \in 1..L /\ DOMAIN x.nodes = 1..L /\ DOMAIN y.nodes = 1..L
       /\ \A i \in 1..L : y.nodes[i] = IF i = p + 1 THEN m ELSE x.nodes[i]
  BY <1>7, <1>8, <1>10, NodeIsReplaced
<1>12. PICK q, r : q = FeatureCounts(x) /\ r = FeatureCounts(y)
  OBVIOUS
<1>13. q \in Seq(Nat) /\ r \in Seq(Nat) /\ Len(q) = L /\ Len(r) = L /\ L \in Nat
  BY <1>10, <1>11, <1>12, CountsAreNumbers
<1>14. \A i \in 1..L : r[i] = q[i] + (IF i = p + 1 THEN 1 ELSE 0)
  <2>1. ASSUME NEW i \in 1..L PROVE r[i] = q[i] + (IF i = p + 1 THEN 1 ELSE 0)
    <3>1. q[i] = Len(x.nodes[i].features) /\ r[i] = Len(y.nodes[i].features) /\ q[i] \in Nat
      BY <1>11, <1>12, <1>13, <2>1 DEF FeatureCounts
    <3>2. CASE i = p + 1
      <4>1. q[i] = Len(fs) /\ r[i] = Len(fs) + 1
        BY <1>1, <1>3, <1>5, <1>6, <1>11, <3>1, <3>2
      <4> QED
        BY <3>2, <4>1
    <3>3. CASE i # p + 1
      <4>1. r[i] = q[i]
        BY <1>11, <3>1, <3>3
      <4> QED
        BY <3>1, <3>3, <4>1
    <3> QED
      BY <3>2, <3>3
  <2> QED
    BY <2>1
<1>15. Total(q) \in Nat /\ Total(r) = Total(q) + 1
  <2>1. MoreAt(q, r, p + 1, 1)
    BY <1>13, <1>14 DEF MoreAt
  <2> QED
    BY <1>11, <1>13, <2>1, TotalOfIncreased
<1>16. ChildCounts(y) = ChildCounts(x)
  <2>1. \A i \in 1..L : Len(y.nodes[i].children) = Len(x.nodes[i].children)
    BY <1>1, <1>6, <1>11
  <2> QED
    BY <1>11, <2>1 DEF ChildCounts
<1>17. Total(ChildCounts(x)) \in Nat
  BY CountsAreNumbers, TotalsAreNumbers
<1>18. Size(x) \in Nat /\ Size(y) = Size(x) + 1
  <2>1. PICK a, b, c0, d : /\ a = L /\ b = Total(ChildCounts(x))
                           /\ c0 = Total(q) /\ d = Len(x.regions)
    OBVIOUS
  <2>2. a \in Nat /\ b \in Nat /\ c0 \in Nat /\ d \in Nat
    BY <1>13, <1>15, <1>17, <2>1, RegionsAreTyped
  <2>3. Size(x) = a + b + c0 + d /\ Size(y) = a + b + (c0 + 1) + d
    BY <1>10, <1>11, <1>12, <1>15, <1>16, <2>1 DEF Size
  <2> QED
    BY <2>2, <2>3
<1> QED
  BY <1>9, <1>11, <1>18

-----------------------------------------------------------------------------
(* The callback *)

(* The builder holds one entry for each event as long as it has not        *)
(* failed, and only what it then holds and the validator accepts is        *)
(* served.                                                                 *)
SinkInv ==
  /\ IsAnalysis(analysis)
  /\ sink = "OK" => issued = Size(analysis)
  /\ outcome = "OK" => sink = "OK" /\ ValidAnalysis(Text, analysis)

LEMMA SinkInvHoldsInitially ==
  Init => SinkInv
<1> SUFFICES ASSUME Init PROVE SinkInv
  OBVIOUS
<1>1. analysis = [nodes |-> <<>>, regions |-> <<>>]
  BY DEF Init, EmptyAnalysis
<1>2. analysis.nodes = <<>> /\ analysis.regions = <<>>
  BY <1>1
<1>3. <<>> \in Seq(Range(<<>>)) /\ Range(<<>>) = {} /\ Len(<<>>) = 0
  BY DEF Range
<1>4. IsAnalysis(analysis)
  BY <1>1, <1>2, <1>3 DEF IsAnalysis
<1>5. Total(ChildCounts(analysis)) = 0 /\ Total(FeatureCounts(analysis)) = 0
  <2>1. ASSUME NEW q \in Seq(Nat), Len(q) = 0 PROVE Total(q) = 0
    <3>1. PICK g : Sums(q, g) /\ Total(q) = g[Len(q)]
      BY TotalIsSum
    <3> QED
      BY <2>1, <3>1 DEF Sums
  <2> QED
    BY <1>2, <1>3, <1>4, <2>1, CountsAreNumbers
<1>6. Size(analysis) = 0
  BY <1>2, <1>3, <1>5 DEF Size
<1> QED
  BY <1>4, <1>6 DEF Init, SinkInv

(* An event of which a valid one adds one entry                            *)
LEMMA EventKeepsSinkInv ==
  ASSUME SinkInv, NEW valid, NEW a, BuildEvent(valid, a),
         valid => IsAnalysis(a) /\ Size(a) = Size(analysis) + 1
  PROVE  SinkInv'
<1>1. outcome' = "RUNNING" /\ outcome' # "OK" /\ issued' = issued + 1
  BY DEF BuildEvent
<1>2. CASE sink # "OK" /\ UNCHANGED <<analysis, sink>>
  BY <1>1, <1>2 DEF SinkInv
<1>3. CASE sink = "OK" /\ valid /\ analysis' = a /\ UNCHANGED sink
  <2>1. issued = Size(analysis) /\ IsAnalysis(a) /\ Size(a) = Size(analysis) + 1
    BY <1>3 DEF SinkInv
  <2>2. IsAnalysis(analysis') /\ issued' = Size(analysis')
    BY <1>1, <1>3, <2>1
  <2>3. IsAnalysis(analysis)' /\ (issued = Size(analysis))'
    BY <2>2
  <2> QED
    BY <1>1, <2>3 DEF SinkInv
<1>4. CASE /\ sink' = IF valid THEN "OUT_OF_MEMORY" ELSE "PLUGIN_FAILURE"
           /\ UNCHANGED analysis
  <2>1. sink' # "OK"
    BY <1>4
  <2> QED
    BY <1>1, <1>4, <2>1 DEF SinkInv
<1> QED
  BY <1>2, <1>3, <1>4 DEF BuildEvent

LEMMA SinkInvIsInductive ==
  SinkInv /\ [Next]_vars => SinkInv'
<1> SUFFICES ASSUME SinkInv, [Next]_vars PROVE SinkInv'
  OBVIOUS
<1> USE SinkAssumption
<1>1. IsAnalysis(analysis)
  BY DEF SinkInv
<1>2. ASSUME NEW e \in NodeEvents, AddNode(e) PROVE SinkInv'
  <2>1. PICK n : n = Node(e.id, e.kind, e.span)
    OBVIOUS
  <2>2. PICK valid : valid <=> /\ e.id = Len(analysis.nodes)
                               /\ e.span.begin <= e.span.end
                               /\ e.kind \in Kinds
    OBVIOUS
  <2>3. valid => IsNode(n) /\ n.children = <<>> /\ n.features = <<>>
    <3>1. e.span \in [begin : Nat, end : Nat]
      BY <1>2
    <3>2. /\ DOMAIN n = {"id", "kind", "span", "children", "features"}
          /\ n.span = e.span /\ n.children = <<>> /\ n.features = <<>>
      BY <2>1 DEF Node
    <3>3. <<>> \in Seq(Nat) /\ <<>> \in Seq(Range(<<>>)) /\ Range(<<>>) = {}
      BY DEF Range
    <3>4. valid => IsSpan(n.span)
      BY <2>2, <3>1, <3>2 DEF IsSpan
    <3>5. Fielded(n)
      BY <2>1, FieldsOfNode DEF Node
    <3> QED
      BY <3>2, <3>3, <3>4, <3>5 DEF IsNode, Fielded
  <2>4. PICK a : a = [analysis EXCEPT !.nodes = Append(@, n)]
    OBVIOUS
  <2>5. valid => IsAnalysis(a) /\ Size(a) = Size(analysis) + 1
    BY <1>1, <2>3, <2>4, NodeIsAdded
  <2>6. BuildEvent(valid, a)
    BY <1>2, <2>1, <2>2, <2>4 DEF AddNode, BuildEvent
  <2> QED
    BY <2>5, <2>6, EventKeepsSinkInv
<1>3. ASSUME NEW p \in EventIds, NEW c \in EventIds, AddChild(p, c) PROVE SinkInv'
  <2>1. PICK valid : valid <=> Known(p) /\ Known(c)
    OBVIOUS
  <2>2. PICK a : a = [analysis EXCEPT !.nodes[p + 1].children = Append(@, c)]
    OBVIOUS
  <2>3. valid => p \in Ids(analysis) /\ c \in Nat
    BY <1>1, <2>1, NodesAreTyped DEF Known
  <2>4. valid => IsAnalysis(a) /\ Size(a) = Size(analysis) + 1
    BY <1>1, <2>2, <2>3, ChildIsAdded
  <2>5. BuildEvent(valid, a)
    BY <1>3, <2>1, <2>2 DEF AddChild, BuildEvent
  <2> QED
    BY <2>4, <2>5, EventKeepsSinkInv
<1>4. ASSUME NEW n \in EventIds, NEW f \in Features, AddFeature(n, f) PROVE SinkInv'
  <2>1. PICK valid : valid <=> Known(n) /\ f.value # NotFinite
    OBVIOUS
  <2>2. PICK a : a = [analysis EXCEPT !.nodes[n + 1].features = Append(@, f)]
    OBVIOUS
  <2>3. valid => n \in Ids(analysis) /\ f.value \in Int
    BY <1>4, <2>1 DEF Known
  <2>4. valid => IsAnalysis(a) /\ Size(a) = Size(analysis) + 1
    BY <1>1, <2>2, <2>3, FeatureIsAdded
  <2>5. BuildEvent(valid, a)
    BY <1>4, <2>1, <2>2 DEF AddFeature, BuildEvent
  <2> QED
    BY <2>4, <2>5, EventKeepsSinkInv
<1>5. ASSUME NEW r \in RegionEvents, AddLanguageRegion(r) PROVE SinkInv'
  <2>1. PICK valid : valid <=> /\ r.language # "" /\ r.confidence # NotFinite
                               /\ r.span.begin <= r.span.end
    OBVIOUS
  <2>2. PICK a : a = [analysis EXCEPT !.regions = Append(@, r)]
    OBVIOUS
  <2>3. valid => IsRegion(r)
    BY <1>5, <2>1 DEF IsRegion, IsSpan
  <2>4. valid => IsAnalysis(a) /\ Size(a) = Size(analysis) + 1
    BY <1>1, <2>2, <2>3, RegionIsAdded
  <2>5. BuildEvent(valid, a)
    BY <1>5, <2>1, <2>2 DEF AddLanguageRegion, BuildEvent
  <2> QED
    BY <2>4, <2>5, EventKeepsSinkInv
<1>6. CASE CallbackThrows
  BY <1>6 DEF CallbackThrows, Failures, SinkInv
<1>7. ASSUME NEW s \in Returned, CallbackReturns(s) PROVE SinkInv'
  <2>1. UNCHANGED <<analysis, sink, issued>>
    BY <1>7 DEF CallbackReturns
  <2>2. outcome' = "OK" => sink = "OK" /\ ValidAnalysis(Text, analysis)
    BY <1>7 DEF CallbackReturns
  <2>3. ValidAnalysis(Text, analysis) => ValidAnalysis(Text, analysis)'
    BY <2>1
  <2> QED
    BY <2>1, <2>2, <2>3 DEF SinkInv
<1>8. CASE UNCHANGED vars
  BY <1>8 DEF vars, SinkInv
<1> QED
  BY <1>2, <1>3, <1>4, <1>5, <1>6, <1>7, <1>8 DEF Next

LEMMA SinkInvHolds ==
  Spec => []SinkInv
BY SinkInvHoldsInitially, SinkInvIsInductive, PTL DEF Spec

(* What is served satisfies the lemmas' assumptions.                       *)
LEMMA ServedIsValid ==
  ASSUME SinkInv, outcome = "OK"
  PROVE  /\ Ordered(analysis) /\ Connected(analysis) /\ SingleParent(analysis)
         /\ analysis.nodes # <<>> /\ sink = "OK"
BY DEF SinkInv, ValidAnalysis, ValidRoot, Ordered

LEMMA AboveIsAboveIn ==
  \A m : Above(m) = AboveIn(analysis, m)
BY DEF Above, AboveIn, ClosedUp, ClosedIn

(* Whatever events a provider sends, in whatever order, and whatever it    *)
(* returns, an analysis the registry serves is a tree: the validator's     *)
(* counts and its traversal say no less.                                   *)
THEOREM ServedAnalysesAreTrees ==
  Spec => []ServedIsTree
<1>1. ASSUME SinkInv PROVE ServedIsTree
  <2> SUFFICES ASSUME outcome = "OK"
               PROVE  /\ \A n \in Ids(analysis) : 0 \in Above(n)
                      /\ ChildEntries = Len(analysis.nodes) - 1
    BY DEF ServedIsTree
  <2>1. \A n \in Ids(analysis) : 0 \in AboveIn(analysis, n)
    BY <1>1, ServedIsValid, ReachedIsTree
  <2>2. Total(ChildCounts(analysis)) = Len(analysis.nodes) - 1
    BY <1>1, ServedIsValid, ChildrenAreCounted
  <2> QED
    BY <2>1, <2>2, AboveIsAboveIn DEF ChildEntries, ChildCounts
<1> QED
  BY <1>1, SinkInvHolds, PTL

(* And any two of its nodes, however far apart, are nested or disjoint:    *)
(* it is enough to compare parents with children and siblings with         *)
(* siblings.                                                               *)
THEOREM ServedAnalysesAreLaminar ==
  Spec => []ServedIsLaminar
<1>1. ASSUME SinkInv PROVE ServedIsLaminar
  <2> SUFFICES ASSUME outcome = "OK", NEW m \in Ids(analysis), NEW n \in Ids(analysis)
               PROVE  Related(analysis, m, n)
    BY AboveIsAboveIn DEF ServedIsLaminar, Related
  <2> QED
    BY <1>1, ServedIsValid, ReachedIsTree
<1> QED
  BY <1>1, SinkInvHolds, PTL

(* And nothing that the provider has sent is missing from it: an event     *)
(* that failed has made the whole callback fail.                           *)
THEOREM ServedAnalysesAreComplete ==
  Spec => []ServedIsComplete
<1>1. ASSUME SinkInv PROVE ServedIsComplete
  <2> SUFFICES ASSUME outcome = "OK"
               PROVE  issued = Len(analysis.nodes) + ChildEntries + FeatureEntries
                                 + Len(analysis.regions)
    BY DEF ServedIsComplete
  <2>1. issued = Size(analysis)
    BY <1>1, ServedIsValid DEF SinkInv
  <2> QED
    BY <2>1 DEF Size, ChildEntries, FeatureEntries, ChildCounts, FeatureCounts
<1> QED
  BY <1>1, SinkInvHolds, PTL
=============================================================================
