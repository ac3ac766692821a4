---------------------------- MODULE MergeLemmas ----------------------------
(***************************************************************************)
(* The merge of explicit regions (analyze_explicit_regions in              *)
(* src/runtime/abi/api.cpp), for all texts, partitions and analyses: one   *)
(* step keeps the document's analysis valid.                               *)
(***************************************************************************)
EXTENDS RegionAnalysis, CountingLemmas

(* A function whose domain is 1..n is a sequence of its values.            *)
LEMMA IsASequence ==
  ASSUME NEW f, NEW n \in Nat, f = [i \in 1..n |-> f[i]]
  PROVE  f \in Seq(Range(f)) /\ Len(f) = n
<1>1. \A i \in 1..n : f[i] \in Range(f)
  BY DEF Range
<1> QED
  BY <1>1

(* What there is to know of a sequence                                     *)
LEMMA SequenceFacts ==
  ASSUME NEW S, NEW q \in Seq(S)
  PROVE  /\ Len(q) \in Nat /\ DOMAIN q = 1..Len(q)
         /\ q \in Seq(Range(q))
         /\ \A i \in 1..Len(q) : q[i] \in Range(q)
<1>1. /\ Len(q) \in Nat /\ DOMAIN q = 1..Len(q) /\ q = [i \in 1..Len(q) |-> q[i]]
  OBVIOUS
<1>2. \A i \in 1..Len(q) : q[i] \in Range(q)
  BY <1>1 DEF Range
<1> QED
  BY <1>1, <1>2, IsASequence

(* The identifiers of a node's children after a shift                      *)
LEMMA ShiftedIds ==
  ASSUME NEW ids \in Seq(Nat), NEW s \in Nat
  PROVE  /\ ShiftIds(ids, s) \in Seq(Nat) /\ Len(ShiftIds(ids, s)) = Len(ids)
         /\ \A k \in 1..Len(ids) : ShiftIds(ids, s)[k] = ids[k] + s
<1>1. DOMAIN ids = 1..Len(ids) /\ Len(ids) \in Nat
  OBVIOUS
<1>2. ShiftIds(ids, s) = [k \in 1..Len(ids) |-> ids[k] + s]
  BY <1>1 DEF ShiftIds
<1> QED
  BY <1>1, <1>2

(* M is d with the analysis a of region r merged into it, field by field.  *)
Merged(M, d, a, r) ==
  LET s == Len(d.nodes) - 1
      L == Len(NodeAt(d, 0).children)
      K == Len(NodeAt(a, 0).children)
  IN
  /\ Len(d.nodes) \in Nat \ {0} /\ s \in Nat /\ L \in Nat /\ K \in Nat
  /\ Len(a.nodes) \in Nat \ {0} /\ Len(M.nodes) = s + Len(a.nodes)
  /\ NodeAt(M, 0).id = NodeAt(d, 0).id /\ NodeAt(M, 0).kind = NodeAt(d, 0).kind
  /\ NodeAt(M, 0).span = NodeAt(d, 0).span /\ NodeAt(M, 0).features = NodeAt(d, 0).features
  /\ DOMAIN NodeAt(d, 0).children = 1..L /\ DOMAIN NodeAt(a, 0).children = 1..K
  /\ DOMAIN NodeAt(M, 0).children = 1..(L + K) /\ Len(NodeAt(M, 0).children) = L + K
  /\ \A k \in 1..L : NodeAt(M, 0).children[k] = NodeAt(d, 0).children[k]
  /\ \A k \in 1..K : NodeAt(M, 0).children[L + k] = NodeAt(a, 0).children[k] + s
  /\ \A i \in 1..s : NodeAt(M, i) = NodeAt(d, i)
  /\ \A j \in 1..(Len(a.nodes) - 1) :
       /\ NodeAt(M, s + j).id = NodeAt(a, j).id + s
       /\ NodeAt(M, s + j).kind = NodeAt(a, j).kind
       /\ NodeAt(M, s + j).span = ShiftSpan(NodeAt(a, j).span, r.span.begin)
       /\ NodeAt(M, s + j).children = ShiftIds(NodeAt(a, j).children, s)
       /\ NodeAt(M, s + j).features = NodeAt(a, j).features
  /\ M.regions = Append(d.regions, r)

(* A node has the fields of a node, and no others.                        *)
Fielded(n) == n = [id |-> n.id, kind |-> n.kind, span |-> n.span,
                   children |-> n.children, features |-> n.features]
(* A record written out has them, and so has one with some of them set.   *)
LEMMA FieldsOfNode ==
  ASSUME NEW i, NEW k, NEW s, NEW c, NEW f,
         NEW n, n = [id |-> i, kind |-> k, span |-> s, children |-> c, features |-> f]
  PROVE  Fielded(n)
  BY DEF Fielded

LEMMA FieldsAreSet ==
  ASSUME NEW n, Fielded(n)
  PROVE  /\ \A c : Fielded([n EXCEPT !.children = c])
         /\ \A f : Fielded([n EXCEPT !.features = f])
         /\ \A i, s, c : Fielded([n EXCEPT !.id = i, !.span = s, !.children = c])
<1>1. PICK i, k, s, c, f : n = [id |-> i, kind |-> k, span |-> s, children |-> c, features |-> f]
  BY DEF Fielded
<1>2. ASSUME NEW v PROVE Fielded([n EXCEPT !.children = v])
  <2>1. [n EXCEPT !.children = v] = [id |-> i, kind |-> k, span |-> s, children |-> v, features |-> f]
    BY <1>1
  <2> QED
    BY <2>1, FieldsOfNode
<1>3. ASSUME NEW v PROVE Fielded([n EXCEPT !.features = v])
  <2>1. [n EXCEPT !.features = v] = [id |-> i, kind |-> k, span |-> s, children |-> c, features |-> v]
    BY <1>1
  <2> QED
    BY <2>1, FieldsOfNode
<1>4. ASSUME NEW u, NEW v, NEW w PROVE Fielded([n EXCEPT !.id = u, !.span = v, !.children = w])
  <2>1. PICK n1 : n1 = [n EXCEPT !.id = u]
    OBVIOUS
  <2>2. n1 = [id |-> u, kind |-> k, span |-> s, children |-> c, features |-> f]
    BY <1>1, <2>1
  <2>3. PICK n2 : n2 = [n1 EXCEPT !.span = v]
    OBVIOUS
  <2>4. n2 = [id |-> u, kind |-> k, span |-> v, children |-> c, features |-> f]
    BY <2>2, <2>3
  <2>5. PICK n3 : n3 = [n2 EXCEPT !.children = w]
    OBVIOUS
  <2>6. n3 = [id |-> u, kind |-> k, span |-> v, children |-> w, features |-> f]
    BY <2>4, <2>5
  <2>7. n3 = [n EXCEPT !.id = u, !.span = v, !.children = w]
    BY <2>1, <2>3, <2>5
  <2> QED
    BY <2>6, <2>7, FieldsOfNode
<1> QED
  BY <1>2, <1>3, <1>4

(* What Merge makes of typed analyses with a root each                     *)
LEMMA MergeIsMerged ==
  ASSUME NEW d, NEW a, NEW r, IsAnalysis(d), IsAnalysis(a), IsRegion(r),
         d.nodes # <<>>, a.nodes # <<>>
  PROVE  /\ IsAnalysis(Merge(d, a, r))
         /\ Merged(Merge(d, a, r), d, a, r)
<1> DEFINE M == Merge(d, a, r)
           Moved(n) == [n EXCEPT !.id = @ + (Len(d.nodes) - 1),
                            !.span = ShiftSpan(@, r.span.begin),
                            !.children = ShiftIds(@, Len(d.nodes) - 1)]
<1>1. PICK D, A, s, by : D = d.nodes /\ A = a.nodes /\ s = Len(d.nodes) - 1 /\ by = r.span.begin
  OBVIOUS
<1>2. /\ D \in Seq(Range(D)) /\ D # <<>> /\ Len(D) = s + 1 /\ s \in Nat
      /\ A \in Seq(Range(A)) /\ A # <<>> /\ Len(A) \in Nat \ {0}
      /\ by \in Nat
  BY <1>1 DEF IsAnalysis, IsRegion, IsSpan
<1>3. /\ \A i \in 1..(s + 1) : IsNode(D[i])
      /\ \A j \in 1..Len(A) : IsNode(A[j])
  BY <1>1, <1>2 DEF IsAnalysis, Range
<1>4. PICK ds, as, root, moved :
        /\ ds = D[1].children /\ as = A[1].children
        /\ root = [D[1] EXCEPT !.children = @ \o ShiftIds(as, s)]
        /\ moved = [k \in 1..(Len(A) - 1) |-> Moved(A[k + 1])]
  OBVIOUS
<1>5. M = [nodes |-> <<root>> \o Tail(D) \o moved, regions |-> Append(d.regions, r)]
  BY <1>1, <1>4 DEF Merge
<1> HIDE DEF Moved
<1>6. /\ IsNode(D[1]) /\ IsNode(A[1])
      /\ ds \in Seq(Nat) /\ as \in Seq(Nat)
  <2>1. 1 \in 1..(s + 1) /\ 1 \in 1..Len(A)
    BY <1>2
  <2>2. IsNode(D[1]) /\ IsNode(A[1])
    BY <1>3, <2>1
  <2> QED
    BY <1>4, <2>2 DEF IsNode
<1>7. PICK shifted : shifted = ShiftIds(as, s)
  OBVIOUS
<1>8. /\ shifted \in Seq(Nat) /\ Len(shifted) = Len(as)
      /\ \A k \in 1..Len(as) : shifted[k] = as[k] + s
  BY <1>2, <1>6, <1>7, ShiftedIds
<1>9. PICK cs : cs = ds \o shifted
  OBVIOUS
<1>10. /\ cs \in Seq(Nat) /\ Len(cs) = Len(ds) + Len(as)
       /\ \A k \in 1..Len(ds) : cs[k] = ds[k]
       /\ \A k \in 1..Len(as) : cs[Len(ds) + k] = as[k] + s
  <2>1. /\ cs \in Seq(Nat) /\ Len(cs) = Len(ds) + Len(shifted)
        /\ \A k \in 1..Len(ds) : cs[k] = ds[k]
        /\ \A k \in 1..Len(shifted) : cs[Len(ds) + k] = shifted[k]
    <3>1. ds \in Seq(Nat) /\ shifted \in Seq(Nat)
      BY <1>6, <1>8
    <3> QED
      BY <1>9, <3>1
  <2> QED
    BY <1>8, <2>1
<1>11. /\ DOMAIN root = {"id", "kind", "span", "children", "features"}
       /\ root.id = D[1].id /\ root.kind = D[1].kind /\ root.span = D[1].span
       /\ root.features = D[1].features /\ root.children = cs
  BY <1>4, <1>6, <1>7, <1>9 DEF IsNode
<1>12. IsNode(root)
  <2>1. Fielded(root)
    <3>1. Fielded(D[1])
      BY <1>6 DEF IsNode, Fielded
    <3> QED
      BY <1>4, <3>1, FieldsAreSet
  <2> QED
    BY <1>6, <1>10, <1>11, <2>1 DEF IsNode, Fielded
<1>13. moved \in Seq(Range(moved)) /\ Len(moved) = Len(A) - 1
  <2>1. /\ moved = [i \in 1..(Len(A) - 1) |-> moved[i]]
        /\ Len(A) - 1 \in Nat
    BY <1>2, <1>4
  <2> QED
    BY <2>1, IsASequence
<1>14. ASSUME NEW j \in 1..(Len(A) - 1)
       PROVE  LET n == A[j + 1] m == moved[j] IN
              /\ IsNode(n) /\ IsNode(m)
              /\ m.id = n.id + s /\ m.kind = n.kind /\ m.span = ShiftSpan(n.span, by)
              /\ m.children = ShiftIds(n.children, s) /\ m.features = n.features
  <2>1. PICK n, m : n = A[j + 1] /\ m = moved[j]
    OBVIOUS
  <2>2. IsNode(n)
    BY <1>2, <1>3, <2>1
  <2>3. m = [n EXCEPT !.id = @ + s, !.span = ShiftSpan(@, by), !.children = ShiftIds(@, s)]
    BY <1>1, <1>4, <2>1 DEF Moved
  <2>4. /\ DOMAIN m = {"id", "kind", "span", "children", "features"}
        /\ m.id = n.id + s /\ m.kind = n.kind /\ m.span = ShiftSpan(n.span, by)
        /\ m.children = ShiftIds(n.children, s) /\ m.features = n.features
    BY <2>2, <2>3 DEF IsNode
  <2>5. IsSpan(m.span)
    BY <1>2, <2>2, <2>4 DEF IsNode, IsSpan, ShiftSpan, Span
  <2>6. m.children \in Seq(Nat)
    BY <1>2, <2>2, <2>4, ShiftedIds DEF IsNode
  <2>7. Fielded(m)
    <3>1. Fielded(n)
      BY <2>2 DEF IsNode, Fielded
    <3> QED
      BY <2>3, <3>1, FieldsAreSet
  <2>8. IsNode(m)
    BY <2>2, <2>4, <2>5, <2>6, <2>7 DEF IsNode, Fielded
  <2> QED
    BY <2>1, <2>2, <2>4, <2>8
<1>15. PICK N : N = <<root>> \o Tail(D) \o moved
  OBVIOUS
<1>16. /\ N \in Seq(Range(D) \cup {root} \cup Range(moved))
       /\ Len(N) = s + Len(A)
       /\ N[1] = root
       /\ \A i \in 2..(s + 1) : N[i] = D[i]
       /\ \A j \in 1..(Len(A) - 1) : N[s + 1 + j] = moved[j]
  <2>1. PICK S : S = Range(D) \cup {root} \cup Range(moved)
    OBVIOUS
  <2>2. D \in Seq(S) /\ moved \in Seq(S) /\ <<root>> \in Seq(S)
    BY <1>2, <1>13, <2>1
  <2>3. PICK T : T = Tail(D)
    OBVIOUS
  <2>4. T \in Seq(S) /\ Len(T) = s /\ \A i \in 1..s : T[i] = D[i + 1]
    BY <1>2, <2>2, <2>3
  <2>5. PICK H : H = <<root>> \o T
    OBVIOUS
  <2>6. /\ H \in Seq(S) /\ Len(H) = s + 1 /\ H[1] = root
        /\ \A i \in 2..(s + 1) : H[i] = T[i - 1]
    BY <1>2, <2>2, <2>4, <2>5
  <2>7. N = H \o moved
    BY <1>15, <2>3, <2>5
  <2>8. \A i \in 2..(s + 1) : H[i] = D[i]
    BY <1>2, <2>4, <2>6
  <2>9. /\ N \in Seq(S) /\ Len(N) = Len(H) + Len(moved)
        /\ \A i \in 1..Len(H) : N[i] = H[i]
        /\ \A i \in 1..Len(moved) : N[Len(H) + i] = moved[i]
    <3>1. H \in Seq(S) /\ moved \in Seq(S)
      BY <2>2, <2>6
    <3> QED
      BY <2>7, <3>1
  <2>10. N[1] = root /\ \A i \in 2..(s + 1) : N[i] = D[i]
    BY <1>2, <2>6, <2>8, <2>9
  <2>11. Len(N) = s + Len(A)
    BY <1>2, <1>13, <2>6, <2>9
  <2>12. \A j \in 1..(Len(A) - 1) : N[s + 1 + j] = moved[j]
    BY <1>13, <2>6, <2>9
  <2> QED
    BY <2>1, <2>9, <2>10, <2>11, <2>12
<1>17. ASSUME NEW i \in 1..Len(N) PROVE IsNode(N[i])
  <2>1. i = 1 \/ i \in 2..(s + 1) \/ \E j \in 1..(Len(A) - 1) : i = s + 1 + j
    <3>1. i > s + 1 => i - (s + 1) \in 1..(Len(A) - 1) /\ i = s + 1 + (i - (s + 1))
      BY <1>2, <1>16
    <3> QED
      BY <1>2, <1>16, <3>1
  <2>2. CASE i = 1
    BY <1>12, <1>16, <2>2
  <2>3. CASE i \in 2..(s + 1)
    BY <1>2, <1>3, <1>16, <2>3
  <2>4. CASE \E j \in 1..(Len(A) - 1) : i = s + 1 + j
    BY <1>14, <1>16, <2>4
  <2> QED
    BY <2>1, <2>2, <2>3, <2>4
<1>18. N \in Seq(Range(N)) /\ \A n \in Range(N) : IsNode(n)
  <2>1. DOMAIN N = 1..Len(N)
    BY <1>16
  <2>2. N \in Seq(Range(N))
    BY <1>16, SequenceFacts
  <2> QED
    BY <1>17, <2>1, <2>2 DEF Range
<1>19. PICK G, R : G = d.regions /\ R = Append(G, r)
  OBVIOUS
<1>20. R \in Seq(Range(R)) /\ \A x \in Range(R) : IsRegion(x)
  <2>1. G \in Seq(Range(G)) /\ \A x \in Range(G) : IsRegion(x)
    BY <1>19 DEF IsAnalysis
  <2>2. DOMAIN R = 1..(Len(G) + 1) /\ Len(G) + 1 \in Nat
    BY <1>19, <2>1
  <2>3. ASSUME NEW x \in Range(R) PROVE IsRegion(x)
    <3>1. PICK k \in 1..(Len(G) + 1) : x = R[k]
      BY <2>2 DEF Range
    <3>2. k \in 1..Len(G) => x = G[k] /\ G[k] \in Range(G)
      BY <1>19, <2>1, <3>1 DEF Range
    <3>3. k = Len(G) + 1 => x = r
      BY <1>19, <2>1, <3>1
    <3> QED
      BY <2>1, <2>2, <3>1, <3>2, <3>3
  <2>4. R = [i \in 1..(Len(G) + 1) |-> R[i]]
    BY <1>19, <2>1
  <2> QED
    BY <2>2, <2>3, <2>4, IsASequence
<1>21. M = [nodes |-> N, regions |-> R]
  BY <1>5, <1>15, <1>19
<1> HIDE DEF M
<1>22. IsAnalysis(M)
  BY <1>18, <1>20, <1>21 DEF IsAnalysis
<1>23. Merged(M, d, a, r)
  <2>1. /\ NodeAt(M, 0) = root /\ NodeAt(d, 0) = D[1] /\ NodeAt(a, 0) = A[1]
    BY <1>1, <1>16, <1>21 DEF NodeAt
  <2>2. ASSUME NEW i \in 1..s PROVE NodeAt(M, i) = NodeAt(d, i)
    <3>1. i + 1 \in 2..(s + 1)
      BY <1>2
    <3> QED
      BY <1>1, <1>16, <1>21, <3>1 DEF NodeAt
  <2>3. ASSUME NEW j \in 1..(Len(A) - 1)
        PROVE  NodeAt(M, s + j) = moved[j] /\ NodeAt(a, j) = A[j + 1]
    <3>1. s + j + 1 = s + 1 + j
      BY <1>2
    <3> QED
      BY <1>1, <1>16, <1>21, <3>1 DEF NodeAt
  <2>4. /\ Len(M.nodes) = s + Len(A) /\ M.regions = Append(d.regions, r)
    BY <1>16, <1>19, <1>21
  <2>5. /\ ds = NodeAt(d, 0).children /\ as = NodeAt(a, 0).children
        /\ cs = NodeAt(M, 0).children
    BY <1>4, <1>11, <2>1
  <2>6. /\ Len(ds) \in Nat /\ Len(as) \in Nat
        /\ DOMAIN ds = 1..Len(ds) /\ DOMAIN as = 1..Len(as)
        /\ DOMAIN cs = 1..(Len(ds) + Len(as))
    <3>1. DOMAIN cs = 1..Len(cs)
      BY <1>10, SequenceFacts
    <3> QED
      BY <1>6, <1>10, <3>1, SequenceFacts
  <2>7. ASSUME NEW j \in 1..(Len(a.nodes) - 1)
        PROVE  /\ NodeAt(M, s + j).id = NodeAt(a, j).id + s
               /\ NodeAt(M, s + j).kind = NodeAt(a, j).kind
               /\ NodeAt(M, s + j).span = ShiftSpan(NodeAt(a, j).span, r.span.begin)
               /\ NodeAt(M, s + j).children = ShiftIds(NodeAt(a, j).children, s)
               /\ NodeAt(M, s + j).features = NodeAt(a, j).features
    <3>1. j \in 1..(Len(A) - 1)
      BY <1>1
    <3>2. PICK n, m : n = A[j + 1] /\ m = moved[j]
      OBVIOUS
    <3>3. /\ m.id = n.id + s /\ m.kind = n.kind /\ m.span = ShiftSpan(n.span, by)
          /\ m.children = ShiftIds(n.children, s) /\ m.features = n.features
      BY <1>14, <3>1, <3>2
    <3>4. NodeAt(M, s + j) = m /\ NodeAt(a, j) = n
      BY <2>3, <3>1, <3>2
    <3> QED
      BY <1>1, <3>3, <3>4
  <2>8. /\ NodeAt(M, 0).id = NodeAt(d, 0).id /\ NodeAt(M, 0).kind = NodeAt(d, 0).kind
        /\ NodeAt(M, 0).span = NodeAt(d, 0).span
        /\ NodeAt(M, 0).features = NodeAt(d, 0).features
    BY <1>11, <2>1
  <2>9. PICK L, K : L = Len(ds) /\ K = Len(as)
    OBVIOUS
  <2>10. /\ L \in Nat /\ K \in Nat /\ DOMAIN ds = 1..L /\ DOMAIN as = 1..K
         /\ DOMAIN cs = 1..(L + K) /\ Len(cs) = L + K
         /\ \A k \in 1..L : cs[k] = ds[k]
         /\ \A k \in 1..K : cs[L + k] = as[k] + s
    BY <1>10, <2>6, <2>9
  <2>11. /\ s \in Nat /\ Len(d.nodes) \in Nat \ {0} /\ Len(a.nodes) \in Nat \ {0} /\ Len(M.nodes) = s + Len(a.nodes)
         /\ s = Len(d.nodes) - 1 /\ M.regions = Append(d.regions, r)
    BY <1>1, <1>2, <2>4
  <2> QED
    BY <2>2, <2>5, <2>7, <2>8, <2>9, <2>10, <2>11, Zenon DEF Merged
<1> QED
  BY <1>22, <1>23 DEF M

-----------------------------------------------------------------------------
(* The validator's checks, one by one *)

(* The nodes of a typed analysis                                           *)
LEMMA NodesAreTyped ==
  ASSUME NEW a, IsAnalysis(a), NEW i \in Ids(a)
  PROVE  /\ Len(a.nodes) \in Nat /\ i \in Nat
         /\ IsNode(NodeAt(a, i))
<1>1. /\ Len(a.nodes) \in Nat /\ DOMAIN a.nodes = 1..Len(a.nodes)
  BY SequenceFacts DEF IsAnalysis
<1>2. i + 1 \in DOMAIN a.nodes /\ i \in Nat
  BY <1>1 DEF Ids
<1> QED
  BY <1>1, <1>2 DEF IsAnalysis, NodeAt, Range

(* A node of a merge is the root, a node of the document or a moved one.   *)
LEMMA NodesOfMerge ==
  ASSUME NEW M, NEW d, NEW a, NEW r, Merged(M, d, a, r), NEW i \in Ids(M)
  PROVE  LET s == Len(d.nodes) - 1 IN
         /\ s \in Nat
         /\ \/ i = 0 /\ 0 \in Ids(d) /\ 0 \in Ids(a)
            \/ i \in 1..s /\ i \in Ids(d)
            \/ \E j \in 1..(Len(a.nodes) - 1) : j \in Ids(a) /\ i = s + j
<1>1. PICK n, l, s : n = Len(a.nodes) /\ l = Len(d.nodes) /\ s = Len(d.nodes) - 1
  OBVIOUS
<1>2. s \in Nat /\ n \in Nat \ {0} /\ l \in Nat /\ l = s + 1 /\ Len(M.nodes) = s + n
  BY <1>1 DEF Merged
<1>3. i \in 0..(s + n - 1)
  BY <1>2 DEF Ids
<1>4. Ids(d) = 0..s /\ Ids(a) = 0..(n - 1)
  BY <1>1, <1>2 DEF Ids
<1>5. i \in Int /\ 0 <= i /\ i <= s + n - 1 /\ s \in Int /\ n \in Int /\ n > 0 /\ s >= 0
  BY <1>2, <1>3
<1>6. CASE i <= s
  BY <1>1, <1>2, <1>4, <1>5, <1>6
<1>7. CASE i > s
  <2>1. i - s \in 1..(n - 1) /\ i - s \in 0..(n - 1) /\ i = s + (i - s)
    BY <1>5, <1>7
  <2> QED
    BY <1>1, <1>2, <1>4, <2>1
<1> QED
  BY <1>5, <1>6, <1>7

(* A span of a region's own text, moved to the document                    *)
LEMMA SpansMove ==
  ASSUME NEW T, IsText(T), NEW u, IsSpan(u), ValidSpan(T, u),
         NEW x, IsSpan(x), ValidSpan(Slice(T, u), x)
  PROVE  /\ ValidSpan(T, ShiftSpan(x, u.begin))
         /\ IsSpan(ShiftSpan(x, u.begin))
         /\ Contains(u, ShiftSpan(x, u.begin))
<1>1. PICK B, b, e, w, y : B = T.breaks /\ b = u.begin /\ e = u.end /\ w = x.begin /\ y = x.end
  OBVIOUS
<1>2. /\ b \in Nat /\ e \in Nat /\ b <= e /\ w \in Nat /\ y \in Nat /\ w <= y
      /\ B \subseteq Nat /\ e <= T.size /\ T.size \in Nat
  BY <1>1 DEF IsSpan, IsText, ValidSpan
<1>3. /\ y <= e - b
      /\ w \in {c - b : c \in {k \in B : b <= k /\ k <= e}}
      /\ y \in {c - b : c \in {k \in B : b <= k /\ k <= e}}
  BY <1>1 DEF ValidSpan, Slice
<1>4. w + b \in B /\ y + b \in B
  <2>1. PICK c \in B : w = c - b
    BY <1>3
  <2>2. PICK k \in B : y = k - b
    BY <1>3
  <2>3. c \in Nat /\ k \in Nat
    BY <1>2
  <2>4. w + b = c /\ y + b = k
    BY <1>2, <2>1, <2>2, <2>3
  <2> QED
    BY <2>4
<1>5. ShiftSpan(x, u.begin) = [begin |-> w + b, end |-> y + b]
  BY <1>1 DEF ShiftSpan, Span
<1> QED
  BY <1>1, <1>2, <1>3, <1>4, <1>5 DEF ValidSpan, IsSpan, Contains

(* Nothing under the root and no region reaches beyond e.                  *)
EndsBy(d, e) ==
  /\ \A k \in DOMAIN NodeAt(d, 0).children :
       NodeAt(d, NodeAt(d, 0).children[k]).span.end <= e
  /\ \A k \in DOMAIN d.regions : d.regions[k].span.end <= e

(* What the merge of one region starts from                                *)
Mergeable(T, M, d, a, r, e) ==
  /\ IsText(T) /\ IsAnalysis(M) /\ IsAnalysis(d) /\ IsAnalysis(a)
  /\ ValidAnalysis(T, d) /\ ValidAnalysis(Slice(T, r.span), a)
  /\ Merged(M, d, a, r)
  /\ IsSpan(r.span) /\ ValidSpan(T, r.span)
  /\ r.language # "" /\ r.confidence \in 0..100
  /\ EndsBy(d, e) /\ e \in Nat /\ e <= r.span.begin

(* The identifiers of a merge are dense.                                   *)
LEMMA MergeKeepsIds ==
  ASSUME NEW T, NEW M, NEW d, NEW a, NEW r, NEW e, Mergeable(T, M, d, a, r, e)
  PROVE  DenseIds(M)
<1> SUFFICES ASSUME NEW i \in Ids(M) PROVE NodeAt(M, i).id = i
  BY DEF DenseIds
<1>1. PICK s : s = Len(d.nodes) - 1
  OBVIOUS
<1>2. /\ Merged(M, d, a, r) /\ DenseIds(d) /\ DenseIds(a)
  BY DEF Mergeable, ValidAnalysis
<1>3. CASE i = 0 /\ 0 \in Ids(d)
  BY <1>2, <1>3 DEF Merged, DenseIds
<1>4. CASE i \in 1..s /\ i \in Ids(d)
  BY <1>1, <1>2, <1>4 DEF Merged, DenseIds
<1>5. ASSUME NEW j \in 1..(Len(a.nodes) - 1), j \in Ids(a), i = s + j, s \in Nat
      PROVE  NodeAt(M, i).id = i
  <2>1. NodeAt(M, s + j).id = NodeAt(a, j).id + s
    BY <1>1, <1>2 DEF Merged
  <2>2. NodeAt(a, j).id = j /\ j \in Nat
    BY <1>2, <1>5, NodesAreTyped DEF DenseIds, Mergeable
  <2> QED
    BY <1>5, <2>1, <2>2
<1> QED
  BY <1>1, <1>2, <1>3, <1>4, <1>5, NodesOfMerge

(* The spans of a merge are spans of the document's text.                  *)
LEMMA MergeKeepsSpans ==
  ASSUME NEW T, NEW M, NEW d, NEW a, NEW r, NEW e, Mergeable(T, M, d, a, r, e)
  PROVE  AlignedSpans(T, M)
<1> SUFFICES ASSUME NEW i \in Ids(M) PROVE ValidSpan(T, NodeAt(M, i).span)
  BY DEF AlignedSpans
<1>1. PICK s : s = Len(d.nodes) - 1
  OBVIOUS
<1>2. /\ Merged(M, d, a, r) /\ AlignedSpans(T, d) /\ AlignedSpans(Slice(T, r.span), a)
  BY DEF Mergeable, ValidAnalysis
<1>3. CASE i = 0 /\ 0 \in Ids(d)
  BY <1>2, <1>3 DEF Merged, AlignedSpans
<1>4. CASE i \in 1..s /\ i \in Ids(d)
  BY <1>1, <1>2, <1>4 DEF Merged, AlignedSpans
<1>5. ASSUME NEW j \in 1..(Len(a.nodes) - 1), j \in Ids(a), i = s + j
      PROVE  ValidSpan(T, NodeAt(M, i).span)
  <2>1. NodeAt(M, s + j).span = ShiftSpan(NodeAt(a, j).span, r.span.begin)
    BY <1>1, <1>2 DEF Merged
  <2>2. ValidSpan(Slice(T, r.span), NodeAt(a, j).span)
    BY <1>2, <1>5 DEF AlignedSpans
  <2>3. IsSpan(NodeAt(a, j).span)
    BY <1>5, NodesAreTyped DEF Mergeable, IsNode
  <2>4. ValidSpan(T, ShiftSpan(NodeAt(a, j).span, r.span.begin))
    BY <2>2, <2>3, SpansMove DEF Mergeable
  <2> QED
    BY <1>5, <2>1, <2>4
<1> QED
  BY <1>1, <1>2, <1>3, <1>4, <1>5, NodesOfMerge

(* No node of a merge has a feature twice.                                 *)
LEMMA MergeKeepsFeatures ==
  ASSUME NEW T, NEW M, NEW d, NEW a, NEW r, NEW e, Mergeable(T, M, d, a, r, e)
  PROVE  UniqueFeatures(M)
<1> DEFINE Unique(n) == \A j, k \in DOMAIN n.features :
                          n.features[j].id = n.features[k].id => j = k
<1> SUFFICES ASSUME NEW i \in Ids(M) PROVE Unique(NodeAt(M, i))
  BY DEF UniqueFeatures
<1>1. PICK s : s = Len(d.nodes) - 1
  OBVIOUS
<1>2. /\ Merged(M, d, a, r)
      /\ \A k \in Ids(d) : Unique(NodeAt(d, k))
      /\ \A k \in Ids(a) : Unique(NodeAt(a, k))
  BY DEF Mergeable, ValidAnalysis, UniqueFeatures
<1>3. CASE i = 0 /\ 0 \in Ids(d)
  <2>1. NodeAt(M, 0).features = NodeAt(d, 0).features
    BY <1>2 DEF Merged
  <2> QED
    BY <1>2, <1>3, <2>1
<1>4. CASE i \in 1..s /\ i \in Ids(d)
  <2>1. NodeAt(M, i) = NodeAt(d, i)
    BY <1>1, <1>2, <1>4 DEF Merged
  <2> QED
    BY <1>2, <1>4, <2>1
<1>5. ASSUME NEW j \in 1..(Len(a.nodes) - 1), j \in Ids(a), i = s + j
      PROVE  Unique(NodeAt(M, i))
  <2>1. NodeAt(M, s + j).features = NodeAt(a, j).features
    BY <1>1, <1>2 DEF Merged
  <2> QED
    BY <1>2, <1>5, <2>1
<1> QED
  BY <1>1, <1>2, <1>3, <1>4, <1>5, NodesOfMerge

(* The root of a merge is the document's.                                  *)
LEMMA MergeKeepsRoot ==
  ASSUME NEW T, NEW M, NEW d, NEW a, NEW r, NEW e, Mergeable(T, M, d, a, r, e)
  PROVE  ValidRoot(T, M)
<1>1. Merged(M, d, a, r) /\ ValidRoot(T, d)
  BY DEF Mergeable, ValidAnalysis
<1>2. PICK s, n : s = Len(d.nodes) - 1 /\ n = Len(a.nodes)
  OBVIOUS
<1>3. M.nodes # <<>>
  <2>1. s \in Nat /\ n \in Nat \ {0} /\ Len(M.nodes) = s + n
    BY <1>1, <1>2 DEF Merged
  <2>2. Len(M.nodes) # 0
    BY <2>1
  <2> QED
    BY <2>2
<1> QED
  BY <1>1, <1>3 DEF Merged, ValidRoot

(* The children of node n of analysis x, as the validator wants them       *)
InOrder(x, n) ==
  \A k \in DOMAIN n.children :
    /\ n.children[k] \in Ids(x) \ {0}
    /\ Contains(n.span, NodeAt(x, n.children[k]).span)
    /\ (IF k = 1 THEN n.span.begin ELSE NodeAt(x, n.children[k - 1]).span.end)
         <= NodeAt(x, n.children[k]).span.begin

(* The document's nodes below the root keep their children.                *)
LEMMA OldChildrenStay ==
  ASSUME NEW T, NEW M, NEW d, NEW a, NEW r, NEW e, Mergeable(T, M, d, a, r, e),
         NEW c, c \in Ids(d) \ {0}
  PROVE  /\ c \in Ids(M) \ {0} /\ NodeAt(M, c) = NodeAt(d, c)
         /\ c \in 1..(Len(d.nodes) - 1)
<1>1. PICK s, n, l : s = Len(d.nodes) - 1 /\ n = Len(a.nodes) /\ l = Len(d.nodes)
  OBVIOUS
<1>2. Merged(M, d, a, r)
  BY DEF Mergeable
<1>3. s \in Nat /\ n \in Nat \ {0} /\ l \in Nat /\ l = s + 1 /\ Len(M.nodes) = s + n
  BY <1>1, <1>2 DEF Merged
<1>4. c \in 1..s /\ c \in 0..(s + n - 1) /\ c # 0
  <2>1. Ids(d) = 0..s
    BY <1>1, <1>3 DEF Ids
  <2>2. c \in Int /\ 1 <= c /\ c <= s
    BY <1>3, <2>1
  <2> QED
    BY <1>3, <2>2
<1>5. NodeAt(M, c) = NodeAt(d, c)
  BY <1>1, <1>2, <1>4 DEF Merged
<1>6. Ids(M) = 0..(s + n - 1)
  BY <1>3 DEF Ids
<1> QED
  BY <1>1, <1>4, <1>5, <1>6

(* The children of a region's nodes are children in the document.          *)
LEMMA NewChildrenMove ==
  ASSUME NEW T, NEW M, NEW d, NEW a, NEW r, NEW e, Mergeable(T, M, d, a, r, e),
         NEW c, c \in Ids(a) \ {0}
  PROVE  LET m == c + (Len(d.nodes) - 1) IN
         /\ m \in Ids(M) \ {0}
         /\ NodeAt(M, m).span = ShiftSpan(NodeAt(a, c).span, r.span.begin)
         /\ IsSpan(NodeAt(a, c).span) /\ IsSpan(NodeAt(M, m).span)
         /\ ValidSpan(T, NodeAt(M, m).span)
         /\ Contains(r.span, NodeAt(M, m).span)
<1>1. PICK s, n, l : s = Len(d.nodes) - 1 /\ n = Len(a.nodes) /\ l = Len(d.nodes)
  OBVIOUS
<1>2. Merged(M, d, a, r)
  BY DEF Mergeable
<1>3. s \in Nat /\ n \in Nat \ {0} /\ l \in Nat /\ l = s + 1 /\ Len(M.nodes) = s + n
  BY <1>1, <1>2 DEF Merged
<1>4. c \in 1..(n - 1) /\ c \in Int
  BY <1>1, <1>3 DEF Ids
<1>5. s + c \in 0..(s + n - 1) /\ s + c # 0 /\ c + s = s + c
  BY <1>3, <1>4
<1>6. NodeAt(M, s + c).span = ShiftSpan(NodeAt(a, c).span, r.span.begin)
  BY <1>1, <1>2, <1>4 DEF Merged
<1>7. IsSpan(NodeAt(a, c).span) /\ ValidSpan(Slice(T, r.span), NodeAt(a, c).span)
  BY NodesAreTyped DEF Mergeable, ValidAnalysis, AlignedSpans, IsNode
<1>8. /\ IsSpan(NodeAt(M, s + c).span) /\ ValidSpan(T, NodeAt(M, s + c).span)
      /\ Contains(r.span, NodeAt(M, s + c).span)
  BY <1>6, <1>7, SpansMove DEF Mergeable
<1> QED
  BY <1>1, <1>3, <1>5, <1>6, <1>7, <1>8 DEF Ids

(* Spans in order stay in order, and inside each other, when they move.    *)
LEMMA OrderMoves ==
  ASSUME NEW x, NEW y, IsSpan(x), IsSpan(y), NEW by \in Nat
  PROVE  /\ Contains(x, y) => Contains(ShiftSpan(x, by), ShiftSpan(y, by))
         /\ x.begin <= y.begin => ShiftSpan(x, by).begin <= ShiftSpan(y, by).begin
         /\ x.end <= y.begin => ShiftSpan(x, by).end <= ShiftSpan(y, by).begin
BY DEF IsSpan, ShiftSpan, Span, Contains

(* A node of a typed analysis whose children are in order                  *)
LEMMA ChildrenAreTyped ==
  ASSUME NEW a, IsAnalysis(a), NEW i \in Ids(a)
  PROVE  LET n == NodeAt(a, i) IN
         /\ Len(n.children) \in Nat /\ DOMAIN n.children = 1..Len(n.children)
         /\ IsSpan(n.span)
         /\ \A k \in DOMAIN n.children : n.children[k] \in Nat
<1>1. IsNode(NodeAt(a, i))
  BY NodesAreTyped
<1>2. PICK cs : cs = NodeAt(a, i).children
  OBVIOUS
<1>3. cs \in Seq(Nat) /\ IsSpan(NodeAt(a, i).span)
  BY <1>1, <1>2 DEF IsNode
<1>4. Len(cs) \in Nat /\ DOMAIN cs = 1..Len(cs) /\ \A k \in DOMAIN cs : cs[k] \in Nat
  BY <1>3
<1> QED
  BY <1>2, <1>3, <1>4

(* The children of a moved node are in order.                              *)
LEMMA MovedInOrder ==
  ASSUME NEW T, NEW M, NEW d, NEW a, NEW r, NEW e, Mergeable(T, M, d, a, r, e),
         NEW j \in 1..(Len(a.nodes) - 1), j \in Ids(a)
  PROVE  InOrder(M, NodeAt(M, (Len(d.nodes) - 1) + j))
<1>1. PICK s, m, n, by : /\ s = Len(d.nodes) - 1 /\ m = NodeAt(M, s + j)
                         /\ n = NodeAt(a, j) /\ by = r.span.begin
  OBVIOUS
<1>2. /\ m.span = ShiftSpan(n.span, by) /\ m.children = ShiftIds(n.children, s)
      /\ s \in Nat
  BY <1>1 DEF Mergeable, Merged
<1>3. by \in Nat
  BY <1>1 DEF Mergeable, IsSpan
<1>4. /\ IsAnalysis(a) /\ InOrder(a, n)
  BY <1>1 DEF Mergeable, ValidAnalysis, OrderedChildren, InOrder
<1>5. /\ DOMAIN n.children = 1..Len(n.children) /\ Len(n.children) \in Nat
      /\ IsSpan(n.span)
      /\ \A k \in DOMAIN n.children : n.children[k] \in Nat
  BY <1>1, <1>4, ChildrenAreTyped
<1>6. /\ DOMAIN m.children = DOMAIN n.children
      /\ \A k \in DOMAIN n.children : m.children[k] = n.children[k] + s
  BY <1>2 DEF ShiftIds
<1>7. ASSUME NEW k \in DOMAIN n.children
      PROVE  LET c == n.children[k] IN
             /\ m.children[k] \in Ids(M) \ {0}
             /\ NodeAt(M, m.children[k]).span = ShiftSpan(NodeAt(a, c).span, by)
             /\ IsSpan(NodeAt(a, c).span)
  <2>1. PICK c : c = n.children[k]
    OBVIOUS
  <2>2. c \in Ids(a) \ {0} /\ c + s = m.children[k]
    BY <1>4, <1>6, <2>1 DEF InOrder
  <2>3. /\ c + s \in Ids(M) \ {0} /\ IsSpan(NodeAt(a, c).span)
        /\ NodeAt(M, c + s).span = ShiftSpan(NodeAt(a, c).span, by)
    BY <1>1, <2>2, NewChildrenMove
  <2> QED
    BY <2>1, <2>2, <2>3
<1>8. ASSUME NEW k \in DOMAIN m.children
      PROVE  /\ Contains(m.span, NodeAt(M, m.children[k]).span)
             /\ (IF k = 1 THEN m.span.begin ELSE NodeAt(M, m.children[k - 1]).span.end)
                  <= NodeAt(M, m.children[k]).span.begin
  <2>1. PICK x : x = NodeAt(a, n.children[k]).span
    OBVIOUS
  <2>2. /\ k \in DOMAIN n.children /\ IsSpan(x)
        /\ NodeAt(M, m.children[k]).span = ShiftSpan(x, by)
    BY <1>6, <1>7, <2>1
  <2>3. Contains(m.span, NodeAt(M, m.children[k]).span)
    <3>1. Contains(n.span, x)
      BY <1>4, <2>1, <2>2 DEF InOrder
    <3> QED
      BY <1>2, <1>3, <1>5, <2>2, <3>1, OrderMoves
  <2>4. CASE k = 1
    <3>1. n.span.begin <= x.begin
      BY <1>4, <2>1, <2>2, <2>4 DEF InOrder
    <3>2. m.span.begin <= NodeAt(M, m.children[k]).span.begin
      BY <1>2, <1>3, <1>5, <2>2, <3>1, OrderMoves
    <3> QED
      BY <2>3, <2>4, <3>2
  <2>5. CASE k # 1
    <3>1. k - 1 \in DOMAIN n.children
      BY <1>5, <2>2, <2>5
    <3>2. PICK y : y = NodeAt(a, n.children[k - 1]).span
      OBVIOUS
    <3>3. IsSpan(y) /\ NodeAt(M, m.children[k - 1]).span = ShiftSpan(y, by)
      BY <1>7, <3>1, <3>2
    <3>4. y.end <= x.begin
      BY <1>4, <2>1, <2>2, <2>5, <3>2 DEF InOrder
    <3>5. NodeAt(M, m.children[k - 1]).span.end <= NodeAt(M, m.children[k]).span.begin
      BY <1>3, <2>2, <3>3, <3>4, OrderMoves
    <3> QED
      BY <2>3, <2>5, <3>5
  <2> QED
    BY <2>4, <2>5
<1>9. InOrder(M, m)
  BY <1>6, <1>7, <1>8 DEF InOrder
<1> QED
  BY <1>1, <1>9

(* The root's children before the merge, the region's root's, the root's   *)
(* after it, and what is added to an identifier                            *)
RootLists(M, d, a, old, new, all, s, L, K) ==
  /\ old = NodeAt(d, 0).children /\ new = NodeAt(a, 0).children
  /\ all = NodeAt(M, 0).children /\ s = Len(d.nodes) - 1
  /\ L \in Nat /\ K \in Nat
  /\ DOMAIN old = 1..L /\ DOMAIN new = 1..K /\ DOMAIN all = 1..(L + K)
  /\ \A k \in 1..L : all[k] = old[k] /\ old[k] \in Ids(d) \ {0}
  /\ \A k \in 1..K : all[L + k] = new[k] + s /\ new[k] \in Ids(a) \ {0}
  /\ InOrder(d, NodeAt(d, 0)) /\ InOrder(a, NodeAt(a, 0))

(* The children of the document's root: those it had, as they were, then   *)
(* the region's, all of them inside the region                             *)
LEMMA RootChildren ==
  ASSUME NEW T, NEW M, NEW d, NEW a, NEW r, NEW e, Mergeable(T, M, d, a, r, e)
  PROVE  \E old, new, all, s, L, K :
           RootLists(M, d, a, old, new, all, s, L, K)
<1>1. PICK old, new, all, s, L, K :
        /\ old = NodeAt(d, 0).children /\ new = NodeAt(a, 0).children
        /\ all = NodeAt(M, 0).children /\ s = Len(d.nodes) - 1
        /\ L = Len(old) /\ K = Len(new)
  OBVIOUS
<1>2. Merged(M, d, a, r) /\ OrderedChildren(d) /\ OrderedChildren(a)
  BY DEF Mergeable, ValidAnalysis
<1>3. /\ L \in Nat /\ K \in Nat
      /\ DOMAIN old = 1..L /\ DOMAIN new = 1..K /\ DOMAIN all = 1..(L + K)
      /\ \A k \in 1..L : all[k] = old[k]
      /\ \A k \in 1..K : all[L + k] = new[k] + s
  BY <1>1, <1>2 DEF Merged
<1>4. 0 \in Ids(d) /\ 0 \in Ids(a)
  <2>1. Len(d.nodes) \in Nat \ {0} /\ Len(a.nodes) \in Nat \ {0}
    BY <1>2 DEF Merged
  <2> QED
    BY <2>1 DEF Ids
<1>5. InOrder(d, NodeAt(d, 0)) /\ InOrder(a, NodeAt(a, 0))
  BY <1>2, <1>4 DEF OrderedChildren, InOrder
<1>6. /\ \A k \in 1..L : old[k] \in Ids(d) \ {0}
      /\ \A k \in 1..K : new[k] \in Ids(a) \ {0}
  BY <1>1, <1>3, <1>5 DEF InOrder
<1>7. RootLists(M, d, a, old, new, all, s, L, K)
  BY <1>1, <1>3, <1>5, <1>6 DEF RootLists
<1> QED
  BY <1>7, Zenon

(* The children of a merge are in order, whoever their parent is.          *)
LEMMA MergeKeepsOrder ==
  ASSUME NEW T, NEW M, NEW d, NEW a, NEW r, NEW e, Mergeable(T, M, d, a, r, e)
  PROVE  OrderedChildren(M)
<1> SUFFICES ASSUME NEW i \in Ids(M) PROVE InOrder(M, NodeAt(M, i))
  BY DEF OrderedChildren, InOrder
<1>1. PICK s : s = Len(d.nodes) - 1
  OBVIOUS
<1>2. /\ Merged(M, d, a, r) /\ OrderedChildren(d) /\ IsAnalysis(d) /\ IsAnalysis(a)
      /\ IsAnalysis(M) /\ IsText(T) /\ IsSpan(r.span) /\ EndsBy(d, e)
      /\ e \in Nat /\ e <= r.span.begin /\ ValidRoot(T, d)
  BY DEF Mergeable, ValidAnalysis
<1>3. ASSUME i \in 1..s, i \in Ids(d) PROVE InOrder(M, NodeAt(M, i))
  <2>1. PICK n : n = NodeAt(d, i)
    OBVIOUS
  <2>2. NodeAt(M, i) = n
    BY <1>1, <1>2, <1>3, <2>1 DEF Merged
  <2>3. InOrder(d, n)
    BY <1>2, <1>3, <2>1 DEF OrderedChildren, InOrder
  <2>4. ASSUME NEW k \in DOMAIN n.children
        PROVE  /\ n.children[k] \in Ids(M) \ {0}
               /\ NodeAt(M, n.children[k]) = NodeAt(d, n.children[k])
    BY <2>3, OldChildrenStay DEF InOrder
  <2>5. ASSUME NEW k \in DOMAIN n.children, k # 1 PROVE k - 1 \in DOMAIN n.children
    <3>1. DOMAIN n.children = 1..Len(n.children) /\ Len(n.children) \in Nat
      BY <1>2, <1>3, <2>1, ChildrenAreTyped
    <3> QED
      BY <2>5, <3>1
  <2> QED
    BY <2>2, <2>3, <2>4, <2>5 DEF InOrder
<1>4. ASSUME NEW j \in 1..(Len(a.nodes) - 1), j \in Ids(a), i = s + j
      PROVE  InOrder(M, NodeAt(M, i))
  BY <1>1, <1>4, MovedInOrder
<1>5. ASSUME i = 0 PROVE InOrder(M, NodeAt(M, i))
  <2>0. PICK old, new, all, s0, L, K : RootLists(M, d, a, old, new, all, s0, L, K)
    BY RootChildren, Zenon
  <2>1. /\ old = NodeAt(d, 0).children /\ new = NodeAt(a, 0).children
        /\ all = NodeAt(M, 0).children /\ s0 = Len(d.nodes) - 1
        /\ L \in Nat /\ K \in Nat
        /\ DOMAIN old = 1..L /\ DOMAIN new = 1..K /\ DOMAIN all = 1..(L + K)
        /\ \A k \in 1..L : all[k] = old[k] /\ old[k] \in Ids(d) \ {0}
        /\ \A k \in 1..K : all[L + k] = new[k] + s0 /\ new[k] \in Ids(a) \ {0}
        /\ InOrder(d, NodeAt(d, 0)) /\ InOrder(a, NodeAt(a, 0))
    BY <2>0 DEF RootLists
  <2>2. PICK root : root = NodeAt(M, 0)
    OBVIOUS
  <2>3. root.span = NodeAt(d, 0).span /\ root.span = [begin |-> 0, end |-> T.size]
    BY <1>2, <2>2 DEF Merged, ValidRoot, FullSpan, Span
  <2>4. ASSUME NEW k \in 1..L
        PROVE  /\ all[k] \in Ids(M) \ {0}
               /\ NodeAt(M, all[k]).span = NodeAt(d, old[k]).span
               /\ NodeAt(M, all[k]).span.end <= e
               /\ IsSpan(NodeAt(M, all[k]).span)
    <3>1. all[k] = old[k] /\ old[k] \in Ids(d) \ {0}
      BY <2>1
    <3>2. NodeAt(M, old[k]) = NodeAt(d, old[k]) /\ old[k] \in Ids(M) \ {0}
      BY <3>1, OldChildrenStay
    <3>3. NodeAt(d, old[k]).span.end <= e
      BY <1>2, <2>1, <2>2 DEF EndsBy
    <3>4. IsSpan(NodeAt(d, old[k]).span)
      BY <1>2, <3>1, ChildrenAreTyped
    <3> QED
      BY <3>1, <3>2, <3>3, <3>4
  <2>5. ASSUME NEW k \in 1..K
        PROVE  LET x == NodeAt(a, new[k]).span IN
               /\ all[L + k] \in Ids(M) \ {0} /\ IsSpan(x)
               /\ NodeAt(M, all[L + k]).span = ShiftSpan(x, r.span.begin)
               /\ Contains(r.span, NodeAt(M, all[L + k]).span)
               /\ ValidSpan(T, NodeAt(M, all[L + k]).span)
               /\ IsSpan(NodeAt(M, all[L + k]).span)
    <3>1. PICK c, m : c = new[k] /\ m = all[L + k]
      OBVIOUS
    <3>2. c \in Ids(a) \ {0} /\ c + s = m
      BY <1>1, <2>1, <3>1
    <3>3. /\ m \in Ids(M) \ {0}
          /\ NodeAt(M, m).span = ShiftSpan(NodeAt(a, c).span, r.span.begin)
          /\ IsSpan(NodeAt(a, c).span) /\ IsSpan(NodeAt(M, m).span)
          /\ ValidSpan(T, NodeAt(M, m).span)
          /\ Contains(r.span, NodeAt(M, m).span)
      BY <1>1, <3>2, NewChildrenMove
    <3> QED
      BY <3>1, <3>3
  <2>6. ASSUME NEW k \in 1..L
        PROVE  /\ Contains(root.span, NodeAt(M, all[k]).span)
               /\ (IF k = 1 THEN root.span.begin ELSE NodeAt(M, all[k - 1]).span.end)
                    <= NodeAt(M, all[k]).span.begin
    <3>1. Contains(root.span, NodeAt(M, all[k]).span)
      BY <2>1, <2>2, <2>3, <2>4 DEF InOrder
    <3>2. CASE k = 1
      BY <2>1, <2>2, <2>3, <2>4, <3>1, <3>2 DEF InOrder
    <3>3. CASE k # 1
      <4>1. k - 1 \in 1..L
        BY <2>1, <3>3
      <4>2. NodeAt(d, old[k - 1]).span.end <= NodeAt(d, old[k]).span.begin
        BY <2>1, <2>2, <3>3 DEF InOrder
      <4> QED
        BY <2>4, <3>1, <3>3, <4>1, <4>2
    <3> QED
      BY <3>2, <3>3
  <2>7. ASSUME NEW j \in 1..K, NEW k \in 1..(L + K), k = L + j
        PROVE  /\ Contains(root.span, NodeAt(M, all[k]).span)
               /\ (IF k = 1 THEN root.span.begin ELSE NodeAt(M, all[k - 1]).span.end)
                    <= NodeAt(M, all[k]).span.begin
    <3>1. PICK y : y = NodeAt(M, all[k]).span
      OBVIOUS
    <3>2. IsSpan(y) /\ ValidSpan(T, y) /\ Contains(r.span, y)
      BY <2>5, <2>7, <3>1
    <3>3. Contains(root.span, y)
      BY <2>3, <3>2 DEF IsSpan, ValidSpan, Contains
    <3>4. CASE k = 1
      BY <2>3, <3>1, <3>2, <3>3, <3>4 DEF IsSpan
    <3>5. CASE j # 1
      <4>1. PICK p : p = j - 1
        OBVIOUS
      <4>2. p \in 1..K /\ L + p = k - 1 /\ k # 1
        BY <2>1, <2>7, <3>5, <4>1
      <4>3. NodeAt(a, new[p]).span.end <= NodeAt(a, new[j]).span.begin
        BY <2>1, <3>5, <4>1 DEF InOrder
      <4>4. NodeAt(M, all[L + p]).span.end <= y.begin
        <5>1. PICK x, w, by : /\ x = NodeAt(a, new[p]).span /\ w = NodeAt(a, new[j]).span
                              /\ by = r.span.begin
          OBVIOUS
        <5>2. /\ IsSpan(x) /\ IsSpan(w) /\ y = ShiftSpan(w, by)
              /\ NodeAt(M, all[L + p]).span = ShiftSpan(x, by)
          BY <2>5, <2>7, <3>1, <4>2, <5>1
        <5>3. by \in Nat
          BY <1>2, <5>1 DEF IsSpan
        <5>4. x.end <= w.begin
          BY <4>3, <5>1
        <5> QED
          BY <5>2, <5>3, <5>4, OrderMoves
      <4> QED
        BY <3>1, <3>3, <4>2, <4>4
    <3>6. CASE j = 1 /\ L # 0
      <4>1. L \in 1..L /\ k - 1 = L /\ k # 1
        BY <2>1, <2>7, <3>6
      <4>2. NodeAt(M, all[L]).span.end <= e /\ IsSpan(NodeAt(M, all[L]).span)
        BY <2>4, <4>1
      <4>3. NodeAt(M, all[L]).span.end <= y.begin
        BY <1>2, <3>2, <4>2 DEF IsSpan, Contains
      <4> QED
        BY <3>1, <3>3, <4>1, <4>3
    <3> QED
      BY <2>1, <2>7, <3>4, <3>5, <3>6
  <2>8. ASSUME NEW k \in DOMAIN root.children
        PROVE  /\ root.children[k] \in Ids(M) \ {0}
               /\ Contains(root.span, NodeAt(M, root.children[k]).span)
               /\ (IF k = 1 THEN root.span.begin
                   ELSE NodeAt(M, root.children[k - 1]).span.end)
                    <= NodeAt(M, root.children[k]).span.begin
    <3>1. all = root.children /\ k \in 1..(L + K)
      BY <2>1, <2>2
    <3>2. k \in 1..L \/ \E j \in 1..K : k = L + j
      <4>1. k \in Int /\ 1 <= k /\ k <= L + K /\ L \in Int /\ K \in Int
        BY <2>1, <3>1
      <4>2. k > L => k - L \in 1..K /\ k = L + (k - L)
        BY <4>1
      <4> QED
        BY <4>1, <4>2
    <3>3. CASE k \in 1..L
      BY <2>4, <2>6, <3>1, <3>3
    <3>4. ASSUME NEW j \in 1..K, k = L + j
          PROVE  /\ all[k] \in Ids(M) \ {0}
                 /\ Contains(root.span, NodeAt(M, all[k]).span)
                 /\ (IF k = 1 THEN root.span.begin ELSE NodeAt(M, all[k - 1]).span.end)
                      <= NodeAt(M, all[k]).span.begin
      BY <2>5, <2>7, <3>1, <3>4
    <3> QED
      BY <3>1, <3>2, <3>3, <3>4
  <2> QED
    BY <1>5, <2>2, <2>8 DEF InOrder
<1> QED
  BY <1>1, <1>2, <1>3, <1>4, <1>5, NodesOfMerge

(* The regions of a merge are in order, and nothing reaches beyond the     *)
(* region merged last.                                                     *)
LEMMA MergeKeepsRegions ==
  ASSUME NEW T, NEW M, NEW d, NEW a, NEW r, NEW e, Mergeable(T, M, d, a, r, e)
  PROVE  ValidRegions(T, M) /\ EndsBy(M, r.span.end)
<1>1. PICK G, n : G = d.regions /\ n = Len(d.regions)
  OBVIOUS
<1>2. /\ M.regions = Append(G, r) /\ ValidRegions(T, d) /\ EndsBy(d, e)
      /\ IsSpan(r.span) /\ ValidSpan(T, r.span) /\ IsAnalysis(d) /\ IsAnalysis(M)
      /\ r.language # "" /\ r.confidence \in 0..100
      /\ e \in Nat /\ e <= r.span.begin
  BY <1>1 DEF Mergeable, Merged, ValidAnalysis
<1>3. /\ G \in Seq(Range(G)) /\ n \in Nat /\ n = Len(G) /\ DOMAIN G = 1..n
      /\ \A k \in 1..n : IsSpan(G[k].span)
  BY <1>1, <1>2, SequenceFacts DEF IsAnalysis, IsRegion
<1>4. PICK R : R = Append(G, r)
  OBVIOUS
<1>5. /\ DOMAIN R = 1..(n + 1) /\ R[n + 1] = r
      /\ \A k \in 1..n : R[k] = G[k]
  BY <1>3, <1>4
<1>6. /\ \A k \in 1..n : G[k].span.end <= e
      /\ \A k \in 1..n :
           /\ ValidSpan(T, G[k].span)
           /\ (IF k = 1 THEN 0 ELSE G[k - 1].span.end) <= G[k].span.begin
           /\ G[k].language # "" /\ G[k].confidence \in 0..100
  BY <1>1, <1>2, <1>3 DEF EndsBy, ValidRegions
<1>7. PICK b, f : b = r.span.begin /\ f = r.span.end
  OBVIOUS
<1>0. b \in Nat /\ f \in Nat /\ b <= f /\ e \in Nat /\ e <= b
  BY <1>2, <1>7 DEF IsSpan
<1>8. ASSUME NEW k \in 1..(n + 1)
      PROVE  /\ ValidSpan(T, R[k].span)
             /\ (IF k = 1 THEN 0 ELSE R[k - 1].span.end) <= R[k].span.begin
             /\ R[k].language # "" /\ R[k].confidence \in 0..100
             /\ R[k].span.end <= r.span.end
  <2>1. CASE k \in 1..n
    <3>1. R[k] = G[k] /\ (k # 1 => k - 1 \in 1..n /\ R[k - 1] = G[k - 1])
      BY <1>3, <1>5, <2>1
    <3>2. PICK x : x = G[k].span.end
      OBVIOUS
    <3>3. x <= f
      <4>1. x <= e /\ x \in Nat
        BY <1>3, <1>6, <2>1, <3>2 DEF IsSpan
      <4> QED
        BY <1>0, <4>1
    <3>4. /\ ValidSpan(T, G[k].span)
          /\ (IF k = 1 THEN 0 ELSE G[k - 1].span.end) <= G[k].span.begin
          /\ G[k].language # "" /\ G[k].confidence \in 0..100
      BY <1>6, <2>1
    <3>5. R[k].span.end <= r.span.end
      BY <1>7, <3>1, <3>2, <3>3
    <3>6. (IF k = 1 THEN 0 ELSE R[k - 1].span.end) <= R[k].span.begin
      BY <3>1, <3>4
    <3> QED
      BY <3>1, <3>4, <3>5, <3>6
  <2>2. CASE k = n + 1
    <3>1. R[k] = r /\ (k # 1 => k - 1 \in 1..n /\ R[k - 1] = G[k - 1])
      BY <1>3, <1>5, <2>2
    <3>2. PICK x : x = IF k = 1 THEN 0 ELSE R[k - 1].span.end
      OBVIOUS
    <3>3. x <= b
      <4>1. CASE k = 1
        BY <1>0, <3>2, <4>1
      <4>2. CASE k # 1
        <5>1. k - 1 \in 1..n /\ x = G[k - 1].span.end
          BY <3>1, <3>2, <4>2
        <5>2. x <= e /\ x \in Nat
          BY <1>3, <1>6, <5>1 DEF IsSpan
        <5> QED
          BY <1>0, <5>2
      <4> QED
        BY <4>1, <4>2
    <3>4. f <= f
      BY <1>0
    <3> QED
      BY <1>2, <1>7, <3>1, <3>2, <3>3, <3>4
  <2>3. k \in 1..n \/ k = n + 1
    BY <1>3
  <2> QED
    BY <2>1, <2>2, <2>3
<1>9. ValidRegions(T, M)
  BY <1>2, <1>4, <1>5, <1>8 DEF ValidRegions
<1>10. PICK old, new, all, s, L, K : RootLists(M, d, a, old, new, all, s, L, K)
  BY RootChildren, Zenon
<1>11. ASSUME NEW k \in DOMAIN all PROVE NodeAt(M, all[k]).span.end <= r.span.end
  <2>1. /\ DOMAIN all = 1..(L + K) /\ L \in Nat /\ K \in Nat /\ s = Len(d.nodes) - 1
        /\ old = NodeAt(d, 0).children /\ DOMAIN old = 1..L
        /\ \A j \in 1..L : all[j] = old[j] /\ old[j] \in Ids(d) \ {0}
        /\ \A j \in 1..K : all[L + j] = new[j] + s /\ new[j] \in Ids(a) \ {0}
    BY <1>10 DEF RootLists
  <2>2. k \in 1..L \/ \E j \in 1..K : k = L + j
    <3>1. k \in Int /\ 1 <= k /\ k <= L + K /\ L \in Int /\ K \in Int
      BY <2>1
    <3>2. k > L => k - L \in 1..K /\ k = L + (k - L)
      BY <3>1
    <3> QED
      BY <3>1, <3>2
  <2>3. CASE k \in 1..L
    <3>1. all[k] = old[k] /\ old[k] \in Ids(d) \ {0}
      BY <2>1, <2>3
    <3>2. NodeAt(M, all[k]) = NodeAt(d, old[k])
      BY <3>1, OldChildrenStay
    <3>3. NodeAt(d, old[k]).span.end <= e
      BY <1>2, <2>1, <2>3 DEF EndsBy
    <3>4. IsSpan(NodeAt(d, old[k]).span)
      BY <1>2, <3>1, ChildrenAreTyped
    <3> QED
      <4>1. PICK x : x = NodeAt(d, old[k]).span.end
        OBVIOUS
      <4>2. x \in Nat /\ x <= e
        BY <3>3, <3>4, <4>1 DEF IsSpan
      <4>3. x <= f
        BY <1>0, <4>2
      <4> QED
        BY <1>7, <3>2, <4>1, <4>3
  <2>4. ASSUME NEW j \in 1..K, k = L + j
        PROVE  NodeAt(M, all[k]).span.end <= r.span.end
    <3>1. PICK c : c = new[j]
      OBVIOUS
    <3>2. c \in Ids(a) \ {0} /\ all[k] = c + s
      BY <2>1, <2>4, <3>1
    <3>3. Contains(r.span, NodeAt(M, c + s).span)
      BY <2>1, <3>2, NewChildrenMove
    <3> QED
      BY <3>2, <3>3 DEF Contains
  <2> QED
    BY <2>2, <2>3, <2>4
<1>12. all = NodeAt(M, 0).children
  BY <1>10 DEF RootLists
<1>13. EndsBy(M, r.span.end)
  BY <1>2, <1>4, <1>5, <1>8, <1>11, <1>12 DEF EndsBy
<1> QED
  BY <1>9, <1>13

-----------------------------------------------------------------------------
(* Every node has one parent. *)

(* Place k among the children of node i of analysis x holds node c.        *)
ListsChild(x, c, i, k) ==
  i \in Ids(x) /\ k \in DOMAIN NodeAt(x, i).children /\ NodeAt(x, i).children[k] = c

(* The places of a node as the pairs that hold it                          *)
LEMMA SlotsAreHolders ==
  ASSUME NEW x, NEW c
  PROVE  \A i, k : <<i, k>> \in ParentSlots(x, c) <=> ListsChild(x, c, i, k)
BY DEF ParentSlots, ListsChild

(* One place per node, said of the pairs                                   *)
OneHolder(x, c) ==
  /\ \E i, k : ListsChild(x, c, i, k)
  /\ \A i, k, j, l : ListsChild(x, c, i, k) /\ ListsChild(x, c, j, l) => i = j /\ k = l

(* The validator's check of parents says that each node has one holder.    *)
LEMMA SingleParentIsOneHolder ==
  ASSUME NEW x
  PROVE  SingleParent(x) <=> \A c \in Ids(x) \ {0} : OneHolder(x, c)
<1> SUFFICES ASSUME NEW c
             PROVE  (\E p \in ParentSlots(x, c) : ParentSlots(x, c) = {p}) <=> OneHolder(x, c)
  BY DEF SingleParent
<1>1. \A p \in ParentSlots(x, c) : \E i, k : p = <<i, k>>
  BY DEF ParentSlots
<1>2. PICK P : P = ParentSlots(x, c)
  OBVIOUS
<1>3. \A i, k : <<i, k>> \in P <=> ListsChild(x, c, i, k)
  BY <1>2, SlotsAreHolders
<1>4. ASSUME NEW p \in P, P = {p} PROVE OneHolder(x, c)
  <2>1. PICK i, k : p = <<i, k>>
    BY <1>1, <1>2
  <2>2. ListsChild(x, c, i, k)
    BY <1>3, <2>1
  <2>3. ASSUME NEW j, NEW l, ListsChild(x, c, j, l) PROVE j = i /\ l = k
    BY <1>3, <1>4, <2>1, <2>3
  <2> QED
    BY <2>2, <2>3 DEF OneHolder
<1>5. ASSUME OneHolder(x, c) PROVE \E p \in P : P = {p}
  <2>1. PICK i, k : ListsChild(x, c, i, k)
    BY <1>5 DEF OneHolder
  <2>2. <<i, k>> \in P
    BY <1>3, <2>1
  <2>3. ASSUME NEW p \in P PROVE p = <<i, k>>
    <3>1. PICK j, l : p = <<j, l>>
      BY <1>1, <1>2
    <3>2. ListsChild(x, c, j, l)
      BY <1>3, <3>1
    <3> QED
      BY <1>5, <2>1, <3>1, <3>2 DEF OneHolder
  <2> QED
    BY <2>2, <2>3
<1> QED
  BY <1>2, <1>4, <1>5

(* Pair <<i, k>> of the merge is pair <<j, l>> of the region's analysis.   *)
MovedPlace(s, L, i, k, j, l) ==
  IF j = 0 THEN i = 0 /\ k = L + l ELSE i = s + j /\ k = l

(* Who holds a node of a merge: its parent of before                       *)
HoldersMove(M, d, a, s, L) ==
  \A c, i, k :
    ListsChild(M, c, i, k) =>
      \/ ListsChild(d, c, i, k)
      \/ \E b, j, l : c = b + s /\ ListsChild(a, b, j, l) /\ MovedPlace(s, L, i, k, j, l)

HoldersStay(M, d) == \A c, i, k : ListsChild(d, c, i, k) => ListsChild(M, c, i, k)

HoldersArrive(M, a, s, L) ==
  \A b, j, l : ListsChild(a, b, j, l) =>
    \E i, k : MovedPlace(s, L, i, k, j, l) /\ ListsChild(M, b + s, i, k)

(* The merge keeps the holders the document's nodes have, and moves those  *)
(* of the region's nodes along with them.                                  *)
LEMMA HoldersOfMerge ==
  ASSUME NEW T, NEW M, NEW d, NEW a, NEW r, NEW e, Mergeable(T, M, d, a, r, e)
  PROVE  \E s, L : /\ s = Len(d.nodes) - 1 /\ s \in Nat /\ L \in Nat
                   /\ HoldersMove(M, d, a, s, L)
                   /\ HoldersStay(M, d)
                   /\ HoldersArrive(M, a, s, L)
<1>1. PICK old, new, all, s, L, K : RootLists(M, d, a, old, new, all, s, L, K)
  BY RootChildren, Zenon
<1>2. /\ old = NodeAt(d, 0).children /\ new = NodeAt(a, 0).children
      /\ all = NodeAt(M, 0).children /\ s = Len(d.nodes) - 1
      /\ L \in Nat /\ K \in Nat
      /\ DOMAIN old = 1..L /\ DOMAIN new = 1..K /\ DOMAIN all = 1..(L + K)
      /\ \A k \in 1..L : all[k] = old[k] /\ old[k] \in Ids(d) \ {0}
      /\ \A k \in 1..K : all[L + k] = new[k] + s /\ new[k] \in Ids(a) \ {0}
  BY <1>1 DEF RootLists
<1>3. /\ Merged(M, d, a, r) /\ IsAnalysis(a)
  BY DEF Mergeable
<1>4. PICK n, l : n = Len(a.nodes) /\ l = Len(d.nodes)
  OBVIOUS
<1>5. s \in Nat /\ n \in Nat \ {0} /\ l \in Nat /\ l = s + 1 /\ Len(M.nodes) = s + n
  BY <1>2, <1>3, <1>4 DEF Merged
<1>6. /\ Ids(d) = 0..s /\ Ids(a) = 0..(n - 1) /\ Ids(M) = 0..(s + n - 1)
      /\ 0 \in Ids(d) /\ 0 \in Ids(a) /\ 0 \in Ids(M)
  BY <1>4, <1>5 DEF Ids
<1>7. /\ \A i \in 1..s : NodeAt(M, i) = NodeAt(d, i)
      /\ \A j \in 1..(n - 1) : NodeAt(M, s + j).children = ShiftIds(NodeAt(a, j).children, s)
  BY <1>2, <1>3, <1>4 DEF Merged
<1>8. ASSUME NEW j \in 1..(n - 1)
      PROVE  /\ DOMAIN NodeAt(M, s + j).children = DOMAIN NodeAt(a, j).children
             /\ \A k \in DOMAIN NodeAt(a, j).children :
                  NodeAt(M, s + j).children[k] = NodeAt(a, j).children[k] + s
  BY <1>7 DEF ShiftIds
<1>9. ASSUME NEW c, NEW i, NEW k, ListsChild(M, c, i, k)
      PROVE  \/ ListsChild(d, c, i, k)
             \/ \E b, j, m : c = b + s /\ ListsChild(a, b, j, m) /\ MovedPlace(s, L, i, k, j, m)
  <2>1. \/ i = 0
        \/ i \in 1..s /\ i \in Ids(d)
        \/ \E j \in 1..(n - 1) : j \in Ids(a) /\ i = s + j
    BY <1>2, <1>3, <1>4, <1>9, NodesOfMerge DEF ListsChild
  <2>2. CASE i = 0
    <3>1. k \in 1..(L + K) /\ all[k] = c
      BY <1>2, <1>9, <2>2 DEF ListsChild
    <3>2. k \in 1..L \/ \E m \in 1..K : k = L + m
      <4>1. k \in Int /\ 1 <= k /\ k <= L + K /\ L \in Int /\ K \in Int
        BY <1>2, <3>1
      <4>2. k > L => k - L \in 1..K /\ k = L + (k - L)
        BY <4>1
      <4> QED
        BY <4>1, <4>2
    <3>3. CASE k \in 1..L
      BY <1>2, <1>6, <2>2, <3>1, <3>3 DEF ListsChild
    <3>4. ASSUME NEW m \in 1..K, k = L + m
          PROVE  \E b : c = b + s /\ ListsChild(a, b, 0, m) /\ MovedPlace(s, L, i, k, 0, m)
      <4>1. c = new[m] + s
        BY <1>2, <3>1, <3>4
      <4>2. ListsChild(a, new[m], 0, m)
        BY <1>2, <1>6 DEF ListsChild
      <4>3. MovedPlace(s, L, i, k, 0, m)
        BY <2>2, <3>4 DEF MovedPlace
      <4> QED
        BY <4>1, <4>2, <4>3
    <3> QED
      BY <3>2, <3>3, <3>4
  <2>3. CASE i \in 1..s /\ i \in Ids(d)
    BY <1>7, <1>9, <2>3 DEF ListsChild
  <2>4. ASSUME NEW j \in 1..(n - 1), j \in Ids(a), i = s + j
        PROVE  \E b : c = b + s /\ ListsChild(a, b, j, k) /\ MovedPlace(s, L, i, k, j, k)
    <3>1. k \in DOMAIN NodeAt(a, j).children /\ c = NodeAt(a, j).children[k] + s
      BY <1>8, <1>9, <2>4 DEF ListsChild
    <3>2. ListsChild(a, NodeAt(a, j).children[k], j, k)
      BY <2>4, <3>1 DEF ListsChild
    <3>3. MovedPlace(s, L, i, k, j, k)
      <4>1. j # 0
        BY <1>5
      <4> QED
        BY <2>4, <4>1 DEF MovedPlace
    <3> QED
      BY <3>1, <3>2, <3>3
  <2> QED
    BY <2>1, <2>2, <2>3, <2>4
<1>10. ASSUME NEW c, NEW i, NEW k, ListsChild(d, c, i, k) PROVE ListsChild(M, c, i, k)
  <2>1. i \in 0..s /\ i \in 0..(s + n - 1)
    BY <1>5, <1>6, <1>10 DEF ListsChild
  <2>2. CASE i = 0
    <3>1. k \in 1..L /\ old[k] = c
      BY <1>2, <1>10, <2>2 DEF ListsChild
    <3>2. k \in 1..(L + K) /\ all[k] = c
      BY <1>2, <3>1
    <3> QED
      BY <1>2, <1>6, <2>2, <3>2 DEF ListsChild
  <2>3. CASE i \in 1..s
    BY <1>6, <1>7, <1>10, <2>1, <2>3 DEF ListsChild
  <2> QED
    BY <1>5, <2>1, <2>2, <2>3
<1>11. ASSUME NEW b, NEW j, NEW m, ListsChild(a, b, j, m)
       PROVE  \E i, k : MovedPlace(s, L, i, k, j, m) /\ ListsChild(M, b + s, i, k)
  <2>1. j \in 0..(n - 1)
    BY <1>6, <1>11 DEF ListsChild
  <2>2. CASE j = 0
    <3>1. m \in 1..K /\ new[m] = b
      BY <1>2, <1>11, <2>2 DEF ListsChild
    <3>2. L + m \in 1..(L + K) /\ all[L + m] = b + s
      BY <1>2, <3>1
    <3>3. ListsChild(M, b + s, 0, L + m)
      BY <1>2, <1>6, <3>2 DEF ListsChild
    <3>4. MovedPlace(s, L, 0, L + m, j, m)
      BY <2>2 DEF MovedPlace
    <3> QED
      BY <3>3, <3>4
  <2>3. CASE j \in 1..(n - 1)
    <3>1. s + j \in 0..(s + n - 1) /\ j # 0
      BY <1>5, <2>3
    <3>2. m \in DOMAIN NodeAt(a, j).children /\ b = NodeAt(a, j).children[m]
      BY <1>11 DEF ListsChild
    <3>3. ListsChild(M, b + s, s + j, m)
      BY <1>6, <1>8, <2>3, <3>1, <3>2 DEF ListsChild
    <3>4. MovedPlace(s, L, s + j, m, j, m)
      BY <3>1 DEF MovedPlace
    <3> QED
      BY <3>3, <3>4
  <2> QED
    BY <1>5, <2>1, <2>2, <2>3
<1>12. HoldersMove(M, d, a, s, L) /\ HoldersStay(M, d) /\ HoldersArrive(M, a, s, L)
  BY <1>9, <1>10, <1>11 DEF HoldersMove, HoldersStay, HoldersArrive
<1> QED
  BY <1>2, <1>5, <1>12, Zenon

(* What is held as a child is a node below the root.                       *)
LEMMA HeldIsANode ==
  ASSUME NEW x, OrderedChildren(x), NEW c, NEW i, NEW k, ListsChild(x, c, i, k)
  PROVE  c \in Ids(x) \ {0} /\ i \in Ids(x)
BY DEF OrderedChildren, ListsChild

(* Every node of a merge has one parent.                                   *)
LEMMA MergeKeepsParents ==
  ASSUME NEW T, NEW M, NEW d, NEW a, NEW r, NEW e, Mergeable(T, M, d, a, r, e)
  PROVE  SingleParent(M)
<1>1. PICK s, L : /\ s = Len(d.nodes) - 1 /\ s \in Nat /\ L \in Nat
                  /\ HoldersMove(M, d, a, s, L)
                  /\ HoldersStay(M, d)
                  /\ HoldersArrive(M, a, s, L)
  BY HoldersOfMerge, Zenon
<1>2. /\ Merged(M, d, a, r) /\ OrderedChildren(d) /\ OrderedChildren(a)
      /\ SingleParent(d) /\ SingleParent(a)
  BY DEF Mergeable, ValidAnalysis
<1>3. PICK n, l : n = Len(a.nodes) /\ l = Len(d.nodes)
  OBVIOUS
<1>4. n \in Nat \ {0} /\ l \in Nat /\ l = s + 1 /\ Len(M.nodes) = s + n
  BY <1>1, <1>2, <1>3 DEF Merged
<1>5. Ids(d) = 0..s /\ Ids(a) = 0..(n - 1) /\ Ids(M) = 0..(s + n - 1)
  BY <1>1, <1>3, <1>4 DEF Ids
<1>6. ASSUME NEW c \in Ids(d) \ {0} PROVE OneHolder(M, c)
  <2>1. OneHolder(d, c)
    BY <1>2, SingleParentIsOneHolder
  <2>2. ASSUME NEW i, NEW k, ListsChild(M, c, i, k) PROVE ListsChild(d, c, i, k)
    <3>1. ASSUME NEW b, NEW j, NEW m, c = b + s, ListsChild(a, b, j, m) PROVE FALSE
      <4>1. b \in Ids(a) \ {0}
        BY <1>2, <3>1, HeldIsANode
      <4>2. b \in Int /\ b > 0 /\ c <= s
        BY <1>1, <1>4, <1>5, <4>1
      <4> QED
        BY <1>1, <3>1, <4>2
    <3> QED
      BY <1>1, <2>2, <3>1 DEF HoldersMove
  <2>3. \A i, k : ListsChild(d, c, i, k) => ListsChild(M, c, i, k)
    BY <1>1 DEF HoldersStay
  <2> QED
    BY <2>1, <2>2, <2>3 DEF OneHolder
<1>7. ASSUME NEW b \in Ids(a) \ {0} PROVE OneHolder(M, b + s)
  <2>1. OneHolder(a, b)
    BY <1>2, SingleParentIsOneHolder
  <2>2. PICK c : c = b + s
    OBVIOUS
  <2>3. b \in Int /\ c \in Int /\ c > s
    BY <1>1, <1>4, <1>5, <2>2
  <2>4. ASSUME NEW i, NEW k, ListsChild(M, c, i, k)
        PROVE  \E j, m : ListsChild(a, b, j, m) /\ MovedPlace(s, L, i, k, j, m)
    <3>1. ~ListsChild(d, c, i, k)
      <4>1. ListsChild(d, c, i, k) => c \in 0..s
        BY <1>2, <1>5, HeldIsANode
      <4> QED
        BY <1>1, <2>3, <4>1
    <3>2. PICK b1, j, m : c = b1 + s /\ ListsChild(a, b1, j, m) /\ MovedPlace(s, L, i, k, j, m)
      BY <1>1, <2>4, <3>1 DEF HoldersMove
    <3>3. b1 = b
      <4>1. b1 \in 0..(n - 1)
        BY <1>2, <1>5, <3>2, HeldIsANode
      <4> QED
        BY <1>1, <1>4, <2>2, <2>3, <3>2, <4>1
    <3> QED
      BY <3>2, <3>3
  <2>5. \E i, k : ListsChild(M, c, i, k)
    BY <1>1, <2>1, <2>2 DEF OneHolder, HoldersArrive
  <2>6. ASSUME NEW i, NEW k, NEW i2, NEW k2, ListsChild(M, c, i, k), ListsChild(M, c, i2, k2)
        PROVE  i = i2 /\ k = k2
    <3>1. PICK j, m : ListsChild(a, b, j, m) /\ MovedPlace(s, L, i, k, j, m)
      BY <2>4, <2>6
    <3>2. PICK j2, m2 : ListsChild(a, b, j2, m2) /\ MovedPlace(s, L, i2, k2, j2, m2)
      BY <2>4, <2>6
    <3>3. j = j2 /\ m = m2
      BY <2>1, <3>1, <3>2 DEF OneHolder
    <3> QED
      BY <3>1, <3>2, <3>3 DEF MovedPlace
  <2> QED
    BY <2>2, <2>5, <2>6 DEF OneHolder
<1>8. ASSUME NEW c \in Ids(M) \ {0} PROVE OneHolder(M, c)
  <2>1. c \in Int /\ 1 <= c /\ c <= s + n - 1 /\ s \in Int /\ n \in Int
    BY <1>1, <1>4, <1>5
  <2>2. CASE c <= s
    <3>1. c \in Ids(d) \ {0}
      BY <1>1, <1>5, <2>1, <2>2
    <3> QED
      BY <1>6, <3>1
  <2>3. CASE c > s
    <3>1. PICK b : b = c - s
      OBVIOUS
    <3>2. b \in Ids(a) \ {0} /\ b + s = c
      BY <1>1, <1>4, <1>5, <2>1, <2>3, <3>1
    <3> QED
      BY <1>7, <3>2
  <2> QED
    BY <2>1, <2>2, <2>3
<1> QED
  BY <1>8, SingleParentIsOneHolder

(* The levels of the traversal from the root                               *)
Levels(x, R, n) ==
  /\ n = Len(x.nodes) /\ R \in [0..n -> SUBSET Ids(x)]
  /\ R[0] = {0} /\ R[n] = Reached(x)
  /\ \A k \in 1..n : R[k] = R[k - 1] \cup ChildrenOf(x, R[k - 1])

(* The traversal of an analysis whose children exist has levels.           *)
LEMMA LevelsExist ==
  ASSUME NEW x, OrderedChildren(x), Len(x.nodes) \in Nat \ {0}
  PROVE  \E R, n : Levels(x, R, n)
<1>1. PICK N, D : N = Len(x.nodes) /\ D = SUBSET Ids(x)
  OBVIOUS
<1> DEFINE iter == CHOOSE g : g = [n \in 0..N |-> IF n = 0 THEN {0}
                                     ELSE g[n - 1] \cup ChildrenOf(x, g[n - 1])]
<1>2. Reached(x) = iter[N]
  BY <1>1 DEF Reached
<1>3. {0} \in D /\ N \in Nat \ {0}
  BY <1>1 DEF Ids
<1>4. ASSUME NEW S \in D PROVE S \cup ChildrenOf(x, S) \in D
  <2>1. ASSUME NEW c \in ChildrenOf(x, S) PROVE c \in Ids(x)
    <3>1. PICK i \in S : c \in Range(NodeAt(x, i).children)
      BY <2>1 DEF ChildrenOf
    <3>2. PICK k \in DOMAIN NodeAt(x, i).children : c = NodeAt(x, i).children[k]
      BY <3>1 DEF Range
    <3> QED
      BY <1>1, <3>2 DEF OrderedChildren
  <2> QED
    BY <1>1, <2>1
<1>5. PICK step : step = [n \in Nat |-> [S \in D |-> S \cup ChildrenOf(x, S)]]
  OBVIOUS
<1>6. step \in [Nat -> [D -> D]]
  BY <1>4, <1>5
<1>7. PICK g \in [0..N -> D] : g[0] = {0} /\ \A n \in 1..N : g[n] = step[n][g[n - 1]]
  <2>1. PICK start : start = {0} /\ start \in D
    BY <1>3
  <2>2. N \in Nat
    BY <1>3
  <2>3. \E g : Steps(g, D, start, step, N)
    BY <1>6, <2>1, <2>2, StepByStep
  <2> QED
    BY <2>1, <2>3 DEF Steps
<1>8. ASSUME NEW n \in 1..N PROVE g[n] = g[n - 1] \cup ChildrenOf(x, g[n - 1])
  <2>1. n \in Nat /\ g[n - 1] \in D
    BY <1>3, <1>7
  <2> QED
    BY <1>5, <1>7, <2>1
<1>9. g = [n \in 0..N |-> IF n = 0 THEN {0} ELSE g[n - 1] \cup ChildrenOf(x, g[n - 1])]
  BY <1>3, <1>7, <1>8
<1>10. iter = [n \in 0..N |-> IF n = 0 THEN {0}
                              ELSE iter[n - 1] \cup ChildrenOf(x, iter[n - 1])]
  BY <1>9
<1> HIDE DEF iter
<1>11. PICK R : R = iter
  OBVIOUS
<1>12. R[0] = {0} /\ \A k \in 1..N : R[k] = R[k - 1] \cup ChildrenOf(x, R[k - 1])
  <2>1. /\ 0 \in 0..N
        /\ \A k \in 1..N : k \in 0..N /\ k # 0
    BY <1>3
  <2> QED
    BY <1>10, <1>11, <2>1
<1>13. PICK P : P = {n \in Nat : n <= N => R[n] \in D}
  OBVIOUS
<1>14. \A n \in Nat : n \in P
  <2>1. 0 \in P
    BY <1>3, <1>12, <1>13
  <2>2. ASSUME NEW n \in Nat, n \in P PROVE n + 1 \in P
    <3>1. ASSUME n + 1 <= N PROVE R[n + 1] \in D
      <4>1. R[n] \in D
        BY <1>3, <1>13, <2>2, <3>1
      <4>2. n + 1 \in 1..N /\ (n + 1) - 1 = n
        BY <1>3, <3>1
      <4> QED
        BY <1>4, <1>12, <4>1, <4>2
    <3> QED
      BY <1>13, <3>1
  <2> QED
    BY <2>1, <2>2, SetInduction
<1>15. R \in [0..N -> D]
  <2>1. ASSUME NEW n \in 0..N PROVE R[n] \in D
    <3>1. n \in Nat /\ n <= N
      BY <1>3
    <3> QED
      BY <1>13, <1>14, <3>1
  <2>2. R = [n \in 0..N |-> R[n]]
    BY <1>10, <1>11
  <2> QED
    BY <2>1, <2>2
<1>16. R[N] = Reached(x)
  BY <1>2, <1>11
<1>17. N = Len(x.nodes) /\ R \in [0..N -> SUBSET Ids(x)]
  BY <1>1, <1>15
<1>18. Levels(x, R, N)
  BY <1>12, <1>16, <1>17 DEF Levels
<1> QED
  BY <1>18

(* Levels only grow.                                                       *)
LEMMA LevelsGrow ==
  ASSUME NEW x, NEW R, NEW n \in Nat, Levels(x, R, n), NEW k \in 0..n
  PROVE  R[k] \subseteq R[n] /\ 0 \in R[n]
<1>1. /\ R[0] = {0}
      /\ \A j \in 1..n : R[j] = R[j - 1] \cup ChildrenOf(x, R[j - 1])
  BY DEF Levels
<1>2. PICK P : P = {m \in Nat : \A j \in 0..n : j + m <= n => R[j] \subseteq R[j + m]}
  OBVIOUS
<1>3. 0 \in P
  BY <1>2
<1>4. ASSUME NEW m \in Nat, m \in P PROVE m + 1 \in P
  <2>1. ASSUME NEW j \in 0..n, j + (m + 1) <= n PROVE R[j] \subseteq R[j + (m + 1)]
    <3>1. R[j] \subseteq R[j + m]
      BY <1>2, <1>4, <2>1
    <3>2. j + (m + 1) \in 1..n /\ (j + (m + 1)) - 1 = j + m
      BY <2>1
    <3> QED
      BY <1>1, <3>1, <3>2
  <2> QED
    BY <1>2, <2>1
<1>5. \A m \in Nat : m \in P
  BY <1>3, <1>4, SetInduction
<1>6. ASSUME NEW j \in 0..n PROVE R[j] \subseteq R[n]
  <2>1. PICK m : m = n - j
    OBVIOUS
  <2>2. m \in Nat /\ j + m = n /\ j + m <= n
    BY <2>1
  <2> QED
    BY <1>2, <1>5, <2>2
<1> QED
  BY <1>1, <1>6

(* The children of some nodes are what these nodes hold.                   *)
LEMMA ChildrenAreHeld ==
  ASSUME NEW x, NEW S \in SUBSET Ids(x), NEW c
  PROVE  c \in ChildrenOf(x, S) <=> \E i \in S : \E k : ListsChild(x, c, i, k)
<1>1. c \in ChildrenOf(x, S) <=> \E i \in S : c \in Range(NodeAt(x, i).children)
  BY DEF ChildrenOf
<1>2. ASSUME NEW i \in S
      PROVE  c \in Range(NodeAt(x, i).children) <=> \E k : ListsChild(x, c, i, k)
  BY DEF Range, ListsChild
<1> QED
  BY <1>1, <1>2

(* A level reaches what a level before it holds.                           *)
LEMMA LevelsReachChildren ==
  ASSUME NEW x, NEW R, NEW n, Levels(x, R, n), NEW k \in Nat, n \in Nat, k + 1 <= n
  PROVE  /\ \A c \in R[k + 1] : c \in R[k] \/ \E i \in R[k] : \E p : ListsChild(x, c, i, p)
         /\ \A c, i, p : i \in R[k] /\ ListsChild(x, c, i, p) => c \in R[k + 1]
         /\ R[k] \subseteq R[k + 1]
<1>1. PICK S, U : S = R[k] /\ U = R[k + 1]
  OBVIOUS
<1>2. U = S \cup ChildrenOf(x, S)
  <2>1. k + 1 \in 1..n /\ (k + 1) - 1 = k
    OBVIOUS
  <2> QED
    BY <1>1, <2>1 DEF Levels
<1>3. S \in SUBSET Ids(x)
  <2>1. k \in 0..n
    OBVIOUS
  <2> QED
    BY <1>1, <2>1 DEF Levels
<1>4. \A c : c \in ChildrenOf(x, S) <=> \E i \in S : \E p : ListsChild(x, c, i, p)
  BY <1>3, ChildrenAreHeld
<1> QED
  BY <1>1, <1>2, <1>4

(* The traversal of a merge reaches every node.                            *)
LEMMA MergeIsConnected ==
  ASSUME NEW T, NEW M, NEW d, NEW a, NEW r, NEW e, Mergeable(T, M, d, a, r, e)
  PROVE  Connected(M)
<1>1. PICK s, L : /\ s = Len(d.nodes) - 1 /\ s \in Nat /\ L \in Nat
                  /\ HoldersMove(M, d, a, s, L)
                  /\ HoldersStay(M, d)
                  /\ HoldersArrive(M, a, s, L)
  BY HoldersOfMerge, Zenon
<1>2. /\ Merged(M, d, a, r) /\ OrderedChildren(d) /\ OrderedChildren(a) /\ OrderedChildren(M)
      /\ Connected(d) /\ Connected(a)
  BY MergeKeepsOrder DEF Mergeable, ValidAnalysis
<1>3. PICK n, l, m : n = Len(a.nodes) /\ l = Len(d.nodes) /\ m = Len(M.nodes)
  OBVIOUS
<1>4. /\ n \in Nat \ {0} /\ l \in Nat \ {0} /\ m \in Nat \ {0}
      /\ l = s + 1 /\ m = s + n /\ l <= m /\ n <= m
  <2>1. n \in Nat \ {0} /\ l \in Nat \ {0} /\ s = l - 1 /\ m = s + n
    BY <1>1, <1>2, <1>3 DEF Merged
  <2> QED
    BY <1>1, <2>1
<1>5. Ids(d) = 0..s /\ Ids(a) = 0..(n - 1) /\ Ids(M) = 0..(s + n - 1)
  BY <1>1, <1>3, <1>4 DEF Ids
<1>6. PICK D : Levels(d, D, l)
  <2>1. \E R, k : Levels(d, R, k)
    BY <1>2, <1>3, <1>4, LevelsExist
  <2> QED
    BY <1>3, <2>1 DEF Levels
<1>7. PICK A : Levels(a, A, n)
  <2>1. \E R, k : Levels(a, R, k)
    BY <1>2, <1>3, <1>4, LevelsExist
  <2> QED
    BY <1>3, <2>1 DEF Levels
<1>8. PICK R : Levels(M, R, m)
  <2>1. \E Q, k : Levels(M, Q, k)
    BY <1>2, <1>3, <1>4, LevelsExist
  <2> QED
    BY <1>3, <2>1 DEF Levels
<1>9. D[0] = {0} /\ A[0] = {0} /\ R[0] = {0}
  BY <1>6, <1>7, <1>8 DEF Levels
<1>10. Ids(d) \subseteq D[l] /\ Ids(a) \subseteq A[n] /\ R[m] = Reached(M)
  BY <1>2, <1>6, <1>7, <1>8 DEF Levels, Connected
<1>11. PICK P : P = {k \in Nat : k <= l => D[k] \subseteq R[k]}
  OBVIOUS
<1>12. ASSUME NEW k \in Nat, k \in P PROVE k + 1 \in P
  <2> SUFFICES ASSUME k + 1 <= l, NEW c \in D[k + 1] PROVE c \in R[k + 1]
    BY <1>11
  <2>1. D[k] \subseteq R[k]
    BY <1>4, <1>11, <1>12
  <2>2. c \in D[k] \/ \E i \in D[k] : \E p : ListsChild(d, c, i, p)
    BY <1>4, <1>6, LevelsReachChildren
  <2>3. k + 1 <= m
    BY <1>4
  <2>4. /\ \A b, i, p : i \in R[k] /\ ListsChild(M, b, i, p) => b \in R[k + 1]
        /\ R[k] \subseteq R[k + 1]
    BY <1>4, <1>8, <2>3, LevelsReachChildren
  <2> QED
    BY <1>1, <2>1, <2>2, <2>4 DEF HoldersStay
<1>13. \A k \in Nat : k \in P
  BY <1>9, <1>11, <1>12, SetInduction
<1>14. Ids(d) \subseteq R[m]
  <2>1. D[l] \subseteq R[l]
    BY <1>4, <1>11, <1>13
  <2>2. R[l] \subseteq R[m]
    BY <1>4, <1>8, LevelsGrow
  <2> QED
    BY <1>10, <2>1, <2>2
<1>15. PICK Q : Q = {k \in Nat : k <= n =>
                      0 \in R[k] /\ \A j \in A[k] : j = 0 \/ j + s \in R[k]}
  OBVIOUS
<1>16. ASSUME NEW k \in Nat, k \in Q PROVE k + 1 \in Q
  <2> SUFFICES ASSUME k + 1 <= n
               PROVE  0 \in R[k + 1] /\ \A j \in A[k + 1] : j = 0 \/ j + s \in R[k + 1]
    BY <1>15
  <2>1. 0 \in R[k] /\ \A j \in A[k] : j = 0 \/ j + s \in R[k]
    BY <1>4, <1>15, <1>16
  <2>2. \A j \in A[k + 1] : j \in A[k] \/ \E i \in A[k] : \E p : ListsChild(a, j, i, p)
    BY <1>4, <1>7, LevelsReachChildren
  <2>3. k + 1 <= m
    BY <1>4
  <2>4. /\ \A b, i, p : i \in R[k] /\ ListsChild(M, b, i, p) => b \in R[k + 1]
        /\ R[k] \subseteq R[k + 1]
    BY <1>4, <1>8, <2>3, LevelsReachChildren
  <2>5. ASSUME NEW j \in A[k + 1], NEW i \in A[k], NEW p, ListsChild(a, j, i, p)
        PROVE  j + s \in R[k + 1]
    <3>1. PICK h, q : MovedPlace(s, L, h, q, i, p) /\ ListsChild(M, j + s, h, q)
      BY <1>1, <2>5 DEF HoldersArrive
    <3>2. h \in R[k]
      <4>1. CASE i = 0
        BY <2>1, <3>1, <4>1 DEF MovedPlace
      <4>2. CASE i # 0
        <5>1. i + s \in R[k]
          BY <2>1, <4>2
        <5>2. i \in Int
          <6>1. ListsChild(a, j, i, p) => i \in Ids(a)
            BY <1>2, HeldIsANode
          <6> QED
            BY <1>4, <1>5, <2>5, <6>1
        <5>3. h = s + i
          BY <3>1, <4>2 DEF MovedPlace
        <5>4. s + i = i + s
          BY <1>1, <5>2
        <5> QED
          BY <5>1, <5>3, <5>4
      <4> QED
        BY <4>1, <4>2
    <3> QED
      BY <2>4, <3>1, <3>2
  <2> QED
    BY <2>1, <2>2, <2>4, <2>5
<1>17. \A k \in Nat : k \in Q
  BY <1>9, <1>15, <1>16, SetInduction
<1>18. ASSUME NEW j \in 1..(n - 1) PROVE j + s \in R[m]
  <2>1. j \in A[n] /\ j # 0
    BY <1>4, <1>5, <1>10
  <2>2. j + s \in R[n]
    BY <1>4, <1>15, <1>17, <2>1
  <2>3. R[n] \subseteq R[m]
    BY <1>4, <1>8, LevelsGrow
  <2> QED
    BY <2>2, <2>3
<1>19. ASSUME NEW i \in Ids(M) PROVE i \in R[m]
  <2>1. CASE i \in 0..s
    BY <1>5, <1>14, <2>1
  <2>2. CASE i \notin 0..s
    <3>1. PICK j : j = i - s
      OBVIOUS
    <3>2. j \in 1..(n - 1) /\ j + s = i
      BY <1>1, <1>4, <1>5, <2>2, <3>1
    <3> QED
      BY <1>18, <3>2
  <2> QED
    BY <2>1, <2>2
<1> QED
  BY <1>10, <1>19 DEF Connected

-----------------------------------------------------------------------------
(* One iteration of analyze_explicit_regions keeps the document valid: its *)
(* analysis with the valid analysis of the next region merged into it is   *)
(* valid, typed, and ends where the region ends.                           *)
THEOREM MergeStaysValid ==
  ASSUME NEW T, NEW d, NEW a, NEW r, NEW e \in Nat,
         IsText(T), IsAnalysis(d), IsAnalysis(a),
         ValidAnalysis(T, d), ValidAnalysis(Slice(T, r.span), a),
         IsRegion(r), ValidSpan(T, r.span), r.language # "", r.confidence \in 0..100,
         EndsBy(d, e), e <= r.span.begin
  PROVE  /\ IsAnalysis(Merge(d, a, r))
         /\ ValidAnalysis(T, Merge(d, a, r))
         /\ EndsBy(Merge(d, a, r), r.span.end)
<1>1. PICK M : M = Merge(d, a, r)
  OBVIOUS
<1>2. d.nodes # <<>> /\ a.nodes # <<>>
  BY DEF ValidAnalysis, ValidRoot
<1>3. IsAnalysis(M) /\ Merged(M, d, a, r)
  BY <1>1, <1>2, MergeIsMerged
<1>4. Mergeable(T, M, d, a, r, e)
  BY <1>3 DEF Mergeable, IsRegion
<1>5. /\ ValidRoot(T, M) /\ DenseIds(M) /\ AlignedSpans(T, M) /\ UniqueFeatures(M)
      /\ OrderedChildren(M) /\ SingleParent(M) /\ Connected(M)
      /\ ValidRegions(T, M) /\ EndsBy(M, r.span.end)
  BY <1>4, MergeKeepsRoot, MergeKeepsIds, MergeKeepsSpans, MergeKeepsFeatures,
     MergeKeepsOrder, MergeKeepsParents, MergeIsConnected, MergeKeepsRegions
<1> QED
  BY <1>1, <1>3, <1>5 DEF ValidAnalysis

(* The document root the merge starts from is valid, typed, and ends where *)
(* the first region begins.                                                *)
LEMMA DocumentRootIsValid ==
  ASSUME NEW T, IsText(T)
  PROVE  /\ IsAnalysis(DocumentRoot(T))
         /\ ValidAnalysis(T, DocumentRoot(T))
         /\ EndsBy(DocumentRoot(T), 0)
<1>1. PICK d, root, count :
        /\ d = DocumentRoot(T) /\ root = NodeAt(d, 0)
        /\ count = Cardinality(T.breaks) - 1
  OBVIOUS
<1>2. count \in Int
  <2>1. IsFiniteSet(0..T.size)
    BY FS_Interval DEF IsText
  <2>2. IsFiniteSet(T.breaks)
    BY <2>1, FS_Subset DEF IsText
  <2> QED
    BY <1>1, <2>2, FS_CardinalityType
<1>3. PICK f : f = [id |-> "grapheme_count", value |-> count]
  OBVIOUS
<1>4. root = [id |-> 0, kind |-> "document", span |-> FullSpan(T), children |-> <<>>,
              features |-> <<f>>]
  BY <1>1, <1>3 DEF DocumentRoot, Node, NodeAt
<1>5. d = [nodes |-> <<root>>, regions |-> <<>>]
  BY <1>1, <1>3, <1>4 DEF DocumentRoot, Node
<1>6. Ids(d) = {0} /\ Len(d.nodes) = 1 /\ d.nodes # <<>>
  BY <1>5 DEF Ids
<1>7. IsNode(root)
  <2>1. IsSpan(FullSpan(T))
    BY DEF IsSpan, FullSpan, Span, IsText
  <2>2. Range(<<f>>) = {f} /\ <<f>> \in Seq({f}) /\ f.value \in Int
    BY <1>2, <1>3 DEF Range
  <2> QED
    BY <1>4, <2>1, <2>2 DEF IsNode
<1>8. IsAnalysis(d)
  <2>1. Range(<<root>>) = {root} /\ <<root>> \in Seq({root})
    BY DEF Range
  <2>2. /\ d.regions \in Seq(Range(d.regions)) /\ Range(d.regions) = {}
    BY <1>5 DEF Range
  <2> QED
    BY <1>5, <1>7, <2>1, <2>2 DEF IsAnalysis
<1>9. ValidRoot(T, d) /\ DenseIds(d)
  BY <1>1, <1>4, <1>6 DEF ValidRoot, DenseIds
<1>10. AlignedSpans(T, d)
  <2>1. ValidSpan(T, FullSpan(T))
    BY DEF ValidSpan, FullSpan, Span, IsText
  <2> QED
    BY <1>1, <1>4, <1>6, <2>1 DEF AlignedSpans
<1>11. UniqueFeatures(d)
  BY <1>1, <1>4, <1>6 DEF UniqueFeatures
<1>12. root.children = <<>> /\ DOMAIN root.children = {}
  BY <1>4
<1>13. OrderedChildren(d)
  BY <1>1, <1>6, <1>12 DEF OrderedChildren
<1>14. SingleParent(d)
  BY <1>6 DEF SingleParent
<1>15. Connected(d)
  <2>1. PICK R, n : Levels(d, R, n)
    BY <1>6, <1>13, LevelsExist
  <2>2. 0 \in R[n] /\ R[n] = Reached(d)
    BY <1>6, <2>1, LevelsGrow DEF Levels
  <2> QED
    BY <1>6, <2>2 DEF Connected
<1>16. ValidRegions(T, d)
  <2>1. DOMAIN d.regions = {}
    BY <1>5
  <2> QED
    BY <2>1 DEF ValidRegions
<1>17. EndsBy(d, 0)
  <2>1. DOMAIN d.regions = {}
    BY <1>5
  <2> QED
    BY <1>1, <1>12, <2>1 DEF EndsBy
<1> QED
  BY <1>1, <1>8, <1>9, <1>10, <1>11, <1>13, <1>14, <1>15, <1>16, <1>17 DEF ValidAnalysis
=============================================================================
