----------------------------- MODULE AnalysisIR -----------------------------
(***************************************************************************)
(* Source texts, spans and the linguistic IR, with the validator every     *)
(* provider's result passes (src/runtime/core/text.cpp, ir.cpp).  Node     *)
(* identifiers count from 0, as in the code; nodes[i + 1] is node i.       *)
(***************************************************************************)
EXTENDS Integers, Sequences, FiniteSets, Functions

(* A text is its size in bytes and the set of its grapheme boundaries. *)
IsText(text) ==
  /\ text.size \in Nat
  /\ text.breaks \subseteq 0..text.size
  /\ {0, text.size} \subseteq text.breaks

Span(b, e) == [begin |-> b, end |-> e]
FullSpan(text) == Span(0, text.size)
EmptySpan(s) == s.begin = s.end

(* is_valid_span at grapheme granularity *)
ValidSpan(text, s) ==
  /\ s.end <= text.size
  /\ s.begin \in text.breaks
  /\ s.end \in text.breaks

(* graphemes_in: the graphemes wholly inside a span, as their first bytes *)
GraphemesIn(text, s) == {b \in text.breaks : s.begin <= b /\ b < s.end}

(* The end of the n-th grapheme of a span that has at least n graphemes *)
GraphemeEnd(text, s, n) ==
  CHOOSE e \in text.breaks :
    /\ s.begin < e /\ e <= s.end
    /\ Cardinality({b \in text.breaks : s.begin < b /\ b <= e}) = n

Contains(outer, inner) == outer.begin <= inner.begin /\ inner.end <= outer.end
Disjoint(s, u) == s.end <= u.begin \/ u.end <= s.begin

-----------------------------------------------------------------------------
(* Analyses: [nodes |-> Seq(node), regions |-> Seq(region)] *)

Node(id, kind, span) ==
  [id |-> id, kind |-> kind, span |-> span, children |-> <<>>, features |-> <<>>]

Region(span, language, confidence) ==
  [span |-> span, language |-> language, confidence |-> confidence]

EmptyAnalysis == [nodes |-> <<>>, regions |-> <<>>]

(* What the types of ir.hpp and text.hpp admit, valid or not: the value of  *)
(* a feature is a number, and a TextSpan never ends before it begins.      *)
IsSpan(s) == s \in [begin : Nat, end : Nat] /\ s.begin <= s.end

IsNode(n) ==
  /\ n = [id |-> n.id, kind |-> n.kind, span |-> n.span,
          children |-> n.children, features |-> n.features]
  /\ IsSpan(n.span)
  /\ n.children \in Seq(Nat)
  /\ n.features \in Seq(Range(n.features))
  /\ \A f \in Range(n.features) : f.value \in Int

IsRegion(r) == r = Region(r.span, r.language, r.confidence) /\ IsSpan(r.span)

IsAnalysis(a) ==
  /\ a = [nodes |-> a.nodes, regions |-> a.regions]
  /\ a.nodes \in Seq(Range(a.nodes)) /\ \A n \in Range(a.nodes) : IsNode(n)
  /\ a.regions \in Seq(Range(a.regions)) /\ \A r \in Range(a.regions) : IsRegion(r)

Ids(a) == 0..(Len(a.nodes) - 1)
NodeAt(a, i) == a.nodes[i + 1]

ValidRoot(text, a) ==
  /\ a.nodes # <<>>
  /\ NodeAt(a, 0).id = 0
  /\ NodeAt(a, 0).kind = "document"
  /\ NodeAt(a, 0).span = FullSpan(text)

DenseIds(a) == \A i \in Ids(a) : NodeAt(a, i).id = i

AlignedSpans(text, a) == \A i \in Ids(a) : ValidSpan(text, NodeAt(a, i).span)

UniqueFeatures(a) ==
  \A i \in Ids(a) : LET fs == NodeAt(a, i).features IN
    \A j, k \in DOMAIN fs : fs[j].id = fs[k].id => j = k

(* Mutant: previous_end is not advanced past a child. *)
OrderedChildrenFromBegin(a) ==
  \A i \in Ids(a) : LET n == NodeAt(a, i) IN
    \A k \in DOMAIN n.children :
      /\ n.children[k] \in Ids(a) \ {0}
      /\ Contains(n.span, NodeAt(a, n.children[k]).span)

(* Children exist, lie inside their parent and follow their elder sibling. *)
OrderedChildren(a) ==
  \A i \in Ids(a) : LET n == NodeAt(a, i) IN
    \A k \in DOMAIN n.children :
      /\ n.children[k] \in Ids(a) \ {0}
      /\ Contains(n.span, NodeAt(a, n.children[k]).span)
      /\ (IF k = 1 THEN n.span.begin ELSE NodeAt(a, n.children[k - 1]).span.end)
           <= NodeAt(a, n.children[k]).span.begin

(* The places where node c is listed as a child: its parent_counts entry *)
ParentSlots(a, c) ==
  UNION {{<<i, k>> : k \in {j \in DOMAIN NodeAt(a, i).children :
                               NodeAt(a, i).children[j] = c}} : i \in Ids(a)}

SingleParent(a) ==
  \A c \in Ids(a) \ {0} : \E p \in ParentSlots(a, c) : ParentSlots(a, c) = {p}

ChildrenOf(a, S) == UNION {Range(NodeAt(a, i).children) : i \in S}

(* The traversal from the root: what it has reached after n levels *)
Reached(a) ==
  LET R[n \in 0..Len(a.nodes)] ==
        IF n = 0 THEN {0} ELSE R[n - 1] \cup ChildrenOf(a, R[n - 1])
  IN  R[Len(a.nodes)]

(* Mutant: parent counts alone are taken to make a tree. *)
ConnectedByCounts(a) == SingleParent(a)

Connected(a) == Ids(a) \subseteq Reached(a)

(* Regions are aligned, ordered and normalized; they need not cover. *)
ValidRegions(text, a) ==
  \A k \in DOMAIN a.regions : LET r == a.regions[k] IN
    /\ ValidSpan(text, r.span)
    /\ (IF k = 1 THEN 0 ELSE a.regions[k - 1].span.end) <= r.span.begin
    /\ r.language # ""
    /\ r.confidence \in 0..100

ValidAnalysis(text, a) ==
  /\ ValidRoot(text, a)
  /\ DenseIds(a)
  /\ AlignedSpans(text, a)
  /\ UniqueFeatures(a)
  /\ OrderedChildren(a)
  /\ SingleParent(a)
  /\ Connected(a)
  /\ ValidRegions(text, a)
=============================================================================
