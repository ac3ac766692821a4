--------------------------- MODULE RegionAnalysis ---------------------------
(***************************************************************************)
(* Explicit language regions (validate_explicit_regions and                *)
(* analyze_explicit_regions in src/runtime/abi/api.cpp): the caller's      *)
(* partition of the text and the merge of one region's analysis into the   *)
(* document's.                                                             *)
(***************************************************************************)
EXTENDS AnalysisIR

CONSTANT MalformedTags   \* language tags valid_language rejects

ASSUME TagsAssumption == "" \notin MalformedTags   \* no language is allowed

ValidLanguage(tag) == tag \notin MalformedTags

(* The checks on the caller's partition, in document order *)
ValidPartition(text, regions) ==
  IF text.size = 0 THEN regions = <<>>
  ELSE
    /\ regions # <<>>
    /\ \A k \in DOMAIN regions : LET r == regions[k] IN
         /\ r.span.begin = IF k = 1 THEN 0 ELSE regions[k - 1].span.end
         /\ r.span.begin < r.span.end
         /\ ValidSpan(text, r.span)
         /\ r.language # "" /\ ValidLanguage(r.language)
         /\ r.confidence \in 0..100
    /\ regions[Len(regions)].span.end = text.size

(* Text(text.bytes().substr(...)): a span of the text read on its own; a   *)
(* span at grapheme boundaries has the graphemes it has in the document.   *)
Slice(text, s) ==
  [size |-> s.end - s.begin,
   breaks |-> {b - s.begin : b \in {c \in text.breaks : s.begin <= c /\ c <= s.end}}]

ShiftSpan(s, by) == Span(s.begin + by, s.end + by)

(* The document root the merge starts from *)
DocumentRoot(text) ==
  [nodes |-> <<[Node(0, "document", FullSpan(text)) EXCEPT !.features =
                  <<[id |-> "grapheme_count", value |-> Cardinality(text.breaks) - 1]>>]>>,
   regions |-> <<>>]

ShiftIds(ids, by) == [k \in DOMAIN ids |-> ids[k] + by]

(* Mutant: identifiers are shifted by the number of nodes, root included. *)
MergeShiftedTooFar(result, source, region) ==
  LET shift == Len(result.nodes)
      Moved(n) == [n EXCEPT !.id = @ + shift,
                            !.span = ShiftSpan(@, region.span.begin),
                            !.children = ShiftIds(@, shift)]
      root == [result.nodes[1] EXCEPT !.children =
                 @ \o ShiftIds(source.nodes[1].children, shift)]
  IN  [nodes |-> <<root>> \o Tail(result.nodes)
                   \o [k \in 1..(Len(source.nodes) - 1) |-> Moved(source.nodes[k + 1])],
       regions |-> Append(result.regions, region)]

(* Mutant: the nodes keep the coordinates of their region. *)
MergeRegionRelative(result, source, region) ==
  LET shift == Len(result.nodes) - 1
      Moved(n) == [n EXCEPT !.id = @ + shift, !.children = ShiftIds(@, shift)]
      root == [result.nodes[1] EXCEPT !.children =
                 @ \o ShiftIds(source.nodes[1].children, shift)]
  IN  [nodes |-> <<root>> \o Tail(result.nodes)
                   \o [k \in 1..(Len(source.nodes) - 1) |-> Moved(source.nodes[k + 1])],
       regions |-> Append(result.regions, region)]

(* One iteration of analyze_explicit_regions: the region's nodes but its   *)
(* root move to document coordinates and identifiers, the root's children  *)
(* become children of the document, and the region's own regions give way  *)
(* to the caller's.                                                        *)
Merge(result, source, region) ==
  LET shift == Len(result.nodes) - 1
      Moved(n) == [n EXCEPT !.id = @ + shift,
                            !.span = ShiftSpan(@, region.span.begin),
                            !.children = ShiftIds(@, shift)]
      root == [result.nodes[1] EXCEPT !.children =
                 @ \o ShiftIds(source.nodes[1].children, shift)]
  IN  [nodes |-> <<root>> \o Tail(result.nodes)
                   \o [k \in 1..(Len(source.nodes) - 1) |-> Moved(source.nodes[k + 1])],
       regions |-> Append(result.regions, region)]
=============================================================================
