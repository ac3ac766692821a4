---------------------------- MODULE MCProcessing ----------------------------
(* Four bytes of text in three graphemes, read directly and in regions.     *)
(* Providers answer with every valid analysis of up to two nodes under the  *)
(* root, nested or not, in and out of text order, with and without a        *)
(* lexical core, and with no, the requested or another language region.     *)
EXTENDS Processing, TLC

MCText == [size |-> 4, breaks |-> {0, 1, 3, 4}]

MCSpans(slice) == {Span(b, e) : b \in slice.breaks, e \in slice.breaks}

Core == <<[id |-> "lexical_core", value |-> 1]>>
Content == <<[id |-> "lexical_core", value |-> 0], [id |-> "content_unit", value |-> 1]>>

(* The forests on nodes 1 and 2: the children of nodes 0, 1 and 2 *)
Forests ==
  {<<<<>>, <<>>, <<>>>>, <<<<1>>, <<>>, <<>>>>, <<<<1, 2>>, <<>>, <<>>>>,
   <<<<2, 1>>, <<>>, <<>>>>, <<<<1>>, <<2>>, <<>>>>, <<<<2>>, <<>>, <<1>>>>}

Size(forest) == Len(forest[1]) + Len(forest[2]) + Len(forest[3])

MCNode(i, kind, span, children, features) ==
  [Node(i, kind, span) EXCEPT !.children = children, !.features = features]

(* Nodes 1 and 2 as a provider could emit them *)
Inner(slice, i, children) ==
  {MCNode(i, k, s, children, f) :
     <<k, f>> \in {<<"unit", Core>>, <<"unit", Content>>, <<"subunit", Core>>},
     s \in {x \in MCSpans(slice) : x.begin <= x.end}}

Trees(slice) ==
  UNION {LET root == MCNode(0, "document", FullSpan(slice), f[1], <<>>) IN
         CASE Size(f) = 0 -> {<<root>>}
           [] Size(f) = 1 -> {<<root, m>> : m \in Inner(slice, 1, f[2])}
           [] Size(f) = 2 -> {<<root, m, n>> : m \in Inner(slice, 1, f[2]),
                                                n \in Inner(slice, 2, f[3])}
         : f \in Forests}

Analyses(slice, regions) ==
  {a \in {[nodes |-> ns, regions |-> regions] : ns \in Trees(slice)} : ValidAnalysis(slice, a)}

MCHead == Span(0, 1)
MCTail == Span(1, 4)

(* One region of the text's two languages, on a text of one unit *)
OneUnit(regions) ==
  [nodes |-> <<MCNode(0, "document", FullSpan(MCText), <<1>>, <<>>),
               MCNode(1, "unit", MCTail, <<>>, Core)>>,
   regions |-> regions]

TextAnalyses ==
  Analyses(MCText, <<>>)
    \cup {OneUnit(<<Region(MCHead, "en-US", 100)>>), OneUnit(<<Region(MCTail, "ja", 50)>>)}

(* Of a slice: nodes with text only *)
SliceAnalyses(slice) ==
  {a \in Analyses(slice, <<Region(FullSpan(slice), "en", 100)>>) :
     \A i \in Ids(a) : ~EmptySpan(NodeAt(a, i).span)}

HeadAnalyses == SliceAnalyses(Slice(MCText, MCHead))
TailAnalyses == SliceAnalyses(Slice(MCText, MCTail))

MCAnalysesOf ==
  MCText :> TextAnalyses
    @@ Slice(MCText, MCHead) :> HeadAnalyses
    @@ Slice(MCText, MCTail) :> TailAnalyses

-----------------------------------------------------------------------------
(* Options as callers of the three versions fill them; behind an older     *)
(* structure lies whatever the caller's memory holds.                      *)
Uninitialized(o) ==
  [o EXCEPT !.presentation_policy = "999", !.minimum_emphasis_strength = NotANumber,
            !.salience_threshold = 7, !.reserved_v2 = 5,
            !.reading_model = "lexical_core", !.reserved_v3 = 5]

V1Options == [Uninitialized(InitialOptions) EXCEPT !.struct_size = V1Size]
V2Options(policy) ==
  [InitialOptions EXCEPT !.struct_size = V2Size, !.reading_model = "lexical_core",
                         !.reserved_v3 = 5, !.presentation_policy = policy]

(* 0.8F is 13421773 / 2^24, a little more than 0.8. *)
Most == [num |-> 13421773, den |-> 16777216]

Half     == V1Options
HalfWeak == [V1Options EXCEPT !.emphasis_strength = 4]
Two      == [V2Options("binary") EXCEPT !.prefix_strategy = "fixed", !.fixed_graphemes = 2]
Variable == [V2Options("variable") EXCEPT !.salience_threshold = 7,
               !.minimum_emphasis_strength = 3, !.emphasis_strength = 9]
VariableMost == [Variable EXCEPT !.prefix_proportion = Most]
VariableTwo  == [Variable EXCEPT !.prefix_strategy = "fixed", !.fixed_graphemes = 2]
Cores    == [InitialOptions EXCEPT !.reading_model = "lexical_core"]
VariableCores == [Variable EXCEPT !.struct_size = V3Size, !.reading_model = "lexical_core",
                    !.reserved_v2 = 0, !.reserved_v3 = 0]
Bigger   == [VariableCores EXCEPT !.struct_size = V3Size + 8]

(* Fields, each with a value that is no value of the field *)
Misfilled ==
  {<<"struct_size", 0>>, <<"struct_size", V1Size - 1>>, <<"struct_size", V1Size + 1>>,
   <<"struct_size", V2Size - 1>>, <<"struct_size", V2Size + 4>>,
   <<"flags", 1>>, <<"language", "en_US">>, <<"prefix_strategy", "999">>,
   <<"prefix_proportion", NotANumber>>, <<"prefix_proportion", [num |-> 3, den |-> 2]>>,
   <<"prefix_proportion", [num |-> -1, den |-> 2]>>,
   <<"emphasis_strength", NotANumber>>, <<"emphasis_strength", Scale + 1>>,
   <<"emphasis_strength", -1>>,
   <<"presentation_policy", "999">>, <<"salience_threshold", NotANumber>>,
   <<"salience_threshold", Scale + 1>>, <<"minimum_emphasis_strength", -1>>,
   <<"minimum_emphasis_strength", Scale + 1>>, <<"minimum_emphasis_strength", NotANumber>>,
   <<"reserved_v2", 1>>, <<"reading_model", "999">>, <<"reserved_v3", 1>>}

(* A version rejects such a value in a field of its own only. *)
Oddities ==
  {[o EXCEPT ![f[1]] = f[2]] : o \in {V1Options, V2Options("binary"), InitialOptions},
                              f \in Misfilled}
    \cup {[Variable EXCEPT !.minimum_emphasis_strength = 10]}

Linear == [kind |-> "linear_salience",
           salience |-> [bias |-> 3, weights |-> ("lexical_core" :> 12 @@ "content_unit" :> -5)]]
Segmental == [kind |-> "segmental_salience",
              salience |-> [bias |-> 3, weights |-> ("lexical_core" :> 4)],
              anchor |-> [bias |-> 8, weights |-> ("content_unit" :> 8)],
              minimum |-> 1]
SegmentalTwo == [Segmental EXCEPT !.minimum = 2, !.anchor.bias = -1]

For(m, tags) == m @@ [languages |-> tags]

Direct(o, m) == [mode |-> "direct", options |-> o, regions |-> <<>>, artifact |-> m]
InRegions(rs, o, m) ==
  [mode |-> "regions", options |-> o, regions |-> rs, artifact |-> m]

Halves == <<Region(MCHead, "en-US", 100), Region(MCTail, "ja", 50)>>

(* Partitions that are none *)
Misfits ==
  {<<>>, <<Region(MCHead, "en", 100)>>, <<Region(MCTail, "en", 100)>>,
   <<Region(Span(0, 2), "en", 100), Region(Span(2, 4), "en", 100)>>,
   <<Region(MCHead, "en", 100), Region(Span(1, 1), "ja", 100), Region(MCTail, "en", 100)>>,
   <<Region(Span(0, 3), "en", 100), Region(MCTail, "ja", 100)>>,
   <<Region(Span(0, 4), "", 100)>>, <<Region(Span(0, 4), "en_US", 100)>>, <<Region(Span(0, 4), "en", 101)>>}

MCCalls ==
  {Direct(o, Null) : o \in {Half, VariableTwo, Two, Cores, VariableMost, Null}}
    \cup {Direct(HalfWeak, For(Segmental, {})), Direct(Bigger, For(Segmental, {}))}
    \cup {Direct(Variable, For(m, {"en"})) : m \in {Linear, SegmentalTwo}}
    \cup {InRegions(Halves, Variable, Null),
          InRegions(Halves, Half, For(Segmental, {"en", "ja"})),
          InRegions(Halves, Null, For(Linear, {"en"})),
          InRegions(Halves, [Cores EXCEPT !.language = "en"], Null)}
    \cup {InRegions(rs, VariableCores, Null) : rs \in Misfits}
    \cup {Direct(o, Null) : o \in Oddities}

MCCovers == {<<"en", "en">>, <<"en", "en-US">>, <<"ja", "ja">>}

(* One call each for the documented claims that do not hold *)
MCOneReading == {Direct(Null, Null)}
MCOneArtifact == {Direct(Null, For(Linear, {"ja"}))}
=============================================================================
