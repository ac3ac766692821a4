------------------------------ MODULE MCHosts ------------------------------
(***************************************************************************)
(* Hosts on one text of two graphemes, the second of two bytes, and on its *)
(* two pieces; a provider answers with nested units or with bare nodes.    *)
(***************************************************************************)
EXTENDS Hosts, TLC

MCText == [size |-> 3, breaks |-> {0, 1, 3}]
MCHead == Span(0, 1)
MCTail == Span(1, 3)

LexicalCore == <<[id |-> "lexical_core", value |-> 1]>>
Content == <<[id |-> "lexical_core", value |-> 0], [id |-> "content_unit", value |-> 1]>>

With(i, kind, span, children, features) ==
  [Node(i, kind, span) EXCEPT !.children = children, !.features = features]

Nested ==
  [nodes |-> <<With(0, "document", FullSpan(MCText), <<1>>, Content),
               With(1, "unit", FullSpan(MCText), <<2, 3>>, LexicalCore),
               With(2, "subunit", MCHead, <<>>, LexicalCore),
               With(3, "subunit", MCTail, <<>>, Content)>>,
   regions |-> <<Region(FullSpan(MCText), "en", 100)>>]

Bare(text) ==
  [nodes |-> <<With(0, "document", FullSpan(text), <<>>, <<>>)>>, regions |-> <<>>]

Piece(slice) ==
  [nodes |-> <<With(0, "document", FullSpan(slice), <<1>>, <<>>),
               With(1, "unit", FullSpan(slice), <<>>, LexicalCore)>>,
   regions |-> <<>>]

MCAnalysesOf ==
  (MCText :> {Nested, Bare(MCText)})
    @@ (Slice(MCText, MCHead) :> {Piece(Slice(MCText, MCHead))})
    @@ (Slice(MCText, MCTail) :> {Piece(Slice(MCText, MCTail))})

MCCovers == {<<"en", "en">>, <<"en", "en-US">>, <<"ja", "ja">>}

Linear(tags) ==
  [kind |-> "linear_salience", languages |-> tags,
   salience |-> [bias |-> 3, weights |-> ("lexical_core" :> 4 @@ "content_unit" :> -5)]]

Loads(tags) == [verdict |-> "OK", model |-> Linear(tags)]
Refuses(verdict) == [verdict |-> verdict, model |-> Null]

MCTexts == {MCText, Malformed, Null}
MCArtifacts == {Null, Loads({"en"}), Refuses("MODEL_INVALID"), Refuses("MODEL_INCOMPATIBLE")}
MCRegions == <<Region(MCHead, "en-US", 100), Region(MCTail, "ja", 50)>>
MCPartitions == {Null, <<>>, MCRegions}
MCLanguages == {"", "en_US"}

Variable ==
  [InitialOptions EXCEPT !.presentation_policy = "variable", !.salience_threshold = 7,
     !.minimum_emphasis_strength = 3, !.emphasis_strength = 9]
MCOptionSets == {Null, Variable, [Variable EXCEPT !.flags = 1]}

MCRuntimeConfigs ==
  {Null, [struct_size |-> 8, flags |-> 0], [struct_size |-> 4, flags |-> 0],
   [struct_size |-> 8, flags |-> 1]}
MCPrefixConfigs ==
  {Null, [InitialPrefixConfig EXCEPT !.strategy = "fixed", !.fixed_graphemes = 2],
   [InitialPrefixConfig EXCEPT !.proportion = NotANumber],
   [InitialPrefixConfig EXCEPT !.struct_size = 20]}
MCPresentationConfigs ==
  {Null, [InitialPresentationConfig EXCEPT !.policy = "variable", !.salience_threshold = 7,
            !.minimum_strength = 3, !.maximum_strength = 9],
   [InitialPresentationConfig EXCEPT !.minimum_strength = 10, !.maximum_strength = 9]}

-----------------------------------------------------------------------------
(* Command lines *)

MCFile == <<"FILE", Null>>
MCDumps == {<<>>, <<<<"--dump-analysis", Null>>>>, <<<<"--dump-signals", Null>>>>}
MCSettings ==
  {<<>>,
   <<<<"--proportion", [num |-> 1, den |-> 3]>>, <<"--fixed", 2>>>>,
   <<<<"--fixed", 2>>, <<"--model", "prefix">>, <<"--model", "lexical_core">>>>,
   <<<<"--policy", "variable">>, <<"--threshold", 7>>, <<"--min-strength", 3>>,
     <<"--strength", 9>>>>,
   <<<<"--fixed", 1>>, <<"--proportion", [num |-> 1, den |-> 1]>>>>,
   <<<<"--min-strength", 3>>>>,
   <<<<"--language", "en_US">>>>}
MCFiles == {<<>>, <<MCFile>>, <<<<"--artifact", Null>>>>, <<<<"--artifact", Null>>, MCFile>>}

MCCommandLines ==
  {s \o d \o f : s \in MCSettings, d \in MCDumps, f \in MCFiles}
    \cup {<<MCFile, <<"--help", Null>>>>, <<MCFile, MCFile>>,
          <<<<"--dump-analysis", Null>>, <<"--dump-signals", Null>>>>,
          <<<<"--fixed", Unparsable>>>>, <<<<"--unknown", Unparsable>>>>}

MCFileTexts == {MCText, Malformed}
MCFileArtifacts == MCArtifacts \ {Null}

-----------------------------------------------------------------------------
(* Operations of the bindings *)

Job(mode, regions, options, with_model) ==
  [operation |-> "process", text |-> MCText, mode |-> mode, regions |-> regions,
   options |-> options, with_model |-> with_model]

MCJobs ==
  {[operation |-> "load", data |-> Loads({"en"})],
   Job("direct", Null, InitialOptions, TRUE),
   Job("regions", MCRegions, Variable, TRUE),
   Job("regions", MCRegions, [Variable EXCEPT !.language = "en"], FALSE)}
=============================================================================
