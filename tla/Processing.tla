----------------------------- MODULE Processing -----------------------------
(***************************************************************************)
(* One call of le_process, le_process_with_model, le_process_regions or    *)
(* le_process_regions_with_model (src/runtime/abi/api.cpp), from the       *)
(* caller's arguments to the emphasis plan: options, routing and analysis, *)
(* the merge of explicit regions, the language check of a model, the       *)
(* reading model node by node and the presentation policy signal by signal.*)
(*                                                                         *)
(* Providers are free to answer with any valid analysis: what a registry   *)
(* or a router hands over has passed the validator (ProviderSink).         *)
(***************************************************************************)
EXTENDS Pipeline

CONSTANTS
  Text,         \* the source text
  Calls         \* the calls a caller may make: see CallShape

(* A call is direct or brings regions; it brings options or Null, and an   *)
(* artifact, a reading model with the languages it declares, or Null.  A   *)
(* structure is not a null pointer, be it upgraded.                        *)
CallShape(c) ==
  /\ DOMAIN c = {"mode", "options", "regions", "artifact"}
  /\ c.mode \in {"direct", "regions"}
  /\ c.options # Null => IsOptions(c.options) /\ Newest(c.options) # Null
  /\ c.regions \in Seq(Range(c.regions))
  /\ \A r \in Range(c.regions) :
       r = Region(r.span, r.language, r.confidence) /\ r.span \in [begin : Nat, end : Nat]
  /\ c.artifact # Null => IsModel(c.artifact)

(* The texts a call has analysed *)
Pieces(c) ==
  IF c.mode = "direct" THEN {Text}
  ELSE IF ValidPartition(Text, c.regions)
  THEN {Slice(Text, r.span) : r \in Range(c.regions)}
  ELSE {}

ASSUME ProcessingAssumption ==
  /\ IsText(Text)
  /\ \A c \in Calls : CallShape(c) /\ Pieces(c) \subseteq DOMAIN AnalysesOf

VARIABLES
  call,       \* the arguments
  stage,      \* where the call is
  settings,   \* the options as read, pipeline_options
  status,     \* "RUNNING", then the status returned
  at,         \* regions, nodes or signals the current loop has handled
  sources,    \* the analyses of the regions so far, history
  analysis,   \* the document's analysis
  signals,    \* the reading model's output
  emphasis    \* the policy's output; the result once status is "OK"

vars == <<call, stage, settings, status, at, sources, analysis, signals, emphasis>>

Stages == {"options", "regions", "analyze", "validate", "languages", "read", "present",
           "returned"}

Model == ReadingModel(call.artifact, settings)

Policy == settings.presentation

In(s) == stage = s /\ status = "RUNNING"

Enter(s) == stage' = s /\ at' = 0 /\ UNCHANGED status

(* The call returns status s; nothing is handed to the caller unless OK.   *)
Finish(s) == stage' = "returned" /\ status' = s /\ UNCHANGED at

Init ==
  /\ call \in Calls
  /\ stage = "options"
  /\ settings = Defaults
  /\ status = "RUNNING"
  /\ at = 0
  /\ sources = <<>>
  /\ analysis = EmptyAnalysis
  /\ signals = <<>>
  /\ emphasis = <<>>

-----------------------------------------------------------------------------
(* read_options, or read_region_options if the call brings regions *)
ReadOptions ==
  /\ In("options")
  /\ IF Accepted(call.options, call.mode)
     THEN /\ settings' = SettingsOf(call.options)
          /\ Enter(IF call.mode = "regions" THEN "regions" ELSE "analyze")
     ELSE Finish("INVALID_ARGUMENT") /\ UNCHANGED settings
  /\ UNCHANGED <<call, sources, analysis, signals, emphasis>>

(* validate_explicit_regions, and the document root the merge starts from *)
CheckRegions ==
  /\ In("regions")
  /\ IF ValidPartition(Text, call.regions)
     THEN Enter("analyze") /\ analysis' = DocumentRoot(Text)
     ELSE Finish("INVALID_ARGUMENT") /\ UNCHANGED analysis
  /\ UNCHANGED <<call, settings, sources, signals, emphasis>>

(* analyze_with_runtime on the whole text *)
Analyze ==
  /\ In("analyze") /\ call.mode = "direct"
  /\ \E a \in AnalysesOf[Text] : analysis' = a
  /\ Enter("languages")
  /\ UNCHANGED <<call, settings, sources, signals, emphasis>>

(* analyze_with_runtime on the next region, and the merge of its answer *)
AnalyzeRegion ==
  /\ In("analyze") /\ call.mode = "regions"
  /\ at < Len(call.regions)
  /\ LET region == call.regions[at + 1] IN
       \E a \in AnalysesOf[Slice(Text, region.span)] :
         /\ analysis' = Merge(analysis, a, region)
         /\ sources' = Append(sources, a)
  /\ at' = at + 1
  /\ UNCHANGED <<call, stage, settings, status, signals, emphasis>>

RegionsDone ==
  /\ In("analyze") /\ call.mode = "regions"
  /\ at = Len(call.regions)
  /\ Enter("validate")
  /\ UNCHANGED <<call, settings, sources, analysis, signals, emphasis>>

(* validate_analysis on the merge; its exception would be an internal error *)
ValidateMerge ==
  /\ In("validate")
  /\ IF ValidAnalysis(Text, analysis) THEN Enter("languages") ELSE Finish("INTERNAL")
  /\ UNCHANGED <<call, settings, sources, analysis, signals, emphasis>>

(* The provider of the text or of a region fails: a registered one, or the *)
(* built-in one, whose exception is an internal error.                     *)
ProviderFails ==
  /\ In("analyze")
  /\ call.mode = "direct" \/ at < Len(call.regions)
  /\ \E s \in {"PLUGIN_FAILURE", "INTERNAL"} : Finish(s)
  /\ UNCHANGED <<call, settings, sources, analysis, signals, emphasis>>

(* model_supports_analysis_languages, asked only if there is an artifact:  *)
(* a built-in model declares no languages.                                 *)
CheckLanguages ==
  /\ In("languages")
  /\ IF SupportsAll(Model, analysis)
     THEN Enter("read")
     ELSE Finish("UNSUPPORTED_LANGUAGE")
  /\ UNCHANGED <<call, settings, sources, analysis, signals, emphasis>>

(* Mutant: the nodes are taken from a stack. *)
ReadLastNode ==
  /\ In("read")
  /\ IF at < Len(analysis.nodes)
     THEN /\ signals' = signals \o SignalsOf(Text, analysis, Model,
                                             NodeAt(analysis, Len(analysis.nodes) - 1 - at))
          /\ at' = at + 1
          /\ UNCHANGED <<stage, status>>
     ELSE Enter("present") /\ UNCHANGED signals
  /\ UNCHANGED <<call, settings, sources, analysis, emphasis>>

(* The reading model's loop over the nodes *)
ReadNode ==
  /\ In("read")
  /\ IF at < Len(analysis.nodes)
     THEN /\ signals' = signals \o SignalsOf(Text, analysis, Model, NodeAt(analysis, at))
          /\ at' = at + 1
          /\ UNCHANGED <<stage, status>>
     ELSE Enter("present") /\ UNCHANGED signals
  /\ UNCHANGED <<call, settings, sources, analysis, emphasis>>

(* The policy's loop over the signals *)
PresentSignal ==
  /\ In("present")
  /\ IF at < Len(signals)
     THEN /\ emphasis' = Present(Policy, emphasis, signals[at + 1])
          /\ at' = at + 1
          /\ UNCHANGED <<stage, status>>
     ELSE Finish("OK") /\ UNCHANGED emphasis
  /\ UNCHANGED <<call, settings, sources, analysis, signals>>

(* Every stage allocates. *)
AllocationFails ==
  /\ status = "RUNNING"
  /\ Finish("OUT_OF_MEMORY")
  /\ UNCHANGED <<call, settings, sources, analysis, signals, emphasis>>

Next ==
  \/ ReadOptions \/ CheckRegions \/ Analyze \/ AnalyzeRegion \/ RegionsDone \/ ValidateMerge
  \/ ProviderFails \/ CheckLanguages \/ ReadNode \/ PresentSignal \/ AllocationFails

Spec == Init /\ [][Next]_vars

-----------------------------------------------------------------------------
Spans == [begin : 0..Text.size, end : 0..Text.size]

(* Type invariant.  Saliences are normalized and strengths stay between    *)
(* the policy's bounds, whatever a learned model predicts and whatever     *)
(* version of the options set those bounds.                                *)
TypeOK ==
  /\ call \in Calls
  /\ stage \in Stages
  /\ status \in {"RUNNING", "OK", "INVALID_ARGUMENT", "PLUGIN_FAILURE",
                 "UNSUPPORTED_LANGUAGE", "OUT_OF_MEMORY", "INTERNAL"}
  /\ stage = "returned" <=> status # "RUNNING"
  /\ 0 <= Policy.minimum /\ Policy.minimum <= Policy.maximum /\ Policy.maximum <= Scale
  /\ at \in Nat
  /\ Len(sources) <= Len(call.regions)
  /\ signals \in Seq([span : Spans, salience : 1..Scale])
  /\ emphasis \in Seq([span : Spans,
                       strength : (Policy.minimum * Scale)..(Policy.maximum * Scale)])

(* docs/c-api.md:10-14, 161-162: a call that brings an older version of    *)
(* the options, or none, is accepted, and then means, exactly if the same  *)
(* call with the newest version and le_process_options_init's values in    *)
(* the fields it lacks is and does: defaults() and the initializer agree,  *)
(* and nothing behind struct_size is read.                                 *)
OlderOptionsMeanNewest ==
  LET newest == Newest(call.options) IN
  /\ stage \notin {"options", "returned"} =>
       Accepted(newest, call.mode) /\ settings = Settings(newest)
  /\ status = "INVALID_ARGUMENT" /\ call.mode = "direct" =>
       \/ ~Accepted(newest, call.mode)
       \/ call.options.struct_size \notin {V1Size, V2Size, V3Size}

(* Valid analyses of the regions of a valid partition merge into a valid   *)
(* analysis: the final validation of le_analyze_regions and                *)
(* le_process_regions never turns the providers' success into an error.    *)
MergeIsValid == In("validate") => ValidAnalysis(Text, analysis)

(* docs/linguistic-ir.md:33-36: a reading model reads a mixed-language     *)
(* analysis as it would read each region on its own, in order.             *)
RegionsReadAlone ==
  stage = "present" /\ call.mode = "regions" =>
    LET Alone[k \in 0..Len(sources)] ==
          IF k = 0 THEN <<>>
          ELSE LET span == call.regions[k].span
                   own  == AllSignals(Slice(Text, span), sources[k], Model)
               IN  Alone[k - 1] \o
                     [j \in DOMAIN own |-> [own[j] EXCEPT !.span = ShiftSpan(@, span.begin)]]
    IN  signals = Alone[Len(sources)]

(* A returned plan emphasizes a grapheme at a strength exactly if a signal *)
(* that passes the policy asks for that grapheme at that strength: merging *)
(* touching spans neither spreads nor loses nor restyles emphasis.         *)
PlanIsWhatSignalsAsk ==
  status = "OK" =>
    \A g \in GraphemesIn(Text, FullSpan(Text)) :
      LET Over(e) == e.span.begin <= g /\ g < e.span.end IN
      {e.strength : e \in {x \in Range(emphasis) : Over(x)}}
        = {Strength(Policy, s.salience) :
             s \in {x \in Range(signals) : Passes(Policy, x) /\ Over(x)}}

(* Every span of a plan is non-empty, splits no grapheme, and does not     *)
(* just go on with the emphasis before it (docs/text-and-offsets.md:17-20, *)
(* docs/reading-and-presentation.md:53).                                   *)
PlanIsNormalized ==
  /\ \A k \in DOMAIN emphasis : LET e == emphasis[k] IN
       ValidSpan(Text, e.span) /\ e.span.begin < e.span.end
  /\ \A k \in 1..(Len(emphasis) - 1) :
       \/ emphasis[k].span.end # emphasis[k + 1].span.begin
       \/ emphasis[k].strength # emphasis[k + 1].strength

(* The nodes the reading model makes signals of *)
ReadNodes(a, m) == {i \in Ids(a) : SignalsOf(Text, a, m, NodeAt(a, i)) # <<>>}

(* If the nodes a model reads follow each other in the text, as those of   *)
(* the built-in providers do, so do the spans of the plan.                 *)
PlanKeepsTextOrder ==
  /\ status = "OK"
  /\ \A i, j \in ReadNodes(analysis, Model) :
       i < j => NodeAt(analysis, i).span.end <= NodeAt(analysis, j).span.begin
  => \A k \in 1..(Len(emphasis) - 1) : emphasis[k].span.end <= emphasis[k + 1].span.begin

(* A segmental model marks a part of a unit that has a part to leave out,  *)
(* and never less of it than its minimum (docs/reading-and-presentation.md *)
(* :30-34), whether it found a strict core or fell back to a prefix.       *)
SegmentsArePartial ==
  stage = "present" /\ Model.kind = "segmental_salience" =>
    \A i \in Ids(analysis) : \A s \in Range(SignalsOf(Text, analysis, Model,
                                                       NodeAt(analysis, i))) :
      LET n == GraphemeCount(Text, NodeAt(analysis, i).span)
          k == GraphemeCount(Text, s.span)
      IN  /\ Contains(NodeAt(analysis, i).span, s.span)
          /\ n > Model.minimum => k < n /\ k >= Model.minimum

(* docs/architecture.md:80-81: output spans remain ordered and             *)
(* non-overlapping.                                                        *)
PlanIsOrdered ==
  status = "OK" =>
    \A k \in 1..(Len(emphasis) - 1) : emphasis[k].span.end <= emphasis[k + 1].span.begin

(* docs/reading-and-presentation.md:27-28: language metadata on the        *)
(* artifact limits where fitted weights may run, so a model that declares  *)
(* languages makes signals only inside regions of those languages.         *)
ModelRunsOnItsLanguages ==
  status = "OK" /\ Model.languages # {} =>
    \A s \in Range(signals) : \E r \in Range(analysis.regions) :
      Supports(Model, r.language) /\ Contains(r.span, s.span)
=============================================================================
