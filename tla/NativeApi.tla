------------------------------ MODULE NativeApi ------------------------------
(***************************************************************************)
(* The opaque handles of the C ABI (src/include/le/api.h): the functions   *)
(* that create them, stage by stage or in one call, as the sets of ways    *)
(* they may return, and what a call does to the handles, to the caller's   *)
(* pointer variables and to the thread's diagnostic (src/runtime/abi/      *)
(* api.cpp).  ProviderRegistry has the runtime's providers and locks; here *)
(* a runtime is a handle whose analyses come from AnalysesOf.              *)
(***************************************************************************)
EXTENDS Pipeline

Seqs == INSTANCE SequencesExt

CONSTANTS
  Threads,
  Malformed,    \* a text that is not UTF-8; Null is a view without data
  MaxCalls      \* bound on calls that may fail

Kinds == {"runtime", "model", "analysis", "signals", "result"}

(* The pointer variables of the programs that call the ABI: one per kind,  *)
(* the command line tool's four more, and a local of each thread.          *)
Named == Kinds \cup {"input", "text", "artifact_input", "artifact_data"}
Slots == Named \cup Threads

(* A null pointer is neither a variable nor an object's address.           *)
ASSUME SlotsAssumption == /\ Threads \cap Named = {}
                          /\ Null \notin Slots
                          /\ Null \notin Nat

VARIABLES
  objects,      \* what handles point at, handle by handle
  diagnostic,   \* each thread's current_error, as the call that recorded it
  calls,        \* how many calls there were
  last,         \* each thread's last call, its number and status
  slot,         \* each pointer variable's handle, or Null
  usable        \* the variables that hold a handle or Null, not a stale value

apiVars == <<objects, diagnostic, calls, last, slot, usable>>

ApiInit ==
  /\ objects = <<>>
  /\ diagnostic = [t \in Threads |-> 0]
  /\ calls = 0
  /\ last = [t \in Threads |-> [id |-> 0, status |-> "OK"]]
  /\ slot = [s \in Slots |-> Null]
  /\ usable = Slots \ Threads

Value(h) == objects[h].value

-----------------------------------------------------------------------------
(* le_analysis: the analysis, and the four arrays the accessors hand out.  *)
(* A node points into the shared arrays by first index and count; the      *)
(* bytes of a region's tag are those of a region of the handle's own core. *)

(* The array of the first n nodes' children or features *)
Flat(a, field, n) == Seqs!FlattenSeq([i \in 1..n |-> a.nodes[i][field]])

(* Mutant: the first feature is taken from the size of the other array. *)
FlatNodesMixed(a) ==
  [i \in DOMAIN a.nodes |-> LET n == a.nodes[i] IN
     [id |-> n.id, kind |-> n.kind, span |-> n.span,
      first_child |-> Len(Flat(a, "children", i - 1)), child_count |-> Len(n.children),
      first_feature |-> Len(Flat(a, "children", i - 1)), feature_count |-> Len(n.features)]]

FlatNodes(a) ==
  [i \in DOMAIN a.nodes |-> LET n == a.nodes[i] IN
     [id |-> n.id, kind |-> n.kind, span |-> n.span,
      first_child |-> Len(Flat(a, "children", i - 1)), child_count |-> Len(n.children),
      first_feature |-> Len(Flat(a, "features", i - 1)), feature_count |-> Len(n.features)]]

RegionViews(a) ==
  [k \in DOMAIN a.regions |->
     [span |-> a.regions[k].span, confidence |-> a.regions[k].confidence,
      language |-> k]]

(* make_analysis *)
MakeAnalysis(text, a) ==
  [text |-> text, core |-> a, nodes |-> FlatNodes(a),
   children |-> Flat(a, "children", Len(a.nodes)),
   features |-> Flat(a, "features", Len(a.nodes)),
   language_regions |-> RegionViews(a)]

(* What a reader of the arrays finds, as print_analysis does *)
ReadBack(v) ==
  [nodes |-> [i \in DOMAIN v.nodes |-> LET n == v.nodes[i] IN
     [id |-> n.id, kind |-> n.kind, span |-> n.span,
      children |-> SubSeq(v.children, n.first_child + 1, n.first_child + n.child_count),
      features |-> SubSeq(v.features, n.first_feature + 1,
                          n.first_feature + n.feature_count)]],
   regions |-> [k \in DOMAIN v.language_regions |-> LET r == v.language_regions[k] IN
     Region(r.span, v.core.regions[r.language].language, r.confidence)]]

-----------------------------------------------------------------------------
(* How a call may return: with a status, and a new object's value if "OK". *)

Ok(value) == [status |-> "OK", value |-> value]
Fails(S) == [status : S, value : {Null}]

Invalid == Fails({"INVALID_ARGUMENT"})

(* What a provider's failure and an allocation come back as *)
ProviderFailures == Fails({"PLUGIN_FAILURE", "INTERNAL", "OUT_OF_MEMORY"})

RuntimeCreate(config) ==
  IF config # Null /\ (config.struct_size < 8 \/ config.flags # 0)
  THEN Invalid
  ELSE {Ok(Null)} \cup Fails({"OUT_OF_MEMORY"})

(* Bytes of an artifact are [verdict, model]: what le::model::load finds   *)
(* (ModelArtifact) and the model it returns if that is "OK".               *)
ModelLoad(runtime, data) ==
  IF runtime = Null \/ data = Null THEN Invalid
  ELSE (IF data.verdict = "OK" THEN {Ok(data.model)} ELSE Fails({data.verdict}))
         \cup Fails({"OUT_OF_MEMORY"})

(* What the answers on one more region make of the documents so far *)
MergeEach(documents, text, region) ==
  {Merge(d, a, region) : d \in documents, a \in AnalysesOf[Slice(text, region.span)]}

(* The analyses analyze_explicit_regions may merge for the first n regions *)
Merges(text, regions, n) ==
  LET M[k \in 0..n] ==
        IF k = 0 THEN {DocumentRoot(text)} ELSE MergeEach(M[k - 1], text, regions[k])
  IN  M[n]

(* A call is direct, or brings regions. *)
Answers(text, mode, regions) ==
  IF mode = "direct" THEN AnalysesOf[text]
  ELSE {a \in Merges(text, regions, Len(regions)) : ValidAnalysis(text, a)}

UsableRegions(text, mode, regions) ==
  mode = "regions" => regions # Null /\ ValidPartition(text, regions)

(* le_analyze and le_analyze_regions *)
Analyze(runtime, text, mode, regions, language) ==
  IF runtime = Null \/ text = Null \/ (mode = "direct" /\ ~ValidLanguage(language))
  THEN Invalid
  ELSE IF text = Malformed THEN Fails({"INVALID_UTF8", "OUT_OF_MEMORY"})
  ELSE IF ~UsableRegions(text, mode, regions) THEN Invalid
  ELSE {Ok(MakeAnalysis(text, a)) : a \in Answers(text, mode, regions)}
         \cup ProviderFailures

(* The four le_process functions: without an artifact (Null) or with the   *)
(* handle of one, which may itself be Null                                 *)
Process(runtime, artifact, text, mode, regions, o) ==
  LET settings == SettingsOf(o)
      model    == ReadingModel(artifact, settings)
  IN  IF runtime = Null \/ text = Null \/ ~Accepted(o, mode) THEN Invalid
      ELSE IF text = Malformed THEN Fails({"INVALID_UTF8", "OUT_OF_MEMORY"})
      ELSE IF ~UsableRegions(text, mode, regions) THEN Invalid
      ELSE (UNION {IF SupportsAll(model, a)
                   THEN {Ok([plan |-> PlanOf(settings.presentation,
                                             AllSignals(text, a, model)),
                             from |-> Null])}
                   ELSE Fails({"UNSUPPORTED_LANGUAGE"})
                   : a \in Answers(text, mode, regions)})
             \cup ProviderFailures

-----------------------------------------------------------------------------
(* The staged functions.  "from" is history: what the object was made of.  *)

InitialPrefixConfig ==
  [struct_size |-> 24, flags |-> 0, strategy |-> "proportional", fixed_graphemes |-> 1,
   proportion |-> [num |-> 1, den |-> 2], reserved |-> 0]

ValidPrefixConfig(c) ==
  c # Null =>
    /\ c.struct_size >= 24
    /\ c.flags = 0 /\ c.reserved = 0
    /\ c.strategy \in {"proportional", "fixed"}
    /\ NormalizedProportion(c.proportion)

(* read_prefix_config *)
PrefixConfigOf(c) ==
  IF c = Null THEN Defaults.prefix
  ELSE IF c.strategy = "fixed" THEN [strategy |-> "fixed", graphemes |-> c.fixed_graphemes]
  ELSE [strategy |-> "proportional", proportion |-> c.proportion]

InitialPresentationConfig ==
  [struct_size |-> 24, flags |-> 0, policy |-> "binary", salience_threshold |-> 0,
   minimum_strength |-> 0, maximum_strength |-> Scale]

ValidPresentationConfig(c) ==
  c # Null =>
    /\ c.struct_size >= 24
    /\ c.flags = 0
    /\ ValidPresentation(c.policy, c.salience_threshold, c.minimum_strength,
                         c.maximum_strength)

(* Mutant: the threshold and the least strength change places. *)
PresentationConfigSwapped(c) ==
  IF c = Null THEN Defaults.presentation
  ELSE [kind |-> c.policy, threshold |-> c.minimum_strength,
        minimum |-> c.salience_threshold, maximum |-> c.maximum_strength]

(* read_presentation_config *)
PresentationConfigOf(c) ==
  IF c = Null THEN Defaults.presentation
  ELSE [kind |-> c.policy, threshold |-> c.salience_threshold,
        minimum |-> c.minimum_strength, maximum |-> c.maximum_strength]

(* What all three generators do once their arguments are in order; `by'    *)
(* says which generator it was and what configured it.                     *)
Generate(v, m, by) ==
  (IF ~ValidAnalysis(v.text, v.core) THEN Fails({"INTERNAL"})
   ELSE IF ~SupportsAll(m, v.core) THEN Fails({"UNSUPPORTED_LANGUAGE"})
   ELSE {Ok([signals |-> AllSignals(v.text, v.core, m),
             from |-> [text |-> v.text, analysis |-> v.core, by |-> by]])})
    \cup Fails({"OUT_OF_MEMORY"})

GeneratePrefixSignals(runtime, analysis, config) ==
  IF runtime = Null \/ analysis = Null \/ ~ValidPrefixConfig(config) THEN Invalid
  ELSE Generate(Value(analysis),
                [kind |-> "prefix", prefix |-> PrefixConfigOf(config), languages |-> {}],
                [model |-> "prefix", config |-> config])

GenerateLexicalCoreSignals(runtime, analysis) ==
  IF runtime = Null \/ analysis = Null THEN Invalid
  ELSE Generate(Value(analysis), [kind |-> "lexical_core", languages |-> {}],
                [model |-> "lexical_core", config |-> Null])

GenerateModelSignals(runtime, analysis, model) ==
  IF runtime = Null \/ analysis = Null \/ model = Null THEN Invalid
  ELSE Generate(Value(analysis), Value(model), [model |-> "artifact", config |-> Value(model)])

GenerateEmphasis(runtime, signals, config) ==
  IF runtime = Null \/ signals = Null \/ ~ValidPresentationConfig(config) THEN Invalid
  ELSE {Ok([plan |-> PlanOf(PresentationConfigOf(config), Value(signals).signals),
            from |-> [signals |-> Value(signals).from, config |-> config]])}
         \cup Fails({"OUT_OF_MEMORY"})

-----------------------------------------------------------------------------
(* What calls do to the handles. *)

(* The objects after one more, or after some were destroyed *)
New(kind, value) == Append(objects, [kind |-> kind, live |-> TRUE, value |-> value])

Destroyed(handles) ==
  [h \in DOMAIN objects |->
     IF h \in handles THEN [objects[h] EXCEPT !.live = FALSE, !.value = Null] ELSE objects[h]]

(* Mutant: the buffer is one of the process. *)
SetErrorEverywhere(t, id) == diagnostic' = [u \in Threads |-> id]

(* set_error, in the thread's own buffer *)
SetError(t, id) == diagnostic' = [diagnostic EXCEPT ![t] = id]

(* Mutant: a failed call leaves the caller's variable alone. *)
WriteOutOnSuccess(out, r) ==
  slot' = IF out = Null \/ r.status # "OK" THEN slot
          ELSE [slot EXCEPT ![out] = Len(objects) + 1]

(* The out pointer gets the new handle; it was nulled before any failure.  *)
WriteOut(out, r) ==
  slot' = IF out = Null THEN slot
          ELSE [slot EXCEPT ![out] = IF r.status = "OK" THEN Len(objects) + 1 ELSE Null]

(* Thread t's call returns in one of the ways `outcomes', through the out  *)
(* variable `out' (Null: a null out pointer, which no call lets pass).     *)
Return(t, out, kind, outcomes) ==
  /\ calls < MaxCalls
  /\ calls' = calls + 1
  /\ \E r \in IF out = Null THEN Invalid ELSE outcomes :
       /\ last' = [last EXCEPT ![t] = [id |-> calls', status |-> r.status]]
       /\ WriteOut(out, r)
       /\ IF r.status = "OK"
          THEN objects' = New(kind, r.value) /\ UNCHANGED diagnostic
          ELSE SetError(t, calls') /\ UNCHANGED objects
  /\ usable' = usable \cup ({out} \ {Null})

(* The destroy functions; Null is accepted. *)
Destroy(s) ==
  /\ objects' = Destroyed({slot[s]})
  /\ UNCHANGED <<diagnostic, calls, last>>

-----------------------------------------------------------------------------
(* The properties of the handles, whatever program uses them. *)

LiveHandles == {h \in DOMAIN objects : objects[h].live}

Held == {s \in usable : slot[s] # Null}

(* docs/c-api.md, "writes null before failure" and "caller owns", le/api.h *)
(* :78-80, 138: the variables a program may use hold exactly the live      *)
(* objects, each of them once: nothing is leaked, destroyed twice or used  *)
(* after its destruction, on the failure paths and in cleanup code too.    *)
LiveExactlyWhileHeld ==
  /\ {slot[s] : s \in Held} = LiveHandles
  /\ \A s, u \in Held : slot[s] = slot[u] => s = u

(* docs/c-api.md "Analysis representation", docs/architecture.md:112-114:  *)
(* the arrays and views of an analysis handle that is alive, whatever else *)
(* has been destroyed, read back as the analysis it was made of.           *)
AnalysisReadsBack ==
  \A h \in LiveHandles : objects[h].kind = "analysis" =>
    ReadBack(Value(h)) = Value(h).core

(* docs/c-api.md "Error handling", le/api.h:189: the diagnostic a thread   *)
(* finds after a failure is of that failure, whatever other threads do.    *)
DiagnosticIsOfTheFailure ==
  \A t \in Threads : last[t].status # "OK" => diagnostic[t] = last[t].id

(* The options that say what a staged result's configurations said, in the *)
(* fields processing reads                                                 *)
SameOptions(by, config) ==
  LET c == IF by.model # "prefix" \/ by.config = Null THEN InitialPrefixConfig ELSE by.config
      p == IF config = Null THEN InitialPresentationConfig ELSE config
  IN  [InitialOptions EXCEPT
         !.prefix_strategy = c.strategy, !.fixed_graphemes = c.fixed_graphemes,
         !.prefix_proportion = c.proportion,
         !.reading_model = IF by.model = "lexical_core" THEN "lexical_core" ELSE "prefix",
         !.presentation_policy = p.policy, !.salience_threshold = p.salience_threshold,
         !.minimum_emphasis_strength = p.minimum_strength,
         !.emphasis_strength = p.maximum_strength]

(* docs/c-api.md "Reading and presentation stages": a plan made in stages  *)
(* is the plan of le_process, or of le_process_with_model, with options    *)
(* that say the same, and such options are accepted.                       *)
StagedPlanIsProcessPlan ==
  \A h \in LiveHandles : objects[h].kind = "result" /\ Value(h).from # Null =>
    LET from  == Value(h).from
        o     == SameOptions(from.signals.by, from.config)
        model == ReadingModel(IF from.signals.by.model = "artifact"
                              THEN from.signals.by.config ELSE Null, Settings(o))
    IN  /\ Accepted(o, "direct")
        /\ Value(h).plan = PlanOf(Settings(o).presentation,
                                  AllSignals(from.signals.text, from.signals.analysis, model))
=============================================================================
