------------------------------ MODULE Pipeline ------------------------------
(***************************************************************************)
(* The stages between an analysis and an emphasis plan as functions: what  *)
(* a reading model makes of a whole analysis and a policy of all its       *)
(* signals (src/runtime/core/reading.cpp, emphasis.cpp).  Processing takes *)
(* the stages one node and one signal at a time, NativeApi in the calls of *)
(* the C ABI that run them.                                                *)
(***************************************************************************)
EXTENDS ProcessOptions

CONSTANTS
  AnalysesOf,   \* [slices -> analyses]: what a provider may answer on a slice
  Covers        \* language_matches: {<<a model's tag, a region's tag>>}

ASSUME AnalysesAssumption ==
  \A s \in DOMAIN AnalysesOf :
    IsText(s) /\ \A a \in AnalysesOf[s] : IsAnalysis(a) /\ ValidAnalysis(s, a)

(* The reading model: the artifact, or Null for one of the built-in two,   *)
(* which declare no languages                                              *)
ReadingModel(artifact, settings) ==
  IF artifact # Null THEN artifact
  ELSE [kind |-> settings.reading_model, prefix |-> settings.prefix, languages |-> {}]

Supports(m, language) ==
  m.languages = {} \/ \E tag \in m.languages : <<tag, language>> \in Covers

(* model_supports_analysis_languages *)
SupportsAll(m, a) == \A r \in Range(a.regions) : Supports(m, r.language)

(* What the reading model makes of an analysis, node after node *)
AllSignals(text, a, m) ==
  LET S[n \in 0..Len(a.nodes)] ==
        IF n = 0 THEN <<>> ELSE S[n - 1] \o SignalsOf(text, a, m, a.nodes[n])
  IN  S[Len(a.nodes)]

(* generate_emphasis: what the policy makes of them, signal after signal *)
PlanOf(policy, signals) ==
  LET P[n \in 0..Len(signals)] ==
        IF n = 0 THEN <<>> ELSE Present(policy, P[n - 1], signals[n])
  IN  P[Len(signals)]
=============================================================================
