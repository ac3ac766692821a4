-------------------------- MODULE ProcessingProofs --------------------------
(***************************************************************************)
(* What holds of every processing call, for all texts, options, partitions,*)
(* models and answers of the providers.                                    *)
(***************************************************************************)
EXTENDS Processing, ReadingLemmas

-----------------------------------------------------------------------------
(* Options of the three versions *)

OptionFields ==
  {"struct_size", "flags", "language", "prefix_strategy", "fixed_graphemes",
   "prefix_proportion", "emphasis_strength", "presentation_policy",
   "minimum_emphasis_strength", "salience_threshold", "reserved_v2", "reading_model",
   "reserved_v3"}

(* le_process_options_init and defaults() agree.                           *)
LEMMA InitialOptionsAreDefaults ==
  /\ DOMAIN InitialOptions = OptionFields
  /\ ValidOptions(InitialOptions)
  /\ InitialOptions.language = ""
  /\ Settings(InitialOptions) = Defaults
<1> USE ScaleAssumption
<1>1. DOMAIN InitialOptions = OptionFields
  BY DEF InitialOptions, OptionFields
<1>2. ValidOptions(InitialOptions)
  <2> DEFINE i == InitialOptions
  <2>1. /\ i.struct_size = 64 /\ i.flags = 0
        /\ i.prefix_strategy = "proportional"
        /\ i.reserved_v2 = 0 /\ i.reserved_v3 = 0
        /\ i.reading_model = "prefix"
    BY DEF InitialOptions, V3Size
  <2>0. /\ i.minimum_emphasis_strength <= i.emphasis_strength
        /\ i.presentation_policy = "binary"
    BY DEF InitialOptions
  <2>2. NormalizedProportion(i.prefix_proportion)
    BY ProportionAssumption DEF InitialOptions, NormalizedProportion
  <2>3. /\ Normalized(i.salience_threshold)
        /\ Normalized(i.minimum_emphasis_strength)
        /\ Normalized(i.emphasis_strength)
    BY FloatAssumption DEF Normalized, InitialOptions
  <2> HIDE DEF i
  <2>4. ValidLanguage(i.language)
    <3>1. i.language = ""
      BY DEF i, InitialOptions
    <3> QED
      BY <3>1, TagsAssumption DEF ValidLanguage
  <2>5. ValidPresentation(i.presentation_policy, i.salience_threshold,
                          i.minimum_emphasis_strength, i.emphasis_strength)
    BY <2>0, <2>3 DEF ValidPresentation
  <2>6. ValidOptions(i)
    BY <2>1, <2>2, <2>3, <2>4, <2>5 DEF ValidOptions, V1Size, V2Size, V3Size
  <2> QED
    BY <2>6 DEF i
<1>3. Settings(InitialOptions) = Defaults
  BY DEF InitialOptions, Settings, Defaults, PrefixOf, PresentationOf, V1Size, V2Size, V3Size
<1> QED
  BY <1>1, <1>2, <1>3 DEF InitialOptions

(* The newest options have an older structure's fields, and the            *)
(* initializer's for the rest.                                             *)
LEMMA NewestFields ==
  ASSUME NEW o, o # Null, DOMAIN o = OptionFields, o.struct_size \in {V1Size, V2Size}
  PROVE  LET n == Newest(o) IN
         /\ DOMAIN n = OptionFields
         /\ n.struct_size = V3Size /\ n.flags = o.flags /\ n.language = o.language
         /\ n.prefix_strategy = o.prefix_strategy
         /\ n.fixed_graphemes = o.fixed_graphemes
         /\ n.prefix_proportion = o.prefix_proportion
         /\ n.emphasis_strength = o.emphasis_strength
         /\ n.reserved_v2 = 0 /\ n.reserved_v3 = 0 /\ n.reading_model = "prefix"
         /\ IF o.struct_size = V2Size
            THEN /\ n.presentation_policy = o.presentation_policy
                 /\ n.minimum_emphasis_strength = o.minimum_emphasis_strength
                 /\ n.salience_threshold = o.salience_threshold
            ELSE /\ n.presentation_policy = "binary"
                 /\ n.minimum_emphasis_strength = 0
                 /\ n.salience_threshold = 0
<1> DEFINE own == {"flags", "language", "prefix_strategy", "fixed_graphemes",
                   "prefix_proportion", "emphasis_strength"}
                    \cup (IF o.struct_size < V2Size THEN {}
                          ELSE {"presentation_policy", "minimum_emphasis_strength",
                                "salience_threshold"})
           n == Newest(o)
<1>1. n = [f \in OptionFields |-> IF f \in own THEN o[f] ELSE InitialOptions[f]]
  BY DEF Newest, V1Size, V2Size, V3Size
<1>2. own = IF o.struct_size = V2Size
            THEN OptionFields \ {"struct_size", "reserved_v2", "reading_model", "reserved_v3"}
            ELSE {"flags", "language", "prefix_strategy", "fixed_graphemes",
                  "prefix_proportion", "emphasis_strength"}
  BY DEF OptionFields, V1Size, V2Size
<1> HIDE DEF own, n
<1>3. DOMAIN n = OptionFields
  BY <1>1
<1>4. \A f \in OptionFields : n[f] = IF f \in own THEN o[f] ELSE InitialOptions[f]
  BY <1>1
<1>5. /\ InitialOptions["struct_size"] = V3Size
      /\ InitialOptions["reserved_v2"] = 0 /\ InitialOptions["reserved_v3"] = 0
      /\ InitialOptions["reading_model"] = "prefix"
      /\ InitialOptions["presentation_policy"] = "binary"
      /\ InitialOptions["minimum_emphasis_strength"] = 0
      /\ InitialOptions["salience_threshold"] = 0
  BY DEF InitialOptions
<1>6. /\ n["struct_size"] = V3Size
      /\ n["reserved_v2"] = 0 /\ n["reserved_v3"] = 0 /\ n["reading_model"] = "prefix"
  BY <1>2, <1>4, <1>5 DEF OptionFields
<1>7. /\ n["flags"] = o["flags"] /\ n["language"] = o["language"]
      /\ n["prefix_strategy"] = o["prefix_strategy"]
      /\ n["fixed_graphemes"] = o["fixed_graphemes"]
      /\ n["prefix_proportion"] = o["prefix_proportion"]
      /\ n["emphasis_strength"] = o["emphasis_strength"]
  BY <1>2, <1>4 DEF OptionFields
<1>8. IF o.struct_size = V2Size
      THEN /\ n["presentation_policy"] = o["presentation_policy"]
           /\ n["minimum_emphasis_strength"] = o["minimum_emphasis_strength"]
           /\ n["salience_threshold"] = o["salience_threshold"]
      ELSE /\ n["presentation_policy"] = "binary"
           /\ n["minimum_emphasis_strength"] = 0
           /\ n["salience_threshold"] = 0
  BY <1>2, <1>4, <1>5 DEF OptionFields
<1> QED
  BY <1>3, <1>6, <1>7, <1>8 DEF n

(* Options that are accepted are accepted in their newest form and mean    *)
(* the same in it; and they are refused only for what that form is, or for *)
(* their size.                                                             *)
LEMMA NewestMeansTheSame ==
  ASSUME NEW o, o # Null => DOMAIN o = OptionFields /\ Newest(o) # Null,
         NEW mode
  PROVE  /\ Accepted(o, mode) =>
              Accepted(Newest(o), mode) /\ SettingsOf(o) = Settings(Newest(o))
         /\ o # Null /\ Accepted(Newest(o), mode) =>
              Accepted(o, mode) \/ o.struct_size \notin {V1Size, V2Size, V3Size}
<1>1. CASE o = Null
  BY <1>1, InitialOptionsAreDefaults DEF Accepted, SettingsOf, Newest
<1>2. CASE o # Null /\ o.struct_size >= V3Size
  BY <1>2 DEF Accepted, SettingsOf, Newest
<1>3. CASE o # Null /\ o.struct_size \in {V1Size, V2Size}
  <2> USE ScaleAssumption, FloatAssumption
  <2> DEFINE n == Newest(o)
  <2>1. /\ n.struct_size = V3Size /\ n.flags = o.flags /\ n.language = o.language
        /\ n.prefix_strategy = o.prefix_strategy
        /\ n.fixed_graphemes = o.fixed_graphemes
        /\ n.prefix_proportion = o.prefix_proportion
        /\ n.emphasis_strength = o.emphasis_strength
        /\ n.reserved_v2 = 0 /\ n.reserved_v3 = 0 /\ n.reading_model = "prefix"
        /\ IF o.struct_size = V2Size
            THEN /\ n.presentation_policy = o.presentation_policy
                 /\ n.minimum_emphasis_strength = o.minimum_emphasis_strength
                 /\ n.salience_threshold = o.salience_threshold
            ELSE /\ n.presentation_policy = "binary"
                 /\ n.minimum_emphasis_strength = 0
                 /\ n.salience_threshold = 0
    BY <1>3, NewestFields
  <2> HIDE DEF n
  <2>2. ValidOptions(o) <=> ValidOptions(n)
    <3>1. CASE o.struct_size = V2Size
      BY <2>1, <3>1 DEF ValidOptions, V1Size, V2Size, V3Size
    <3>2. CASE o.struct_size = V1Size
      BY <2>1, <3>2 DEF ValidOptions, ValidPresentation, Normalized, V1Size, V2Size, V3Size
    <3> QED
      BY <1>3, <3>1, <3>2
  <2>3. Settings(o) = Settings(n)
    <3>1. PrefixOf(o) = PrefixOf(n)
      BY <2>1 DEF PrefixOf
    <3>2. PresentationOf(o) = PresentationOf(n)
      BY <1>3, <2>1 DEF PresentationOf, Defaults, V1Size, V2Size, V3Size
    <3>3. /\ ~(o.struct_size >= V3Size) /\ n.struct_size >= V3Size
          /\ Defaults.reading_model = "prefix"
      BY <1>3, <2>1 DEF Defaults, V1Size, V2Size, V3Size
    <3> QED
      BY <2>1, <3>1, <3>2, <3>3 DEF Settings
  <2> QED
    BY <1>3, <2>1, <2>2, <2>3 DEF n, Accepted, SettingsOf
<1>4. CASE o # Null /\ ~(o.struct_size >= V3Size) /\ o.struct_size \notin {V1Size, V2Size}
  <2>1. ~ValidOptions(o)
    BY <1>4 DEF ValidOptions
  <2>2. o.struct_size # V3Size
    BY <1>4 DEF V3Size
  <2> QED
    BY <1>4, <2>1, <2>2 DEF Accepted
<1> QED
  BY <1>1, <1>2, <1>3, <1>4

(* Past the first stage the settings are those of accepted options, and    *)
(* only a direct call's options can make its arguments invalid.            *)
OptionsInv ==
  /\ call \in Calls
  /\ stage \notin {"options", "returned"} =>
       Accepted(call.options, call.mode) /\ settings = SettingsOf(call.options)
  /\ stage = "regions" => call.mode = "regions"
  /\ status = "INVALID_ARGUMENT" /\ call.mode = "direct" =>
       ~Accepted(call.options, call.mode)

(* A call past its options has accepted them, and works by what they say.  *)
LEMMA OptionsHold == Spec => []OptionsInv
<1>1. Init => OptionsInv
  BY DEF Init, OptionsInv
<1>2. OptionsInv /\ [Next]_vars => OptionsInv'
  <2> SUFFICES ASSUME OptionsInv, [Next]_vars PROVE OptionsInv'
    OBVIOUS
  <2> USE DEF OptionsInv, In, Enter, Finish
  <2>1. CASE ReadOptions
    BY <2>1, ProcessingAssumption DEF ReadOptions, CallShape
  <2>2. CASE CheckRegions
    BY <2>2 DEF CheckRegions
  <2>3. CASE Analyze \/ AnalyzeRegion \/ RegionsDone
    BY <2>3 DEF Analyze, AnalyzeRegion, RegionsDone
  <2>4. CASE ValidateMerge \/ ProviderFails \/ CheckLanguages
    BY <2>4 DEF ValidateMerge, ProviderFails, CheckLanguages
  <2>5. CASE ReadNode \/ PresentSignal \/ AllocationFails
    BY <2>5 DEF ReadNode, PresentSignal, AllocationFails
  <2>6. CASE UNCHANGED vars
    BY <2>6 DEF vars
  <2> QED
    BY <2>1, <2>2, <2>3, <2>4, <2>5, <2>6 DEF Next
<1> QED
  BY <1>1, <1>2, PTL DEF Spec

(* docs/c-api.md:10-14, 161-162: a call with an older version of the       *)
(* options, or with none, means what the same call with the newest version *)
(* and le_process_options_init's values means, and is accepted with it.    *)
THEOREM OlderOptionsAreNewest == Spec => []OlderOptionsMeanNewest
<1>1. OptionsInv => OlderOptionsMeanNewest
  <2> SUFFICES ASSUME OptionsInv PROVE OlderOptionsMeanNewest
    OBVIOUS
  <2>1. PICK o, mode : o = call.options /\ mode = call.mode
    OBVIOUS
  <2>2. o # Null => DOMAIN o = OptionFields /\ Newest(o) # Null
    BY <2>1, ProcessingAssumption, InitialOptionsAreDefaults DEF OptionsInv, CallShape, IsOptions
  <2>3. /\ Accepted(o, mode) =>
             Accepted(Newest(o), mode) /\ SettingsOf(o) = Settings(Newest(o))
        /\ o # Null /\ Accepted(Newest(o), mode) =>
             Accepted(o, mode) \/ o.struct_size \notin {V1Size, V2Size, V3Size}
    BY <2>2, NewestMeansTheSame
  <2>4. Accepted(Null, mode)
    BY DEF Accepted
  <2> QED
    BY <2>1, <2>3, <2>4 DEF OptionsInv, OlderOptionsMeanNewest
<1> QED
  BY <1>1, OptionsHold, PTL

-----------------------------------------------------------------------------
(* The merge of explicit regions *)

(* Where the regions merged so far end                                     *)
EndOf(k) == IF k = 0 THEN 0 ELSE call.regions[k].span.end

Merging == call.mode = "regions" /\ stage \in {"analyze", "validate"}
Analysed == stage \in {"languages", "read", "present"} \/ status = "OK"

(* The document's analysis is valid after every region, not just after the *)
(* last, and ends with the regions merged so far; and it stays what has    *)
(* been validated.                                                         *)
AnalysisInv ==
  /\ stage = "validate" => call.mode = "regions"
  /\ stage \in {"options", "regions"} => sources = <<>>
  /\ Merging =>
       /\ ValidPartition(Text, call.regions)
       /\ stage = "analyze" =>
            /\ at \in 0..Len(call.regions) /\ Len(sources) = at
            /\ EndsBy(analysis, EndOf(at))
  /\ Merging \/ Analysed => IsAnalysis(analysis) /\ ValidAnalysis(Text, analysis)

(* What a valid partition says of its regions                              *)
LEMMA RegionsOfPartition ==
  ASSUME NEW c \in Calls, ValidPartition(Text, c.regions), NEW k \in DOMAIN c.regions
  PROVE  LET r == c.regions[k] IN
         /\ IsRegion(r) /\ ValidSpan(Text, r.span)
         /\ r.language # "" /\ r.confidence \in 0..100
         /\ r.span.begin = IF k = 1 THEN 0 ELSE c.regions[k - 1].span.end
<1> DEFINE rs == c.regions
           r == rs[k]
<1>1. /\ rs \in Seq(Range(rs)) /\ \A x \in Range(rs) : x.span \in [begin : Nat, end : Nat]
  BY ProcessingAssumption DEF CallShape
<1>2. rs # <<>>
  <2>1. DOMAIN <<>> = {}
    OBVIOUS
  <2> QED
    BY <2>1
<1>3. r.span \in [begin : Nat, end : Nat]
  BY <1>1 DEF Range
<1>4. /\ r.span.begin = IF k = 1 THEN 0 ELSE rs[k - 1].span.end
      /\ r.span.begin < r.span.end
      /\ ValidSpan(Text, r.span)
      /\ r.language # "" /\ r.confidence \in 0..100
  BY <1>2 DEF ValidPartition
<1>5. IsSpan(r.span)
  <2>1. PICK b, e : /\ b = r.span.begin /\ e = r.span.end
                    /\ b \in Nat /\ e \in Nat /\ b < e
    <3>1. r.span.begin \in Nat /\ r.span.end \in Nat
      BY <1>3
    <3>2. r.span.begin < r.span.end
      BY <1>4, Zenon
    <3> QED
      BY <3>1, <3>2, Zenon
  <2>2. b <= e
    BY <2>1
  <2> QED
    BY <1>3, <2>1, <2>2 DEF IsSpan
<1>6. IsRegion(r)
  <2>1. \A x \in Range(rs) : x = Region(x.span, x.language, x.confidence)
    BY ProcessingAssumption DEF CallShape
  <2>2. PICK x : x = r
    OBVIOUS
  <2>3. x \in Range(rs)
    BY <2>2 DEF Range
  <2>4. IsRegion(x)
    BY <1>5, <2>1, <2>2, <2>3, Zenon DEF IsRegion
  <2> QED
    BY <2>2, <2>4
<1> QED
  BY <1>4, <1>6

(* One region: the invariant on the document's analysis holds on.          *)
LEMMA RegionStep ==
  ASSUME OptionsInv, AnalysisInv, AnalyzeRegion
  PROVE  AnalysisInv'
<1>1. /\ stage = "analyze" /\ status = "RUNNING" /\ call.mode = "regions"
      /\ at < Len(call.regions) /\ at' = at + 1
      /\ UNCHANGED <<call, stage, status>>
  BY DEF AnalyzeRegion, In
<1>2. PICK r, a : /\ r = call.regions[at + 1]
                  /\ a \in AnalysesOf[Slice(Text, r.span)]
                  /\ analysis' = Merge(analysis, a, r) /\ sources' = Append(sources, a)
  BY DEF AnalyzeRegion
<1>3. /\ ValidPartition(Text, call.regions) /\ at \in 0..Len(call.regions)
      /\ Len(sources) = at /\ EndsBy(analysis, EndOf(at))
      /\ IsAnalysis(analysis) /\ ValidAnalysis(Text, analysis)
  BY <1>1 DEF AnalysisInv, Merging
<1>4. CallShape(call) /\ call \in Calls /\ IsText(Text)
  BY ProcessingAssumption DEF OptionsInv
<1>5. PICK rs : rs = call.regions
  OBVIOUS
<1>6. rs \in Seq(Range(rs)) /\ at \in Nat /\ Len(rs) \in Nat /\ DOMAIN rs = 1..Len(rs)
  <2>1. rs \in Seq(Range(rs))
    BY <1>4, <1>5 DEF CallShape
  <2>2. Len(rs) \in Nat /\ DOMAIN rs = 1..Len(rs)
    BY <2>1
  <2> QED
    BY <1>3, <1>5, <2>1, <2>2
<1>7. at + 1 \in DOMAIN rs
  BY <1>1, <1>5, <1>6
<1>8. /\ IsRegion(r) /\ ValidSpan(Text, r.span)
      /\ r.language # "" /\ r.confidence \in 0..100
      /\ r.span.begin = IF at + 1 = 1 THEN 0 ELSE rs[(at + 1) - 1].span.end
  BY <1>2, <1>3, <1>4, <1>5, <1>7, RegionsOfPartition
<1>9. PICK e : e = EndOf(at) /\ e = r.span.begin /\ e \in Nat /\ e <= r.span.begin
  <2>1. r.span.begin \in Nat
    BY <1>8 DEF IsRegion, IsSpan
  <2>2. r.span.begin = EndOf(at)
    <3>1. (at + 1) - 1 = at /\ (at + 1 = 1 <=> at = 0)
      BY <1>6
    <3> QED
      BY <1>5, <1>8, <3>1 DEF EndOf
  <2> QED
    BY <2>1, <2>2
<1>10. IsAnalysis(a) /\ ValidAnalysis(Slice(Text, r.span), a)
  <2>1. r \in Range(rs)
    BY <1>2, <1>5, <1>7 DEF Range
  <2>2. Slice(Text, r.span) \in DOMAIN AnalysesOf
    BY <1>1, <1>3, <1>4, <1>5, <2>1, ProcessingAssumption DEF Pieces
  <2> QED
    BY <1>2, <2>2, AnalysesAssumption
<1>11. /\ IsAnalysis(analysis') /\ ValidAnalysis(Text, analysis')
       /\ EndsBy(analysis', r.span.end)
  BY <1>2, <1>3, <1>4, <1>8, <1>9, <1>10, MergeStaysValid
<1>12. EndOf(at)' = r.span.end
  <2>1. at + 1 # 0
    BY <1>6
  <2> QED
    BY <1>1, <1>2, <2>1 DEF EndOf
<1>13. at' \in 0..Len(call.regions) /\ Len(sources') = at'
  BY <1>1, <1>2, <1>3, <1>5, <1>6
<1> QED
  BY <1>1, <1>3, <1>11, <1>12, <1>13 DEF AnalysisInv, Merging, Analysed

(* The analysis of a call stays valid.                                     *)
LEMMA AnalysisHolds == Spec => []AnalysisInv
<1>1. Init => AnalysisInv
  BY DEF Init, AnalysisInv, Merging, Analysed
<1>2. OptionsInv /\ AnalysisInv /\ [Next]_vars => AnalysisInv'
  <2> SUFFICES ASSUME OptionsInv, AnalysisInv, [Next]_vars PROVE AnalysisInv'
    OBVIOUS
  <2> USE DEF AnalysisInv, Merging, Analysed, In, Enter, Finish
  <2>1. CASE ReadOptions
    <3>1. CASE call.mode = "regions"
      BY <2>1, <3>1 DEF ReadOptions
    <3>2. CASE call.mode # "regions"
      BY <2>1, <3>2 DEF ReadOptions
    <3> QED
      BY <3>1, <3>2
  <2>2. CASE CheckRegions
    <3>1. CASE ~ValidPartition(Text, call.regions)
      BY <2>2, <3>1 DEF CheckRegions
    <3>2. CASE ValidPartition(Text, call.regions)
      <4>1. /\ stage' = "analyze" /\ at' = 0 /\ status' = "RUNNING"
            /\ analysis' = DocumentRoot(Text) /\ UNCHANGED <<call, sources>>
        BY <2>2, <3>2 DEF CheckRegions
      <4>2. /\ IsAnalysis(analysis') /\ ValidAnalysis(Text, analysis')
            /\ EndsBy(analysis', 0)
        BY <4>1, ProcessingAssumption, DocumentRootIsValid
      <4>3. Len(call.regions) \in Nat
        BY ProcessingAssumption DEF OptionsInv, CallShape
      <4>4. at' \in 0..Len(call.regions) /\ Len(sources') = at'
        BY <2>2, <4>1, <4>3 DEF CheckRegions
      <4> QED
        BY <3>2, <4>1, <4>2, <4>4 DEF EndOf
    <3> QED
      BY <3>1, <3>2
  <2>3. CASE Analyze
    <3>1. Text \in DOMAIN AnalysesOf
      BY <2>3, ProcessingAssumption DEF Analyze, OptionsInv, Pieces
    <3>2. IsAnalysis(analysis') /\ ValidAnalysis(Text, analysis')
      BY <2>3, <3>1, AnalysesAssumption DEF Analyze
    <3> QED
      BY <2>3, <3>2 DEF Analyze
  <2>4. CASE AnalyzeRegion
    BY <2>4, RegionStep
  <2>5. CASE RegionsDone \/ ValidateMerge \/ ProviderFails
    BY <2>5 DEF RegionsDone, ValidateMerge, ProviderFails, OptionsInv
  <2>6. CASE CheckLanguages \/ ReadNode
    BY <2>6 DEF CheckLanguages, ReadNode
  <2>7. CASE PresentSignal \/ AllocationFails
    BY <2>7 DEF PresentSignal, AllocationFails
  <2>8. CASE UNCHANGED vars
    BY <2>8 DEF vars, EndOf
  <2> QED
    BY <2>1, <2>2, <2>3, <2>4, <2>5, <2>6, <2>7, <2>8 DEF Next
<1> QED
  BY <1>1, <1>2, OptionsHold, PTL DEF Spec

(* The analyses of the regions of any valid partition, however many, merge *)
(* into a valid analysis: the final validation of le_analyze_regions and   *)
(* le_process_regions never turns the providers' success into an error.    *)
THEOREM MergesAreValid == Spec => []MergeIsValid
<1>1. AnalysisInv => MergeIsValid
  BY DEF AnalysisInv, Merging, MergeIsValid, In
<1> QED
  BY <1>1, AnalysisHolds, PTL

-----------------------------------------------------------------------------
(* The settings of a call *)

IsSettings(s) ==
  /\ IsPolicy(s.presentation)
  /\ IsPrefix(s.prefix)
  /\ s.reading_model \in {"prefix", "lexical_core"}

(* A float the checks let pass is a number between 0 and 1.                *)
LEMMA NormalizedIsBounded ==
  ASSUME NEW x \in Int \cup {NotANumber}, Normalized(x)
  PROVE  x \in Nat /\ x <= Scale
BY ScaleAssumption DEF Normalized

(* The settings of accepted options, of every version, bound what follows. *)
LEMMA AcceptedSettings ==
  ASSUME NEW o, NEW mode, o # Null => IsOptions(o), Accepted(o, mode)
  PROVE  IsSettings(SettingsOf(o))
<1> USE ScaleAssumption
<1>1. IsSettings(Defaults)
  <2>1. IsPolicy(Defaults.presentation)
    BY DEF Defaults, IsPolicy
  <2>2. IsPrefix(Defaults.prefix)
    BY DEF Defaults, IsPrefix
  <2> QED
    BY <2>1, <2>2 DEF Defaults, IsSettings
<1>2. CASE o = Null
  BY <1>1, <1>2 DEF SettingsOf
<1>3. CASE o # Null
  <2>1. IsOptions(o) /\ ValidOptions(o)
    BY <1>3 DEF Accepted
  <2>2. IsPrefix(PrefixOf(o))
    <3>1. CASE o.prefix_strategy = "fixed"
      <4>1. PICK p : p = PrefixOf(o)
        OBVIOUS
      <4>2. p.strategy = "fixed" /\ p.graphemes = o.fixed_graphemes
        BY <3>1, <4>1 DEF PrefixOf
      <4>3. o.fixed_graphemes \in Nat
        BY <2>1 DEF IsOptions
      <4> QED
        BY <4>1, <4>2, <4>3 DEF IsPrefix
    <3>2. CASE o.prefix_strategy # "fixed"
      <4>1. PICK p, f : p = PrefixOf(o) /\ f = o.prefix_proportion
        OBVIOUS
      <4>2. p.strategy = "proportional" /\ p.proportion = f
        BY <3>2, <4>1 DEF PrefixOf
      <4>3. f \in [num : Int, den : Nat \ {0}] /\ 0 <= f.num
        BY <2>1, <4>1 DEF IsOptions, ValidOptions, NormalizedProportion
      <4>4. f.num \in Nat /\ f.den \in Nat \ {0}
        BY <4>3
      <4> QED
        BY <4>1, <4>2, <4>4 DEF IsPrefix
    <3> QED
      BY <3>1, <3>2
  <2>3. IsPolicy(PresentationOf(o))
    <3>1. o.emphasis_strength \in Nat /\ o.emphasis_strength <= Scale
      BY <2>1, NormalizedIsBounded DEF IsOptions, ValidOptions
    <3>2. CASE o.struct_size >= V2Size
      <4>1. /\ Normalized(o.minimum_emphasis_strength)
            /\ o.minimum_emphasis_strength <= o.emphasis_strength
        BY <2>1, <3>2 DEF ValidOptions, ValidPresentation
      <4>2. o.minimum_emphasis_strength \in Nat
        BY <2>1, <4>1, NormalizedIsBounded DEF IsOptions
      <4>3. PICK p : p = PresentationOf(o)
        OBVIOUS
      <4>4. p.minimum = o.minimum_emphasis_strength /\ p.maximum = o.emphasis_strength
        BY <3>2, <4>3 DEF PresentationOf
      <4> QED
        BY <3>1, <4>1, <4>2, <4>3, <4>4 DEF IsPolicy
    <3>3. CASE ~(o.struct_size >= V2Size)
      <4>1. PICK p : p = PresentationOf(o)
        OBVIOUS
      <4>2. p.minimum = 0 /\ p.maximum = o.emphasis_strength
        BY <3>3, <4>1 DEF PresentationOf, Defaults
      <4> QED
        BY <3>1, <4>1, <4>2 DEF IsPolicy
    <3> QED
      BY <3>2, <3>3
  <2>4. /\ SettingsOf(o).presentation = PresentationOf(o)
        /\ SettingsOf(o).prefix = PrefixOf(o)
        /\ SettingsOf(o).reading_model = IF o.struct_size >= V3Size THEN o.reading_model
                                         ELSE "prefix"
    BY <1>3 DEF SettingsOf, Settings, Defaults
  <2>5. SettingsOf(o).reading_model \in {"prefix", "lexical_core"}
    BY <2>1, <2>4 DEF ValidOptions
  <2> QED
    BY <2>2, <2>3, <2>4, <2>5 DEF IsSettings
<1> QED
  BY <1>2, <1>3

(* The control of a call, its settings and the sources of a merge          *)
ControlInv ==
  /\ call \in Calls
  /\ stage \in Stages
  /\ status \in {"RUNNING", "OK", "INVALID_ARGUMENT", "PLUGIN_FAILURE",
                 "UNSUPPORTED_LANGUAGE", "OUT_OF_MEMORY", "INTERNAL"}
  /\ stage = "returned" <=> status # "RUNNING"
  /\ at \in Nat
  /\ Len(sources) \in 0..Len(call.regions)
  /\ IsSettings(settings)

(* The control of a call keeps its types.                                  *)
LEMMA ControlHolds == Spec => []ControlInv
<1>1. Init => ControlInv
  <2> SUFFICES ASSUME Init PROVE ControlInv
    OBVIOUS
  <2>1. Accepted(Null, "direct") /\ SettingsOf(Null) = Defaults
    BY DEF Accepted, SettingsOf
  <2>2. IsSettings(settings)
    BY <2>1, AcceptedSettings DEF Init
  <2>3. Len(call.regions) \in Nat /\ Len(sources) = 0
    BY ProcessingAssumption DEF Init, CallShape
  <2> QED
    BY <2>2, <2>3 DEF Init, ControlInv, Stages
<1>2. ControlInv /\ AnalysisInv /\ [Next]_vars => ControlInv'
  <2> SUFFICES ASSUME ControlInv, AnalysisInv, [Next]_vars PROVE ControlInv'
    OBVIOUS
  <2> USE DEF ControlInv, Stages, In, Enter, Finish
  <2>1. CASE ReadOptions
    <3>1. Accepted(call.options, call.mode) => IsSettings(SettingsOf(call.options))
      BY ProcessingAssumption, AcceptedSettings DEF CallShape
    <3>2. IsSettings(settings')
      BY <2>1, <3>1 DEF ReadOptions
    <3> HIDE DEF ControlInv
    <3>3. /\ call \in Calls /\ at \in Nat /\ Len(sources) \in 0..Len(call.regions)
          /\ UNCHANGED <<call, sources>>
      BY <2>1 DEF ControlInv, ReadOptions
    <3>4. at' \in Nat /\ stage' \in {"regions", "analyze", "returned"}
      BY <2>1, <3>3 DEF ReadOptions
    <3>5. \/ status' = "RUNNING" /\ stage' # "returned"
          \/ status' = "INVALID_ARGUMENT" /\ stage' = "returned"
      BY <2>1 DEF ReadOptions
    <3> QED
      BY <3>2, <3>3, <3>4, <3>5 DEF ControlInv
  <2>2. CASE CheckRegions
    BY <2>2 DEF CheckRegions
  <2>3. CASE Analyze
    BY <2>3 DEF Analyze
  <2>4. CASE AnalyzeRegion
    <3>1. /\ at \in 0..Len(call.regions) /\ Len(sources) = at /\ at < Len(call.regions)
          /\ at \in Nat
      BY <2>4 DEF AnalysisInv, Merging, AnalyzeRegion
    <3>2. PICK a : sources' = Append(sources, a)
      BY <2>4 DEF AnalyzeRegion
    <3>3. Len(sources') = at + 1
      BY <3>1, <3>2
    <3>4. Len(sources') \in 0..Len(call.regions)
      BY <3>1, <3>3
    <3> QED
      BY <2>4, <3>4 DEF AnalyzeRegion
  <2>5. CASE RegionsDone \/ ValidateMerge \/ ProviderFails
    BY <2>5 DEF RegionsDone, ValidateMerge, ProviderFails
  <2>6. CASE CheckLanguages \/ ReadNode
    BY <2>6 DEF CheckLanguages, ReadNode
  <2>7. CASE PresentSignal \/ AllocationFails
    BY <2>7 DEF PresentSignal, AllocationFails
  <2>8. CASE UNCHANGED vars
    BY <2>8 DEF vars
  <2> QED
    BY <2>1, <2>2, <2>3, <2>4, <2>5, <2>6, <2>7, <2>8 DEF Next
<1> QED
  BY <1>1, <1>2, AnalysisHolds, PTL DEF Spec

(* Past the options, the reading model of a call is a model, and its       *)
(* policy is a policy.                                                     *)
LEMMA ModelOfCall ==
  ASSUME ControlInv
  PROVE  /\ IsModel(Model) /\ IsPolicy(Policy)
         /\ Model.kind = "segmental_salience" => Model.minimum \in Nat \ {0}
<1>1. CallShape(call) /\ IsSettings(settings)
  BY ProcessingAssumption DEF ControlInv
<1>2. IsPolicy(Policy)
  BY <1>1 DEF IsSettings, Policy
<1>3. CASE call.artifact # Null
  <2>1. Model = call.artifact /\ IsModel(Model)
    BY <1>1, <1>3 DEF Model, ReadingModel, CallShape
  <2> QED
    BY <1>2, <2>1 DEF IsModel
<1>4. CASE call.artifact = Null
  <2>1. PICK m : m = Model
    OBVIOUS
  <2>2. m = [kind |-> settings.reading_model, prefix |-> settings.prefix, languages |-> {}]
    BY <1>4, <2>1 DEF Model, ReadingModel
  <2>3. m.kind = settings.reading_model /\ m.prefix = settings.prefix
    BY <2>2
  <2>4. m.kind \in {"prefix", "lexical_core"} /\ IsPrefix(m.prefix)
    BY <1>1, <2>3 DEF IsSettings
  <2>5. IsModel(m) /\ m.kind # "segmental_salience"
    BY <2>4 DEF IsModel
  <2> QED
    BY <1>2, <2>1, <2>5
<1> QED
  BY <1>3, <1>4

-----------------------------------------------------------------------------
(* The reading model's loop *)

(* The nodes the model reads follow each other in the text.                *)
NodesInOrder ==
  \A i, j \in ReadNodes(analysis, Model) :
    i < j => NodeAt(analysis, i).span.end <= NodeAt(analysis, j).span.begin

(* Every signal lies in a node the loop has read.                          *)
SignalsFromBefore ==
  \A k \in DOMAIN signals : \E i \in ReadNodes(analysis, Model) :
    i < at /\ Contains(NodeAt(analysis, i).span, signals[k].span)

(* The signals so far are signals, and in the order of the text if the     *)
(* nodes they come from are.                                               *)
SignalsInv ==
  /\ stage \in {"options", "regions", "analyze", "validate", "languages"} => signals = <<>>
  /\ AreSignals(Text, signals)
  /\ stage = "read" => at <= Len(analysis.nodes) /\ SignalsFromBefore
  /\ stage \in {"read", "present"} \/ status = "OK" =>
       (NodesInOrder => SpansInOrder(signals))

(* One node: its signals go on with those of the nodes before.             *)
LEMMA ReadStep ==
  ASSUME ControlInv, AnalysisInv, SignalsInv, ReadNode, at < Len(analysis.nodes)
  PROVE  SignalsInv'
<1>1. /\ stage = "read" /\ status = "RUNNING" /\ at' = at + 1
      /\ UNCHANGED <<stage, status, call, settings, analysis>>
      /\ signals' = signals \o SignalsOf(Text, analysis, Model, NodeAt(analysis, at))
  BY DEF ReadNode, In
<1>2. PICK a, m, n, q, s, p, N :
        /\ a = analysis /\ m = Model /\ n = at /\ s = NodeAt(a, n).span
        /\ q = SignalsOf(Text, a, m, NodeAt(a, n)) /\ p = signals
        /\ N = ReadNodes(a, m)
  OBVIOUS
<1>3. IsAnalysis(a) /\ ValidAnalysis(Text, a) /\ IsReadable(Text, a)
  BY <1>1, <1>2, ProcessingAssumption
     DEF AnalysisInv, Analysed, IsReadable, ValidAnalysis
<1>4. n \in Nat /\ Len(a.nodes) \in Nat /\ n \in Ids(a) /\ n + 1 <= Len(a.nodes)
  <2>1. Len(a.nodes) \in Nat
    BY <1>3 DEF IsAnalysis
  <2>2. n \in Nat /\ n < Len(a.nodes)
    BY <1>2 DEF ControlInv
  <2> QED
    BY <2>1, <2>2 DEF Ids
<1>5. IsModel(m)
  BY <1>2, ModelOfCall
<1>6. IsReading(Text, s, q) /\ IsSpan(s)
  BY <1>2, <1>3, <1>4, <1>5, ModelsReadInPlace, ReadableNodes DEF IsNode
<1>7. PICK c : c = p \o q
  OBVIOUS
<1>8. /\ AreSignals(Text, p)
      /\ \A k \in DOMAIN p : \E i \in N : i < n /\ Contains(NodeAt(a, i).span, p[k].span)
  BY <1>1, <1>2 DEF SignalsInv, SignalsFromBefore
<1>9. /\ AreSignals(Text, c)
      /\ SpansInOrder(p) /\ (q # <<>> => EndsUntil(p, s.begin)) => SpansInOrder(c)
      /\ \A k \in DOMAIN c : \/ \E j \in DOMAIN p : c[k] = p[j]
                             \/ q # <<>> /\ Contains(s, c[k].span)
  <2>1. Joined(Text, p, s, q, c)
    BY <1>6, <1>7, <1>8, ReadingsJoin
  <2> QED
    BY <2>1 DEF Joined
<1>10. q # <<>> => n \in N
  BY <1>2, <1>4 DEF ReadNodes
<1>11. N \subseteq Ids(a) /\ Ids(a) \subseteq Nat
  BY <1>2, <1>4 DEF ReadNodes, Ids
<1>12. \A i \in N : i < n => i < n + 1
  BY <1>4, <1>11
<1>13. ASSUME NEW k \in DOMAIN c
       PROVE  \E i \in N : i < n + 1 /\ Contains(NodeAt(a, i).span, c[k].span)
  <2>1. CASE \E j \in DOMAIN p : c[k] = p[j]
    BY <1>8, <1>12, <2>1
  <2>2. CASE q # <<>> /\ Contains(s, c[k].span)
    <3>1. n < n + 1
      BY <1>4
    <3> QED
      BY <1>2, <1>10, <2>2, <3>1
  <2> QED
    BY <1>9, <2>1, <2>2
<1>14. ASSUME \A i, j \in N : i < j => NodeAt(a, i).span.end <= NodeAt(a, j).span.begin
       PROVE  SpansInOrder(c)
  <2>1. SpansInOrder(p)
    BY <1>1, <1>2, <1>14 DEF SignalsInv, NodesInOrder
  <2>2. ASSUME q # <<>>, NEW k \in DOMAIN p PROVE p[k].span.end <= s.begin
    <3>1. PICK i \in N : i < n /\ Contains(NodeAt(a, i).span, p[k].span)
      BY <1>8
    <3>2. PICK x, y, z : x = p[k].span.end /\ y = NodeAt(a, i).span.end /\ z = s.begin
      OBVIOUS
    <3>3. y <= z
      BY <1>2, <1>10, <1>14, <2>2, <3>1, <3>2
    <3>4. x <= y
      BY <3>1, <3>2 DEF Contains
    <3>5. x \in Nat
      BY <1>8, <2>2, <3>2 DEF AreSignals, IsSignal, IsSpan
    <3>6. y \in Nat
      BY <1>3, <1>11, <3>1, <3>2, ReadableNodes DEF IsNode, IsSpan
    <3>7. z \in Nat
      BY <1>6, <3>2 DEF IsSpan
    <3>8. x <= z
      BY <3>3, <3>4, <3>5, <3>6, <3>7
    <3> QED
      BY <3>2, <3>8
  <2>3. q # <<>> => EndsUntil(p, s.begin)
    BY <2>2 DEF EndsUntil
  <2> QED
    BY <1>9, <2>1, <2>3
<1>15. /\ signals' = c /\ at' = n + 1 /\ analysis' = a /\ Model' = m
       /\ ReadNodes(analysis, Model)' = N
  <2>1. Model' = Model
    BY <1>1 DEF Model
  <2> QED
    BY <1>1, <1>2, <1>7, <2>1 DEF ReadNodes
<1>16. SignalsFromBefore'
  BY <1>13, <1>15 DEF SignalsFromBefore
<1>17. NodesInOrder' => SpansInOrder(signals')
  BY <1>14, <1>15 DEF NodesInOrder
<1> QED
  BY <1>1, <1>4, <1>9, <1>15, <1>16, <1>17 DEF SignalsInv

(* The signals of a call stay signals, in order.                           *)
LEMMA SignalsHold == Spec => []SignalsInv
<1>1. Init => SignalsInv
  <2> SUFFICES ASSUME Init PROVE SignalsInv
    OBVIOUS
  <2>1. stage = "options" /\ status = "RUNNING" /\ signals = <<>>
    BY DEF Init
  <2>2. AreSignals(Text, <<>>)
    <3>1. DOMAIN <<>> = {} /\ <<>> \in Seq(Range(<<>>))
      OBVIOUS
    <3> QED
      BY <3>1 DEF AreSignals
  <2> QED
    BY <2>1, <2>2 DEF SignalsInv
<1>2. ControlInv /\ AnalysisInv /\ SignalsInv /\ [Next]_vars => SignalsInv'
  <2> SUFFICES ASSUME ControlInv, AnalysisInv, SignalsInv, [Next]_vars PROVE SignalsInv'
    OBVIOUS
  <2> USE DEF SignalsInv, In, Enter, Finish
  <2>1. CASE ReadOptions \/ CheckRegions
    BY <2>1 DEF ReadOptions, CheckRegions
  <2>2. CASE Analyze \/ AnalyzeRegion \/ RegionsDone
    BY <2>2 DEF Analyze, AnalyzeRegion, RegionsDone
  <2>3. CASE ValidateMerge \/ ProviderFails
    BY <2>3 DEF ValidateMerge, ProviderFails
  <2>4. CASE CheckLanguages
    <3>1. signals = <<>> /\ signals' = <<>>
      BY <2>4 DEF CheckLanguages
    <3>2. DOMAIN signals' = {}
      BY <3>1
    <3>3. SignalsFromBefore' /\ SpansInOrder(signals')
      BY <3>2 DEF SignalsFromBefore, SpansInOrder
    <3>4. AreSignals(Text, signals)
      OBVIOUS
    <3>5. 0 <= Len(analysis.nodes)
      <4>1. IsAnalysis(analysis)
        BY <2>4 DEF CheckLanguages, AnalysisInv, Analysed
      <4>2. Len(analysis.nodes) \in Nat
        BY <4>1 DEF IsAnalysis
      <4> QED
        BY <4>2
    <3>6. UNCHANGED <<signals, analysis>> /\ (stage' = "read" => at' = 0)
      BY <2>4 DEF CheckLanguages
    <3>7. stage' \in {"read", "returned"}
      BY <2>4 DEF CheckLanguages
    <3> QED
      BY <3>1, <3>3, <3>4, <3>5, <3>6, <3>7 DEF SignalsInv
  <2>5. CASE ReadNode
    <3>1. CASE at < Len(analysis.nodes)
      BY <2>5, <3>1, ReadStep
    <3>2. CASE ~(at < Len(analysis.nodes))
      <4>1. /\ stage = "read" /\ stage' = "present" /\ status' = status
            /\ UNCHANGED <<call, settings, analysis, signals>>
        BY <2>5, <3>2 DEF ReadNode
      <4>2. Model' = Model
        BY <4>1 DEF Model
      <4>3. NodesInOrder' <=> NodesInOrder
        BY <4>1, <4>2 DEF NodesInOrder, ReadNodes
      <4> QED
        BY <4>1, <4>3
    <3> QED
      BY <3>1, <3>2
  <2>6. CASE PresentSignal
    <3>1. /\ stage = "present" /\ UNCHANGED <<call, settings, analysis, signals>>
          /\ stage' \in {"present", "returned"}
      BY <2>6 DEF PresentSignal
    <3>2. Model' = Model
      BY <3>1 DEF Model
    <3>3. NodesInOrder' <=> NodesInOrder
      BY <3>1, <3>2 DEF NodesInOrder, ReadNodes
    <3> QED
      BY <3>1, <3>3
  <2>7. CASE AllocationFails
    BY <2>7 DEF AllocationFails
  <2>8. CASE UNCHANGED vars
    <3>1. Model' = Model
      BY <2>8 DEF Model, vars
    <3>2. NodesInOrder' <=> NodesInOrder
      BY <2>8, <3>1 DEF NodesInOrder, ReadNodes, vars
    <3>3. SignalsFromBefore' <=> SignalsFromBefore
      BY <2>8, <3>1 DEF SignalsFromBefore, ReadNodes, vars
    <3> QED
      BY <2>8, <3>2, <3>3 DEF vars
  <2> QED
    BY <2>1, <2>2, <2>3, <2>4, <2>5, <2>6, <2>7, <2>8 DEF Next
<1> QED
  BY <1>1, <1>2, ControlHolds, AnalysisHolds, PTL DEF Spec

-----------------------------------------------------------------------------
(* The policy's loop *)

(* The strengths the first n signals ask for at g                          *)
AskedBy(n, g) ==
  {Strength(Policy, signals[j].salience) :
     j \in {i \in 1..n : Passes(Policy, signals[i]) /\ OverAt(signals[i], g)}}

(* The plan so far is a plan that emphasizes what the signals the loop has *)
(* handled ask for, and ends before the signals still to come if they are  *)
(* in the order of the text.                                               *)
EmphasisInv ==
  /\ stage \notin {"present", "returned"} => emphasis = <<>>
  /\ IsPlan(Text, Policy.minimum * Scale, Policy.maximum * Scale, emphasis)
  /\ stage = "present" \/ status = "OK" =>
       /\ at <= Len(signals)
       /\ \A g \in Nat : StrengthsAt(emphasis, g) = AskedBy(at, g)
       /\ SpansInOrder(signals) =>
            /\ PlanInOrder(emphasis)
            /\ \A k \in (at + 1)..Len(signals) : EndsUntil(emphasis, signals[k].span.begin)
  /\ status = "OK" => at = Len(signals)

(* One signal                                                              *)
LEMMA PresentStep ==
  ASSUME ControlInv, SignalsInv, EmphasisInv, PresentSignal, at < Len(signals)
  PROVE  EmphasisInv'
<1>1. /\ stage = "present" /\ status = "RUNNING" /\ at' = at + 1
      /\ UNCHANGED <<stage, status, call, settings, signals>>
      /\ emphasis' = Present(Policy, emphasis, signals[at + 1])
  BY DEF PresentSignal, In
<1>2. PICK p, q, n, L, s, low, high, h :
        /\ p = Policy /\ q = emphasis /\ n = at /\ L = Len(signals) /\ s = signals[n + 1]
        /\ low = p.minimum * Scale /\ high = p.maximum * Scale
        /\ h = Present(p, q, s)
  OBVIOUS
<1>3. PICK S : S = signals
  OBVIOUS
<1>4. /\ S \in Seq(Range(S)) /\ L = Len(S) /\ L \in Nat /\ DOMAIN S = 1..L
      /\ n \in Nat /\ n + 1 \in 1..L /\ n + 1 <= L /\ s = S[n + 1]
  <2>1. S \in Seq(Range(S))
    BY <1>3 DEF SignalsInv, AreSignals
  <2>2. Len(S) \in Nat /\ DOMAIN S = 1..Len(S)
    BY <2>1
  <2>3. n \in Nat /\ n < Len(S)
    BY <1>2, <1>3 DEF ControlInv
  <2> QED
    BY <1>2, <1>3, <2>1, <2>2, <2>3
<1>5. IsPolicy(p) /\ \A k \in 1..L : IsSignal(Text, S[k])
  BY <1>2, <1>3, <1>4, ModelOfCall DEF SignalsInv, AreSignals
<1>6. PICK e : e = [span |-> s.span, strength |-> Strength(p, s.salience)]
  OBVIOUS
<1>7. Passes(p, s) => IsEmphasis(Text, low, high, e)
  BY <1>2, <1>4, <1>5, <1>6, SignalsToEmphasis
<1>8. h = IF Passes(p, s) THEN AppendNormalized(q, e) ELSE q
  BY <1>2, <1>6 DEF Present
<1>9. IsPlan(Text, low, high, q)
  BY <1>2 DEF EmphasisInv
<1>10. IsPlan(Text, low, high, h)
  BY <1>7, <1>8, <1>9, PlansStayPlans
<1> DEFINE Asked(m, g) == {Strength(p, S[j].salience) :
                             j \in {i \in 1..m : Passes(p, S[i]) /\ OverAt(S[i], g)}}
<1>11. \A m, g : AskedBy(m, g) = Asked(m, g)
  BY <1>2, <1>3 DEF AskedBy
<1>12. ASSUME NEW g \in Nat PROVE StrengthsAt(h, g) = Asked(n + 1, g)
  <2>1. StrengthsAt(q, g) = Asked(n, g)
    BY <1>1, <1>2, <1>11 DEF EmphasisInv
  <2>2. 1..(n + 1) = 1..n \cup {n + 1}
    BY <1>4
  <2>3. Asked(n + 1, g) = Asked(n, g) \cup
          (IF Passes(p, s) /\ OverAt(s, g) THEN {Strength(p, s.salience)} ELSE {})
    BY <1>4, <2>2
  <2> HIDE DEF Asked
  <2>4. CASE Passes(p, s)
    <3>1. StrengthsAt(h, g) = StrengthsAt(q, g)
            \cup (IF OverAt(e, g) THEN {e.strength} ELSE {})
      BY <1>7, <1>8, <1>9, <2>4, AppendingAdds
    <3>2. e.strength = Strength(p, s.salience) /\ (OverAt(e, g) <=> OverAt(s, g))
      BY <1>6 DEF OverAt
    <3> QED
      BY <2>1, <2>3, <2>4, <3>1, <3>2
  <2>5. CASE ~Passes(p, s)
    BY <1>8, <2>1, <2>3, <2>5
  <2> QED
    BY <2>4, <2>5
<1>13. ASSUME SpansInOrder(S)
       PROVE  PlanInOrder(h) /\ \A k \in (n + 2)..L : EndsUntil(h, S[k].span.begin)
  <2>1. PlanInOrder(q) /\ \A k \in (n + 1)..L : EndsUntil(q, S[k].span.begin)
    BY <1>1, <1>2, <1>3, <1>13 DEF EmphasisInv
  <2>2. \A k \in (n + 2)..L : k \in (n + 1)..L /\ k \in 1..L /\ n + 1 < k
    BY <1>4
  <2>3. n + 1 \in (n + 1)..L
    BY <1>4
  <2>4. CASE ~Passes(p, s)
    BY <1>8, <2>1, <2>2, <2>4
  <2>5. CASE Passes(p, s)
    <3>1. e.span = s.span /\ EndsUntil(q, e.span.begin)
      BY <1>4, <1>6, <2>1, <2>3
    <3>2. PlanInOrder(h) /\ EndsUntil(h, e.span.end)
      BY <1>7, <1>8, <1>9, <2>1, <2>5, <3>1, AppendingKeepsOrder
    <3>3. ASSUME NEW k \in (n + 2)..L, NEW i \in DOMAIN h
          PROVE  h[i].span.end <= S[k].span.begin
      <4>1. PICK x, y, z : x = h[i].span.end /\ y = e.span.end /\ z = S[k].span.begin
        OBVIOUS
      <4>2. x <= y
        BY <3>2, <4>1 DEF EndsUntil
      <4>3. y <= z
        BY <1>4, <1>13, <2>2, <3>1, <4>1 DEF SpansInOrder
      <4>4. x \in Nat
        BY <1>10, <4>1 DEF IsPlan, IsEmphasis, IsSpan
      <4>5. y \in Nat
        BY <1>7, <2>5, <4>1 DEF IsEmphasis, IsSpan
      <4>6. z \in Nat
        BY <1>5, <2>2, <4>1 DEF IsSignal, IsSpan
      <4>7. x <= z
        BY <4>2, <4>3, <4>4, <4>5, <4>6
      <4> QED
        BY <4>1, <4>7
    <3> QED
      BY <3>2, <3>3 DEF EndsUntil
  <2> QED
    BY <2>4, <2>5
<1>14. /\ emphasis' = h /\ at' = n + 1 /\ signals' = S /\ Policy' = p
       /\ stage' = "present" /\ status' = "RUNNING"
  <2>1. Policy' = Policy
    BY <1>1 DEF Policy
  <2>2. emphasis' = h
    BY <1>1, <1>2
  <2> QED
    BY <1>1, <1>2, <1>3, <2>1, <2>2
<1>15. ASSUME NEW g PROVE AskedBy(at, g)' = Asked(n + 1, g)
  BY <1>14 DEF AskedBy
<1>16. (n + 1) + 1 = n + 2
  BY <1>4
<1> HIDE DEF Asked
<1>17. \A g \in Nat : StrengthsAt(emphasis', g) = AskedBy(at, g)'
  BY <1>12, <1>14, <1>15
<1> QED
  BY <1>2, <1>4, <1>10, <1>13, <1>14, <1>16, <1>17 DEF EmphasisInv

(* A step that leaves the signals, the plan and the settings alone, and    *)
(* does not enter or leave the policy's loop with success, keeps the plan. *)
LEMMA EmphasisKept ==
  ASSUME EmphasisInv, UNCHANGED <<signals, emphasis, settings>>,
         stage' = "present" => stage = "present" /\ at' = at,
         status' = "OK" => status = "OK" /\ at' = at,
         stage' \notin {"present", "returned"} => stage \notin {"present", "returned"}
  PROVE  EmphasisInv'
<1>1. Policy' = Policy
  BY DEF Policy
<1>2. (stage' = "present" \/ status' = "OK") => at' = at
  OBVIOUS
<1>3. \A n, g : AskedBy(n, g)' = AskedBy(n, g)
  BY <1>1 DEF AskedBy
<1>4. ASSUME stage' = "present" \/ status' = "OK", NEW g \in Nat
      PROVE  StrengthsAt(emphasis', g) = AskedBy(at, g)'
  <2>1. at' = at /\ StrengthsAt(emphasis, g) = AskedBy(at, g)
    BY <1>4 DEF EmphasisInv
  <2>2. AskedBy(at, g)' = AskedBy(at, g)
    BY <1>1, <2>1 DEF AskedBy
  <2> QED
    BY <2>1, <2>2
<1> QED
  BY <1>1, <1>4 DEF EmphasisInv

(* The plan of a call is at every step what the signals so far ask for.    *)
LEMMA EmphasisHolds == Spec => []EmphasisInv
<1>1. Init => EmphasisInv
  <2> SUFFICES ASSUME Init PROVE EmphasisInv
    OBVIOUS
  <2>1. stage = "options" /\ status = "RUNNING" /\ emphasis = <<>>
    BY DEF Init
  <2>2. IsPlan(Text, Policy.minimum * Scale, Policy.maximum * Scale, <<>>)
    <3>1. DOMAIN <<>> = {} /\ <<>> \in Seq(Range(<<>>))
      OBVIOUS
    <3> QED
      BY <3>1 DEF IsPlan
  <2> QED
    BY <2>1, <2>2 DEF EmphasisInv
<1>2. ControlInv /\ SignalsInv /\ EmphasisInv /\ [Next]_vars => EmphasisInv'
  <2> SUFFICES ASSUME ControlInv, SignalsInv, EmphasisInv, [Next]_vars PROVE EmphasisInv'
    OBVIOUS
  <2> USE DEF In, Enter, Finish
  <2>1. CASE ReadOptions
    <3>1. /\ emphasis = <<>> /\ emphasis' = <<>>
          /\ stage' # "present" /\ status' # "OK"
      BY <2>1 DEF ReadOptions, EmphasisInv
    <3>2. IsPlan(Text, Policy'.minimum * Scale, Policy'.maximum * Scale, <<>>)
      <4>1. DOMAIN <<>> = {} /\ <<>> \in Seq(Range(<<>>))
        OBVIOUS
      <4> QED
        BY <4>1 DEF IsPlan
    <3> QED
      BY <3>1, <3>2 DEF EmphasisInv
  <2>2. CASE CheckRegions \/ Analyze \/ AnalyzeRegion \/ RegionsDone
    BY <2>2, EmphasisKept DEF CheckRegions, Analyze, AnalyzeRegion, RegionsDone
  <2>3. CASE ValidateMerge \/ ProviderFails \/ CheckLanguages
    BY <2>3, EmphasisKept DEF ValidateMerge, ProviderFails, CheckLanguages
  <2>4. CASE ReadNode
    <3>1. CASE at < Len(analysis.nodes)
      <4>1. /\ emphasis = <<>> /\ emphasis' = <<>> /\ stage' = "read" /\ status' = "RUNNING"
            /\ Policy' = Policy
        BY <2>4, <3>1 DEF ReadNode, EmphasisInv, Policy
      <4> QED
        BY <4>1 DEF EmphasisInv
    <3>2. CASE ~(at < Len(analysis.nodes))
      <4>1. /\ emphasis = <<>> /\ emphasis' = <<>> /\ stage' = "present" /\ status' = "RUNNING"
            /\ at' = 0 /\ signals' = signals /\ Policy' = Policy
        BY <2>4, <3>2 DEF ReadNode, EmphasisInv, Policy
      <4>2. Len(signals) \in Nat
        BY DEF SignalsInv, AreSignals
      <4>3. Range(<<>>) = {} /\ DOMAIN <<>> = {} /\ Len(<<>>) = 0
        BY DEF Range
      <4>4. \A g : StrengthsAt(<<>>, g) = {}
        BY <4>3 DEF StrengthsAt
      <4>5. ASSUME NEW g PROVE AskedBy(at, g)' = {}
        <5>1. 1..0 = {}
          OBVIOUS
        <5> QED
          BY <4>1, <5>1 DEF AskedBy
      <4>6. PlanInOrder(<<>>) /\ \A x : EndsUntil(<<>>, x)
        BY <4>3 DEF PlanInOrder, EndsUntil
      <4>7. IsPlan(Text, Policy.minimum * Scale, Policy.maximum * Scale, <<>>)
        BY <4>1 DEF EmphasisInv
      <4>8. at' <= Len(signals')
        BY <4>1, <4>2
      <4>9. \A g \in Nat : StrengthsAt(emphasis', g) = AskedBy(at, g)'
        BY <4>1, <4>4, <4>5
      <4>10. PlanInOrder(emphasis')
             /\ \A k \in (at' + 1)..Len(signals') : EndsUntil(emphasis', signals'[k].span.begin)
        BY <4>1, <4>6
      <4>11. IsPlan(Text, Policy'.minimum * Scale, Policy'.maximum * Scale, emphasis')
        BY <4>1, <4>7
      <4>12. stage' = "present" /\ status' # "OK"
        BY <4>1
      <4> QED
        BY <4>8, <4>9, <4>10, <4>11, <4>12 DEF EmphasisInv
    <3> QED
      BY <3>1, <3>2
  <2>5. CASE PresentSignal
    <3>1. CASE at < Len(signals)
      BY <2>5, <3>1, PresentStep
    <3>2. CASE ~(at < Len(signals))
      <4>1. /\ UNCHANGED <<signals, emphasis, settings, at>> /\ stage = "present"
            /\ stage' = "returned" /\ status' = "OK" /\ Policy' = Policy
        BY <2>5, <3>2 DEF PresentSignal, Policy
      <4>2. at = Len(signals)
        <5>1. at \in Nat /\ at <= Len(signals) /\ Len(signals) \in Nat
          BY <4>1 DEF ControlInv, EmphasisInv, SignalsInv, AreSignals
        <5> QED
          BY <3>2, <5>1
      <4>3. ASSUME NEW g \in Nat PROVE StrengthsAt(emphasis', g) = AskedBy(at, g)'
        <5>1. StrengthsAt(emphasis, g) = AskedBy(at, g)
          BY <4>1 DEF EmphasisInv
        <5>2. AskedBy(at, g)' = AskedBy(at, g)
          BY <4>1 DEF AskedBy
        <5> QED
          BY <4>1, <5>1, <5>2
      <4> QED
        BY <4>1, <4>2, <4>3 DEF EmphasisInv
    <3> QED
      BY <3>1, <3>2
  <2>6. CASE AllocationFails
    BY <2>6, EmphasisKept DEF AllocationFails
  <2>7. CASE UNCHANGED vars
    BY <2>7, EmphasisKept DEF vars
  <2> QED
    BY <2>1, <2>2, <2>3, <2>4, <2>5, <2>6, <2>7 DEF Next
<1> QED
  BY <1>1, <1>2, ControlHolds, SignalsHold, PTL DEF Spec

-----------------------------------------------------------------------------
(* What is promised of a call *)

(* Saliences and strengths stay between their bounds, and spans inside of  *)
(* the text, whatever a learned model predicts, whatever the providers     *)
(* answer and whatever version of the options set the bounds.              *)
THEOREM CallsAreTyped == Spec => []TypeOK
<1>1. ControlInv /\ SignalsInv /\ EmphasisInv => TypeOK
  <2> SUFFICES ASSUME ControlInv, SignalsInv, EmphasisInv PROVE TypeOK
    OBVIOUS
  <2>1. ASSUME NEW s, IsSpan(s), ValidSpan(Text, s) PROVE s \in Spans
    <3>1. s.begin \in Text.breaks /\ s.end \in Text.breaks
      BY <2>1 DEF ValidSpan
    <3>2. s.begin \in 0..Text.size /\ s.end \in 0..Text.size
      BY <3>1, ProcessingAssumption DEF IsText
    <3> QED
      BY <2>1, <3>2 DEF IsSpan, Spans
  <2>2. PICK p, low, high : /\ p = Policy /\ low = p.minimum * Scale
                            /\ high = p.maximum * Scale
    OBVIOUS
  <2>3. IsPolicy(p)
    BY <2>2, ModelOfCall
  <2>4. 0 <= p.minimum /\ p.minimum <= p.maximum /\ p.maximum <= Scale
    BY <2>3 DEF IsPolicy
  <2>5. signals \in Seq([span : Spans, salience : 1..Scale])
    <3>1. PICK q, S : q = signals /\ S = [span : Spans, salience : 1..Scale]
      OBVIOUS
    <3>2. q \in Seq(Range(q)) /\ \A k \in DOMAIN q : IsSignal(Text, q[k])
      BY <3>1 DEF SignalsInv, AreSignals
    <3>3. ASSUME NEW k \in DOMAIN q PROVE q[k] \in S
      <4>1. PICK g : g = q[k]
        OBVIOUS
      <4>2. /\ g = [span |-> g.span, salience |-> g.salience]
            /\ g.span \in Spans /\ g.salience \in 1..Scale
        BY <2>1, <3>2, <4>1 DEF IsSignal
      <4> QED
        BY <3>1, <4>1, <4>2
    <3>4. q \in Seq(S)
      BY <3>2, <3>3
    <3> QED
      BY <3>1, <3>4
  <2>6. emphasis \in Seq([span : Spans, strength : low..high])
    <3>1. PICK q, S : q = emphasis /\ S = [span : Spans, strength : low..high]
      OBVIOUS
    <3>2. q \in Seq(Range(q)) /\ \A k \in DOMAIN q : IsEmphasis(Text, low, high, q[k])
      BY <2>2, <3>1 DEF EmphasisInv, IsPlan
    <3>3. ASSUME NEW k \in DOMAIN q PROVE q[k] \in S
      <4>1. PICK g : g = q[k]
        OBVIOUS
      <4>2. /\ g = [span |-> g.span, strength |-> g.strength]
            /\ g.span \in Spans /\ g.strength \in low..high
        BY <2>1, <3>2, <4>1 DEF IsEmphasis
      <4> QED
        BY <3>1, <4>1, <4>2
    <3>4. q \in Seq(S)
      BY <3>2, <3>3
    <3> QED
      BY <3>1, <3>4
  <2>7. Len(sources) <= Len(call.regions)
    <3>1. Len(call.regions) \in Nat
      BY ProcessingAssumption DEF ControlInv, CallShape
    <3> QED
      BY <3>1 DEF ControlInv
  <2> QED
    BY <2>2, <2>4, <2>5, <2>6, <2>7 DEF ControlInv, TypeOK
<1> QED
  BY <1>1, ControlHolds, SignalsHold, EmphasisHolds, PTL

(* docs/text-and-offsets.md:17-20, docs/reading-and-presentation.md:53: at *)
(* every step of the policy's loop every span of the plan has text, splits *)
(* no grapheme, and does not just go on with the emphasis before it.       *)
THEOREM PlansAreNormalized == Spec => []PlanIsNormalized
<1>1. EmphasisInv => PlanIsNormalized
  <2> SUFFICES ASSUME EmphasisInv PROVE PlanIsNormalized
    OBVIOUS
  <2>1. PICK q, low, high : /\ q = emphasis /\ low = Policy.minimum * Scale
                            /\ high = Policy.maximum * Scale
    OBVIOUS
  <2>2. IsPlan(Text, low, high, q)
    BY <2>1 DEF EmphasisInv
  <2>3. \A k \in DOMAIN q : ValidSpan(Text, q[k].span) /\ q[k].span.begin < q[k].span.end
    BY <2>2 DEF IsPlan, IsEmphasis
  <2>4. ASSUME NEW k \in 1..(Len(q) - 1) PROVE k \in DOMAIN q /\ k + 1 \in DOMAIN q
    <3>1. q \in Seq(Range(q))
      BY <2>2 DEF IsPlan
    <3>2. Len(q) \in Nat /\ DOMAIN q = 1..Len(q)
      BY <3>1
    <3> QED
      BY <3>2
  <2>5. \A k \in 1..(Len(q) - 1) :
          \/ q[k].span.end # q[k + 1].span.begin
          \/ q[k].strength # q[k + 1].strength
    BY <2>2, <2>4 DEF IsPlan
  <2> QED
    BY <2>1, <2>3, <2>5 DEF PlanIsNormalized
<1> QED
  BY <1>1, EmphasisHolds, PTL

(* A returned plan emphasizes a grapheme at a strength exactly if a signal *)
(* that passes the policy asks for it, however many signals touch, overlap *)
(* or repeat.                                                              *)
THEOREM PlansAreAskedFor == Spec => []PlanIsWhatSignalsAsk
<1>1. SignalsInv /\ EmphasisInv => PlanIsWhatSignalsAsk
  <2> SUFFICES ASSUME SignalsInv, EmphasisInv, status = "OK",
                      NEW g \in GraphemesIn(Text, FullSpan(Text))
               PROVE  {e.strength : e \in {x \in Range(emphasis) :
                                             x.span.begin <= g /\ g < x.span.end}}
                        = {Strength(Policy, s.salience) :
                             s \in {x \in Range(signals) :
                                      Passes(Policy, x) /\ x.span.begin <= g /\ g < x.span.end}}
    BY DEF PlanIsWhatSignalsAsk
  <2>1. g \in Nat
    BY ProcessingAssumption, BreaksAreFinite DEF GraphemesIn
  <2>2. StrengthsAt(emphasis, g) = AskedBy(Len(signals), g)
    BY <2>1 DEF EmphasisInv
  <2>3. StrengthsAt(emphasis, g)
          = {e.strength : e \in {x \in Range(emphasis) : x.span.begin <= g /\ g < x.span.end}}
    BY DEF StrengthsAt, OverAt
  <2>4. PICK q, p : q = signals /\ p = Policy
    OBVIOUS
  <2>5. DOMAIN q = 1..Len(q)
    <3>1. q \in Seq(Range(q))
      BY <2>4 DEF SignalsInv, AreSignals
    <3> QED
      BY <3>1
  <2>6. AskedBy(Len(signals), g) =
          {Strength(p, q[j].salience) :
             j \in {i \in DOMAIN q : Passes(p, q[i]) /\ OverAt(q[i], g)}}
    BY <2>4, <2>5 DEF AskedBy
  <2>7. {Strength(p, q[j].salience) :
             j \in {i \in DOMAIN q : Passes(p, q[i]) /\ OverAt(q[i], g)}}
          = {Strength(p, s.salience) :
               s \in {x \in Range(q) : Passes(p, x) /\ x.span.begin <= g /\ g < x.span.end}}
    BY DEF Range, OverAt
  <2> QED
    BY <2>2, <2>3, <2>4, <2>6, <2>7
<1> QED
  BY <1>1, SignalsHold, EmphasisHolds, PTL

(* If the nodes a model reads follow each other in the text, so do the     *)
(* spans of the plan.                                                      *)
THEOREM PlansKeepTextOrder == Spec => []PlanKeepsTextOrder
<1>1. SignalsInv /\ EmphasisInv => PlanKeepsTextOrder
  BY DEF SignalsInv, EmphasisInv, NodesInOrder, PlanInOrder, PlanKeepsTextOrder
<1> QED
  BY <1>1, SignalsHold, EmphasisHolds, PTL

-----------------------------------------------------------------------------
(* A segmental model always leaves something of a unit out that is bigger  *)
(* than its minimum, and never leaves less than that.                      *)
THEOREM SegmentsStayPartial == Spec => []SegmentsArePartial
<1>1. ControlInv /\ AnalysisInv => SegmentsArePartial
  <2> SUFFICES ASSUME ControlInv, AnalysisInv, stage = "present",
                      Model.kind = "segmental_salience",
                      NEW i \in Ids(analysis),
                      NEW s \in Range(SignalsOf(Text, analysis, Model, NodeAt(analysis, i)))
               PROVE  LET n == GraphemeCount(Text, NodeAt(analysis, i).span)
                          k == GraphemeCount(Text, s.span)
                      IN  /\ Contains(NodeAt(analysis, i).span, s.span)
                          /\ n > Model.minimum => k < n /\ k >= Model.minimum
    BY DEF SegmentsArePartial
  <2>1. PICK a, m, u, x, y :
          /\ a = analysis /\ m = Model /\ u = NodeAt(a, i)
          /\ x = Predict(u, m.anchor)
          /\ y = Clamp(Predict(u, m.salience), 0, Scale)
    OBVIOUS
  <2>2. IsReadable(Text, a)
    BY <2>1, ProcessingAssumption DEF AnalysisInv, Analysed, IsReadable, ValidAnalysis
  <2>3. IsModel(m) /\ m.kind = "segmental_salience" /\ m.minimum \in Nat \ {0}
    BY <2>1, ModelOfCall
  <2>4. IsPredictor(m.anchor)
    BY <2>3 DEF IsModel
  <2>5. x \in Int
    BY <2>1, <2>2, <2>4, ReadableNodes, PredictionsAreNumbers
  <2>6. PICK p : p = SegmentalSpan(Text, a, u, x, m.minimum)
    OBVIOUS
  <2>7. PartOf(Text, u.span, m.minimum, p)
    BY <2>1, <2>2, <2>3, <2>5, <2>6, SegmentsAreParts
  <2>8. s \in Range(SalienceSignals(Text, a, m, u))
    BY <2>1, <2>3 DEF SignalsOf
  <2>9. SalienceSignals(Text, a, m, u) \in {<<>>, <<Signal(p, y)>>}
    BY <2>1, <2>3, <2>6 DEF SalienceSignals
  <2>10. Range(<<>>) = {} /\ Range(<<Signal(p, y)>>) = {Signal(p, y)}
    BY DEF Range
  <2>11. s.span = p
    BY <2>8, <2>9, <2>10 DEF Signal
  <2> QED
    BY <2>1, <2>7, <2>11 DEF PartOf
<1> QED
  BY <1>1, ControlHolds, AnalysisHolds, PTL
=============================================================================
