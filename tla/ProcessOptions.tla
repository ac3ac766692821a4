--------------------------- MODULE ProcessOptions ---------------------------
(***************************************************************************)
(* The options of a processing call, le_process_options_t (src/include/le/ *)
(* api.h) and read_options (src/runtime/abi/api.cpp).  The structure grew  *)
(* twice and says by struct_size how much of it the caller has; of what    *)
(* lies behind that size an options record holds what a reader would find  *)
(* in memory.  Sizes are those of 64-bit builds.  Strengths and thresholds *)
(* are integers in units of 1/Scale or NotANumber, a proportion is the     *)
(* fraction its float stands for or NotANumber.                            *)
(***************************************************************************)
EXTENDS RegionAnalysis, Presentation

CONSTANTS
  NotANumber,   \* a float that is not finite
  Null          \* a null pointer

ASSUME FloatAssumption == NotANumber \notin Nat
ASSUME ProportionAssumption == NotANumber # [num |-> 1, den |-> 2]

V1Size == 40
V2Size == 56
V3Size == 64

(* le_process_options_init *)
InitialOptions ==
  [struct_size |-> V3Size, flags |-> 0, language |-> "",
   prefix_strategy |-> "proportional", fixed_graphemes |-> 1,
   prefix_proportion |-> [num |-> 1, den |-> 2], emphasis_strength |-> Scale,
   presentation_policy |-> "binary", minimum_emphasis_strength |-> 0,
   salience_threshold |-> 0, reserved_v2 |-> 0,
   reading_model |-> "prefix", reserved_v3 |-> 0]

(* The fields' types: a float is finite or not, whatever it was filled with. *)
IsOptions(o) ==
  /\ DOMAIN o = DOMAIN InitialOptions
  /\ o.struct_size \in Nat /\ o.fixed_graphemes \in Nat
  /\ {o.emphasis_strength, o.minimum_emphasis_strength, o.salience_threshold}
       \subseteq Int \cup {NotANumber}
  /\ o.prefix_proportion \in {NotANumber} \cup [num : Int, den : Nat \ {0}]

Normalized(x) == x # NotANumber /\ 0 <= x /\ x <= Scale

NormalizedProportion(f) == f # NotANumber /\ 0 <= f.num /\ f.num <= f.den

(* validate_presentation *)
ValidPresentation(policy, threshold, minimum, maximum) ==
  /\ policy \in {"binary", "variable"}
  /\ Normalized(threshold)
  /\ Normalized(minimum) /\ Normalized(maximum)
  /\ minimum <= maximum

(* The checks of read_options on the part of the options the caller has *)
ValidOptions(o) ==
  /\ o.struct_size \in {V1Size, V2Size} \/ o.struct_size >= V3Size
  /\ o.flags = 0
  /\ ValidLanguage(o.language)
  /\ NormalizedProportion(o.prefix_proportion)
  /\ Normalized(o.emphasis_strength)
  /\ o.prefix_strategy \in {"proportional", "fixed"}
  /\ o.struct_size >= V2Size =>
       ValidPresentation(o.presentation_policy, o.salience_threshold,
                         o.minimum_emphasis_strength, o.emphasis_strength)
  /\ o.struct_size >= V3Size =>
       /\ o.reserved_v2 = 0 /\ o.reserved_v3 = 0
       /\ o.reading_model \in {"prefix", "lexical_core"}

(* defaults(): what the runtime does without options *)
Defaults ==
  [language |-> "und",
   prefix |-> [strategy |-> "proportional", proportion |-> [num |-> 1, den |-> 2]],
   presentation |-> [kind |-> "binary", threshold |-> 0, minimum |-> 0, maximum |-> Scale],
   reading_model |-> "prefix"]

PrefixOf(o) ==
  IF o.prefix_strategy = "fixed"
  THEN [strategy |-> "fixed", graphemes |-> o.fixed_graphemes]
  ELSE [strategy |-> "proportional", proportion |-> o.prefix_proportion]

PresentationOf(o) ==
  IF o.struct_size >= V2Size
  THEN [kind |-> o.presentation_policy, threshold |-> o.salience_threshold,
        minimum |-> o.minimum_emphasis_strength, maximum |-> o.emphasis_strength]
  ELSE [Defaults.presentation EXCEPT !.maximum = o.emphasis_strength]

(* Mutant: the reading model counts as a field of the second version. *)
SettingsFromV2(o) ==
  [language      |-> IF o.language = "" THEN "und" ELSE o.language,
   prefix        |-> PrefixOf(o),
   presentation  |-> PresentationOf(o),
   reading_model |-> IF o.struct_size >= V2Size THEN o.reading_model
                     ELSE Defaults.reading_model]

(* What read_options makes of valid options *)
Settings(o) ==
  [language      |-> IF o.language = "" THEN "und" ELSE o.language,
   prefix        |-> PrefixOf(o),
   presentation  |-> PresentationOf(o),
   reading_model |-> IF o.struct_size >= V3Size THEN o.reading_model
                     ELSE Defaults.reading_model]

(* read_options for direct calls, read_region_options for calls with       *)
(* regions: there the options must not name a language.                    *)
Accepted(o, mode) ==
  o # Null => ValidOptions(o) /\ (mode = "regions" => o.language = "")

SettingsOf(o) == IF o = Null THEN Defaults ELSE Settings(o)

-----------------------------------------------------------------------------
(* The options of the newest version a caller of an older one, or without  *)
(* options, would bring to say the same: its own fields, and for the rest  *)
(* what le_process_options_init sets.                                      *)
Newest(o) ==
  IF o = Null THEN InitialOptions
  ELSE IF o.struct_size >= V3Size THEN o
  ELSE LET own == {"flags", "language", "prefix_strategy", "fixed_graphemes",
                   "prefix_proportion", "emphasis_strength"}
                    \cup (IF o.struct_size < V2Size THEN {}
                          ELSE {"presentation_policy", "minimum_emphasis_strength",
                                "salience_threshold"})
       IN  [f \in DOMAIN o |-> IF f \in own THEN o[f] ELSE InitialOptions[f]]
=============================================================================
