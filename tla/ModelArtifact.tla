--------------------------- MODULE ModelArtifact ---------------------------
(***************************************************************************)
(* The life of a model artifact: written by the runtime's encoder          *)
(* (src/runtime/model/artifact.cpp, encode), for an embedder or for the    *)
(* le-model tool (src/tools/model/main.cpp), or by the training exporter   *)
(* (src/training/src/lae_training/artifacts.py), perhaps damaged on the    *)
(* way, and read by load.                                                  *)
(*                                                                         *)
(* A file is its bytes, least significant first as in the code; positions  *)
(* are the code's offsets, from 0.  The four bytes of the checksum are     *)
(* zeros here and "sealed" says whether the checksum is that of the other  *)
(* bytes: CRC-32 tells any two files apart that differ in one byte.        *)
(* A float is its bit pattern, sign clear.                                 *)
(***************************************************************************)
EXTENDS Integers, Sequences, FiniteSets, SequencesExt

CONSTANTS
  Artifacts,        \* given to the encoder
  Exports,          \* given to the exporter, whose features it derives
  Compiles,         \* given to le-model: [command, options], see Given
  DamageBytes,      \* values a damaged byte takes
  DamageLengths,    \* lengths a damaged file takes, relative to its own
  MaxLanguages,     \* 64 in the code
  MaxFeatures,      \* 256 in the code: features, and weights of a predictor
  MaxArtifactSize   \* 16 MiB in the code

ASSUME ArtifactAssumption ==
  /\ DamageBytes \subseteq 0..127
  /\ DamageLengths \subseteq Int \ {0}
  /\ {MaxLanguages, MaxFeatures, MaxArtifactSize} \subseteq Nat

VARIABLES
  origin,     \* what was written
  writer,     \* "encode" | "tool" | "export"
  bytes, sealed,
  damage,     \* offset of the damaged byte, -1 for none
  stage,      \* where load is
  cursor,     \* its cursor
  artifact,   \* what it has read
  status      \* what it returned, "none" before

vars == <<origin, writer, bytes, sealed, damage, stage, cursor, artifact, status>>

HeaderSize == 64
Magic == <<76, 65, 69, 77, 79, 68, 76, 0>>
ChecksumOffset == 20

Prefix == 1
LexicalCore == 2
LinearSalience == 3
SegmentalSalience == 4

Abi(minor) == 65536 + minor
AbiVersion == Abi(12)

FeatureLexicalCore == 65537
FeatureFunctionUnit == 196610
SentenceFeatures == 4..6
KnownFeatures ==
  1..6 \cup 65537..65539 \cup 196609..196610 \cup 262145..262148

-----------------------------------------------------------------------------
(* Little-endian words *)
U16(n) == <<n % 256, n \div 256>>
U32(n) == <<n % 256, (n \div 256) % 256, (n \div 65536) % 256, n \div 16777216>>

At(b, offset) == b[offset + 1]
U16At(b, offset) == At(b, offset) + 256 * At(b, offset + 1)
U32At(b, offset) == U16At(b, offset) + 65536 * U16At(b, offset + 2)
Readable(b, offset, count) == offset <= Len(b) /\ count <= Len(b) - offset

Words(ns) == FlattenSeq([i \in DOMAIN ns |-> U32(ns[i])])

(* Floats *)
IsFinite(bits) == bits < 2139095040
InUnitInterval(bits) == bits <= 1065353216

(* Language tags *)
Hyphen == 45
IsUpper(c) == c \in 65..90
AlphaNumeric(c) == c \in 48..57 \cup 97..122 \/ IsUpper(c)

ValidLanguage(l) ==
  /\ Len(l) \in 1..255
  /\ \A i \in DOMAIN l :
       \/ AlphaNumeric(l[i])
       \/ l[i] = Hyphen /\ i \notin {1, Len(l)} /\ l[i - 1] # Hyphen

Folded(l) == [i \in DOMAIN l |-> IF IsUpper(l[i]) THEN l[i] + 32 ELSE l[i]]

Elements(s) == {s[i] : i \in DOMAIN s}
Repeated(s) == {i \in DOMAIN s : \E j \in 1..(i - 1) : s[j] = s[i]}
FeaturesOf(weights) == [i \in DOMAIN weights |-> weights[i].feature]

-----------------------------------------------------------------------------
(* Checks made one after the other: the first that fails throws.           *)
Refuse(condition, kind) == IF condition THEN kind ELSE "OK"

FirstError(checks) ==
  LET failed == {i \in DOMAIN checks : checks[i] # "OK"} IN
  IF failed = {} THEN "OK" ELSE checks[CHOOSE i \in failed : \A j \in failed : i <= j]

LanguagesError(ls) ==
  Refuse(\/ \E l \in Elements(ls) : ~ValidLanguage(l)
         \/ Repeated([i \in DOMAIN ls |-> Folded(ls[i])]) # {}, "INVALID")

FeaturesError(fs) ==
  FirstError([i \in DOMAIN fs |->
    IF fs[i] \notin KnownFeatures THEN "INCOMPATIBLE"
    ELSE Refuse(i \in Repeated(fs), "INVALID")])

WeightsError(weights, required) ==
  FirstError([i \in DOMAIN weights |->
    IF weights[i].feature \notin KnownFeatures THEN "INCOMPATIBLE"
    ELSE Refuse(\/ ~IsFinite(weights[i].weight)
                \/ i \in Repeated(FeaturesOf(weights))
                \/ weights[i].feature \notin Elements(required), "INVALID")])

(* What the features of an artifact need of its ABI *)
FeaturesPredateAbi(a) ==
  \/ FeatureFunctionUnit \in Elements(a.features) /\ a.abi < Abi(11)
  \/ SentenceFeatures \cap Elements(a.features) # {} /\ a.abi < Abi(12)

WeightCountInvalid(weights) == Len(weights) \notin 1..MaxFeatures

PrefixError(a) ==
  Refuse(a.strategy \notin {1, 2} \/ ~InUnitInterval(a.proportion), "INVALID")

LinearError(a) ==
  FirstError(<<
    Refuse(a.abi < Abi(6) \/ ~IsFinite(a.bias) \/ WeightCountInvalid(a.weights), "INVALID"),
    WeightsError(a.weights, a.features)>>)

SegmentalError(a) ==
  FirstError(<<
    LinearError(a),
    Refuse(\/ a.abi < Abi(12)
           \/ FeatureLexicalCore \notin Elements(a.features)
           \/ ~IsFinite(a.anchorBias) \/ WeightCountInvalid(a.anchors)
           \/ a.minimum \notin 1..16, "INVALID"),
    WeightsError(a.anchors, a.features)>>)

TypeError(a) ==
  CASE a.type = Prefix -> PrefixError(a)
    [] a.type = LexicalCore ->
         Refuse(FeatureLexicalCore \notin Elements(a.features), "INVALID")
    [] a.type = LinearSalience -> LinearError(a)
    [] a.type = SegmentalSalience -> SegmentalError(a)
    [] OTHER -> "INCOMPATIBLE"

ValidateMetadata(a) ==
  FirstError(<<
    Refuse(a.abi > AbiVersion \/ a.abi \div 65536 # 1, "INCOMPATIBLE"),
    Refuse(\/ a.version = 0
           \/ Len(a.languages) > MaxLanguages \/ Len(a.features) > MaxFeatures, "INVALID"),
    LanguagesError(a.languages),
    FeaturesError(a.features),
    Refuse(FeaturesPredateAbi(a), "INVALID"),
    TypeError(a)>>)

-----------------------------------------------------------------------------
(* encode: header, languages, features, parameters *)
WeightWords(bias, weights) ==
  <<bias, Len(weights)>>
    \o FlattenSeq([i \in DOMAIN weights |-> <<weights[i].feature, weights[i].weight>>])

ParameterWords(a) ==
  CASE a.type = Prefix -> <<a.strategy, a.fixed, a.proportion>>
    [] a.type = LinearSalience -> WeightWords(a.bias, a.weights)
    [] a.type = SegmentalSalience ->
         WeightWords(a.bias, a.weights) \o WeightWords(a.anchorBias, a.anchors)
           \o <<a.minimum, 0>>
    [] OTHER -> <<>>

LanguageTable(ls) ==
  FlattenSeq([i \in DOMAIN ls |-> U16(Len(ls[i])) \o ls[i]])

(* Mutant: the offset of the parameters is that of the features. *)
LayoutOneOffset(a) ==
  LET features == HeaderSize + Len(LanguageTable(a.languages)) IN
  Magic \o U16(1) \o U16(0)
    \o Words(<<HeaderSize, features + 4 * Len(a.features) + 4 * Len(ParameterWords(a)), 0,
               a.abi, a.type, a.version, Len(a.languages), Len(a.features),
               HeaderSize, features, features, Len(ParameterWords(a)), 0>>)
    \o LanguageTable(a.languages) \o Words(a.features) \o Words(ParameterWords(a))

Layout(a) ==
  LET features   == HeaderSize + Len(LanguageTable(a.languages))
      parameters == features + 4 * Len(a.features)
      size       == parameters + 4 * Len(ParameterWords(a)) IN
  Magic \o U16(1) \o U16(0)
    \o Words(<<HeaderSize, size, 0, a.abi, a.type, a.version,
               Len(a.languages), Len(a.features),
               HeaderSize, features, parameters, Len(ParameterWords(a)), 0>>)
    \o LanguageTable(a.languages) \o Words(a.features) \o Words(ParameterWords(a))

(* The exporter: what it declares, and what it raises ValueError for       *)
RequiredFeatures(a) ==
  CASE a.type = Prefix -> <<>>
    [] a.type = LexicalCore -> <<FeatureLexicalCore>>
    [] a.type = LinearSalience -> FeaturesOf(a.weights)
    [] a.type = SegmentalSalience ->
         LET all == FeaturesOf(a.weights) \o FeaturesOf(a.anchors) \o <<FeatureLexicalCore>>
         IN FlattenSeq([i \in DOMAIN all |->
              IF i \in Repeated(all) THEN <<>> ELSE <<all[i]>>])

Exported(a) == [a EXCEPT !.features = RequiredFeatures(a)]

WeightsRefused(bias, weights) ==
  \/ WeightCountInvalid(weights) \/ ~IsFinite(bias)
  \/ \E i \in DOMAIN weights : ~IsFinite(weights[i].weight)
  \/ Repeated(FeaturesOf(weights)) # {}

(* Mutant: features may predate the declared ABI. *)
ExporterRefusesLess(a) ==
  \/ a.version = 0
  \/ LanguagesError(a.languages) # "OK" \/ Len(a.languages) > MaxLanguages
  \/ a.type = LinearSalience /\ (a.abi < Abi(6) \/ WeightsRefused(a.bias, a.weights))
  \/ /\ a.type = SegmentalSalience
     /\ \/ a.abi < Abi(12) \/ a.minimum \notin 1..16
        \/ WeightsRefused(a.bias, a.weights) \/ WeightsRefused(a.anchorBias, a.anchors)

ExporterRefuses(a) ==
  \/ a.version = 0
  \/ LanguagesError(a.languages) # "OK" \/ Len(a.languages) > MaxLanguages
  \/ Len(a.features) > MaxFeatures \/ FeaturesPredateAbi(a)
  \/ a.type = Prefix /\ (a.strategy \notin {1, 2} \/ ~InUnitInterval(a.proportion))
  \/ a.type = LinearSalience /\ (a.abi < Abi(6) \/ WeightsRefused(a.bias, a.weights))
  \/ /\ a.type = SegmentalSalience
     /\ \/ a.abi < Abi(12) \/ a.minimum \notin 1..16
        \/ WeightsRefused(a.bias, a.weights) \/ WeightsRefused(a.anchorBias, a.anchors)

-----------------------------------------------------------------------------
(* le-model: the artifact its three compile commands start from, and what  *)
(* each option makes of it, one after the other, before encode.  An option *)
(* is <<name, value>>; one without a value that parses is "unreadable".    *)
ToolOptions(command) ==
  {"--language", "--model-version"} \cup
    CASE command = "compile-prefix" -> {"--fixed", "--proportion"}
      [] command = "compile-lexical-core" -> {}
      [] command = "compile-linear-salience" -> {"--bias", "--weight"}

Baseline(command) ==
  [abi |-> IF command = "compile-linear-salience" THEN AbiVersion ELSE Abi(11),
   type |-> CASE command = "compile-prefix" -> Prefix
              [] command = "compile-lexical-core" -> LexicalCore
              [] command = "compile-linear-salience" -> LinearSalience,
   version |-> 1, languages |-> <<>>,
   features |-> IF command = "compile-lexical-core" THEN <<FeatureLexicalCore>> ELSE <<>>,
   strategy |-> 1, fixed |-> 1, proportion |-> 1056964608, bias |-> 0, weights |-> <<>>,
   anchorBias |-> 1056964608, anchors |-> <<>>, minimum |-> 1]

Given(a, option) ==
  LET value == option[2] IN
  CASE option[1] = "--language" -> [a EXCEPT !.languages = Append(@, value)]
    [] option[1] = "--model-version" -> [a EXCEPT !.version = value]
    [] option[1] = "--fixed" -> [a EXCEPT !.strategy = 2, !.fixed = value]
    [] option[1] = "--proportion" -> [a EXCEPT !.strategy = 1, !.proportion = value]
    [] option[1] = "--bias" -> [a EXCEPT !.bias = value]
    [] option[1] = "--weight" -> [a EXCEPT !.features = Append(@, value.feature),
                                           !.weights = Append(@, value)]

Compiled(command, options) == FoldLeft(Given, Baseline(command), options)

(* Anything else in the command line stops the tool before it writes.      *)
ToolTakes(c) == \A i \in DOMAIN c.options : c.options[i][1] \in ToolOptions(c.command)

-----------------------------------------------------------------------------
NoArtifact == [type |-> 0]

Written(a, by) ==
  /\ origin = a /\ writer = by
  /\ bytes = Layout(a)
  /\ sealed = TRUE /\ damage = -1

Init ==
  /\ \/ \E a \in Artifacts : ValidateMetadata(a) = "OK" /\ Written(a, "encode")
     \/ \E x \in Exports :
          LET a == Exported(x) IN ~ExporterRefuses(a) /\ Written(a, "export")
     \/ \E c \in Compiles :
          /\ ToolTakes(c)
          /\ LET a == Compiled(c.command, c.options) IN
             ValidateMetadata(a) = "OK" /\ Written(a, "tool")
  /\ Len(bytes) <= MaxArtifactSize
  /\ stage = "stored"
  /\ cursor = 0 /\ artifact = NoArtifact /\ status = "none"

Loading == UNCHANGED <<origin, writer, bytes, sealed, damage>>

(* One byte of the file, or its length, is not what was written; who did   *)
(* it may have put the checksum right again.                               *)
Replaced(b, offset, word) ==
  [i \in DOMAIN b |-> IF i - 1 \in offset..(offset + 3) THEN word[i - offset] ELSE b[i]]

DamageByte ==
  /\ stage = "stored" /\ damage = -1
  /\ \E i \in DOMAIN bytes, d \in DamageBytes :
       /\ damage' = i - 1
       /\ IF damage' \in ChecksumOffset..(ChecksumOffset + 3)
          THEN sealed' = FALSE /\ UNCHANGED bytes
          ELSE /\ bytes[i] # d /\ bytes' = [bytes EXCEPT ![i] = d]
               /\ sealed' \in BOOLEAN
  /\ UNCHANGED <<origin, writer, stage, cursor, artifact, status>>

DamageLength ==
  /\ stage = "stored" /\ damage = -1
  /\ \E k \in DamageLengths :
       LET size == Len(bytes) + k
           cut  == [i \in 1..size |-> IF i \in DOMAIN bytes THEN bytes[i] ELSE 0] IN
       /\ size >= 0
       /\ damage' = size
       /\ \/ bytes' = cut /\ sealed' = FALSE
          \/ size >= HeaderSize /\ bytes' = Replaced(cut, 16, U32(size)) /\ sealed' = TRUE
  /\ UNCHANGED <<origin, writer, stage, cursor, artifact, status>>

-----------------------------------------------------------------------------
(* load *)
Throw(kind) == stage' = "done" /\ status' = kind /\ UNCHANGED <<cursor, artifact>>

LanguageCount == U32At(bytes, 36)
FeatureCount == U32At(bytes, 40)
FeaturesOffset == U32At(bytes, 48)
ParametersOffset == U32At(bytes, 52)
ParameterCount == U32At(bytes, 56)

(* Mutant: where the tables begin is not looked at. *)
HeaderErrorAnyOffset(b) ==
  IF Len(b) < HeaderSize \/ Len(b) > MaxArtifactSize THEN "INVALID"
  ELSE FirstError(<<
    Refuse(SubSeq(b, 1, 8) # Magic, "INVALID"),
    Refuse(U16At(b, 8) # 1 \/ U16At(b, 10) > 0, "INCOMPATIBLE"),
    Refuse(U32At(b, 12) # HeaderSize \/ U32At(b, 16) # Len(b) \/ ~sealed, "INVALID"),
    Refuse(U32At(b, 60) # 0, "INCOMPATIBLE"),
    Refuse(LanguageCount > MaxLanguages \/ FeatureCount > MaxFeatures, "INVALID")>>)

(* Mutant: the flags are read before the checksum is. *)
HeaderErrorFlagsFirst(b) ==
  IF Len(b) < HeaderSize \/ Len(b) > MaxArtifactSize THEN "INVALID"
  ELSE FirstError(<<
    Refuse(SubSeq(b, 1, 8) # Magic, "INVALID"),
    Refuse(U16At(b, 8) # 1 \/ U16At(b, 10) > 0 \/ U32At(b, 60) # 0, "INCOMPATIBLE"),
    Refuse(U32At(b, 12) # HeaderSize \/ U32At(b, 16) # Len(b) \/ ~sealed, "INVALID"),
    Refuse(\/ LanguageCount > MaxLanguages \/ FeatureCount > MaxFeatures
           \/ U32At(b, 44) # HeaderSize, "INVALID")>>)

HeaderError(b) ==
  IF Len(b) < HeaderSize \/ Len(b) > MaxArtifactSize THEN "INVALID"
  ELSE FirstError(<<
    Refuse(SubSeq(b, 1, 8) # Magic, "INVALID"),
    Refuse(U16At(b, 8) # 1 \/ U16At(b, 10) > 0, "INCOMPATIBLE"),
    Refuse(U32At(b, 12) # HeaderSize \/ U32At(b, 16) # Len(b) \/ ~sealed, "INVALID"),
    Refuse(U32At(b, 60) # 0, "INCOMPATIBLE"),
    Refuse(\/ LanguageCount > MaxLanguages \/ FeatureCount > MaxFeatures
           \/ U32At(b, 44) # HeaderSize, "INVALID")>>)

ReadHeader ==
  /\ stage = "stored"
  /\ IF HeaderError(bytes) # "OK" THEN Throw(HeaderError(bytes))
     ELSE /\ artifact' = [abi |-> U32At(bytes, 24), type |-> U32At(bytes, 28),
                          version |-> U32At(bytes, 32),
                          languages |-> <<>>, features |-> <<>>,
                          strategy |-> 1, fixed |-> 1, proportion |-> 1056964608,
                          bias |-> 0, weights |-> <<>>,
                          anchorBias |-> 1056964608, anchors |-> <<>>, minimum |-> 1]
          /\ cursor' = HeaderSize
          /\ stage' = "languages"
          /\ UNCHANGED status
  /\ Loading

ReadLanguage ==
  /\ stage = "languages" /\ Len(artifact.languages) < LanguageCount
  /\ IF ~Readable(bytes, cursor, 2) \/ ~Readable(bytes, cursor + 2, U16At(bytes, cursor))
     THEN Throw("INVALID")
     ELSE LET length == U16At(bytes, cursor) IN
          /\ artifact' = [artifact EXCEPT !.languages =
               Append(@, SubSeq(bytes, cursor + 3, cursor + 2 + length))]
          /\ cursor' = cursor + 2 + length
          /\ UNCHANGED <<stage, status>>
  /\ Loading

U32s(b, offset, count) == [i \in 1..count |-> U32At(b, offset + 4 * (i - 1))]

ReadFeatures ==
  /\ stage = "languages" /\ Len(artifact.languages) = LanguageCount
  /\ IF cursor # FeaturesOffset \/ FeatureCount > (Len(bytes) - cursor) \div 4
     THEN Throw("INVALID")
     ELSE /\ artifact' = [artifact EXCEPT !.features = U32s(bytes, cursor, FeatureCount)]
          /\ cursor' = cursor + 4 * FeatureCount
          /\ stage' = "parameters"
          /\ UNCHANGED status
  /\ Loading

(* A weight table begins with its bias and count. *)
CountAt(b, offset) == U32At(b, offset + 4)
TableSize(count) == 8 + 8 * count
WeightsAt(b, offset) ==
  [i \in 1..CountAt(b, offset) |->
     [feature |-> U32At(b, offset + 8 * i), weight |-> U32At(b, offset + 8 * i + 4)]]
CountInvalid(count) == count = 0 \/ count > MaxFeatures

LinearTableError(b, at) ==
  LET n == CountAt(b, at) IN
  Refuse(CountInvalid(n) \/ ParameterCount # 2 + 2 * n, "INVALID")

SegmentalTableError(b, at) ==
  LET n == CountAt(b, at)
      anchors == at + TableSize(n) IN
  IF CountInvalid(n) \/ ~Readable(b, anchors, 8) THEN "INVALID"
  ELSE LET m == CountAt(b, anchors) IN
       IF CountInvalid(m) \/ ParameterCount # 6 + 2 * n + 2 * m THEN "INVALID"
       ELSE Refuse(U32At(b, anchors + TableSize(m) + 4) # 0, "INCOMPATIBLE")

ParametersError(b, at) ==
  IF \/ at # ParametersOffset \/ ParameterCount > (Len(b) - at) \div 4
     \/ at + 4 * ParameterCount # Len(b)
  THEN "INVALID"
  ELSE CASE artifact.type = Prefix -> Refuse(ParameterCount # 3, "INVALID")
         [] artifact.type = LinearSalience ->
              IF ParameterCount < 4 \/ ParameterCount % 2 # 0 THEN "INVALID"
              ELSE LinearTableError(b, at)
         [] artifact.type = SegmentalSalience ->
              IF ParameterCount < 10 \/ ParameterCount % 2 # 0 THEN "INVALID"
              ELSE SegmentalTableError(b, at)
         [] OTHER -> Refuse(artifact.type = LexicalCore /\ ParameterCount # 0, "INVALID")

Parameters(a, b, at) ==
  CASE a.type = Prefix ->
         [a EXCEPT !.strategy = U32At(b, at), !.fixed = U32At(b, at + 4),
                   !.proportion = U32At(b, at + 8)]
    [] a.type = LinearSalience ->
         [a EXCEPT !.bias = U32At(b, at), !.weights = WeightsAt(b, at)]
    [] a.type = SegmentalSalience ->
         LET anchors == at + TableSize(CountAt(b, at))
             rest    == anchors + TableSize(CountAt(b, anchors)) IN
         [a EXCEPT !.bias = U32At(b, at), !.weights = WeightsAt(b, at),
                   !.anchorBias = U32At(b, anchors), !.anchors = WeightsAt(b, anchors),
                   !.minimum = U32At(b, rest)]
    [] OTHER -> a

ReadParameters ==
  /\ stage = "parameters"
  /\ LET error == ParametersError(bytes, cursor) IN
     IF error # "OK" THEN Throw(error)
     ELSE /\ artifact' = Parameters(artifact, bytes, cursor)
          /\ stage' = "validate"
          /\ UNCHANGED <<cursor, status>>
  /\ Loading

Validate ==
  /\ stage = "validate"
  /\ Throw(ValidateMetadata(artifact))
  /\ Loading

Next ==
  \/ DamageByte \/ DamageLength
  \/ ReadHeader \/ ReadLanguage \/ ReadFeatures \/ ReadParameters \/ Validate

Spec == Init /\ [][Next]_vars

-----------------------------------------------------------------------------
Intact == damage = -1

(* What this runtime can run *)
Supported(a) ==
  /\ a.abi \in Abi(0)..AbiVersion
  /\ a.type \in {Prefix, LexicalCore, LinearSalience, SegmentalSalience}
  /\ Elements(a.features) \subseteq KnownFeatures

(* encode and load are inverse: a file that arrives intact is accepted and *)
(* the model is the one that was compiled (tests/model_artifact_tests.cpp, *)
(* docs/model-format.md:100), by le-model too.                             *)
RoundTrip ==
  stage = "done" /\ Intact /\ writer # "export" => status = "OK" /\ artifact = origin

(* The two implementations of the format agree: what the training exporter *)
(* lets through is never malformed to the runtime, and it runs exactly     *)
(* when nothing in it is newer than the runtime (docs/model-format.md:     *)
(* "well-formed artifacts requiring a newer ... INCOMPATIBLE").            *)
ExportIsUnderstood ==
  stage = "done" /\ Intact /\ writer = "export" =>
    IF Supported(origin) THEN status = "OK" /\ artifact = origin
    ELSE status = "INCOMPATIBLE"

(* A model has one file: whatever bytes load accepts, resealed damage      *)
(* included, are those encode would write for what load returned.          *)
AcceptedIsCanonical ==
  status = "OK" => ValidateMetadata(artifact) = "OK" /\ Layout(artifact) = bytes

(* Corruption is reported as such: unless the version itself is hit, a     *)
(* damaged file is INVALID, not a call for a newer runtime.                *)
CorruptionIsInvalid ==
  stage = "done" /\ ~sealed /\ damage \notin 8..11 => status = "INVALID"
=============================================================================
