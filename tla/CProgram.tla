------------------------------ MODULE CProgram ------------------------------
(***************************************************************************)
(* A C program on one thread that makes the calls of le/api.h in any order *)
(* its contract allows (docs/c-api.md "Function contracts"), with every    *)
(* kind of argument: it passes variables a call has written or that are    *)
(* Null, reuses a variable for output once its object is destroyed, and    *)
(* destroys an object once, or nothing.                                    *)
(***************************************************************************)
EXTENDS NativeApi

CONSTANTS
  Texts,                 \* texts a host may pass, Malformed and Null among them
  Artifacts,             \* bytes of artifacts, see ModelLoad
  Partitions,            \* region arrays, or Null
  Languages,             \* language tags
  OptionSets,            \* options, or Null
  RuntimeConfigs, PrefixConfigs, PresentationConfigs   \* structures, or Null

(* Providers have an answer on every text, and on every piece of a text    *)
(* that is analyzed by regions.                                            *)
ASSUME TextsAssumption ==
  \A text \in Texts \ {Null, Malformed} :
    /\ text \in DOMAIN AnalysesOf
    /\ \A regions \in Partitions \ {Null} :
         ValidPartition(text, regions) =>
           /\ regions \in Seq(Range(regions))
           /\ \A r \in Range(regions) :
                IsRegion(r) /\ Slice(text, r.span) \in DOMAIN AnalysesOf

(* A variable may be passed if no destroyed object is left in it, and be   *)
(* written by a call if no live one is.                                    *)
MayPass(kinds) == kinds \subseteq usable
MayWrite(k) == k \in usable => slot[k] = Null

Create(t, kind, outcomes) == MayWrite(kind) /\ Return(t, kind, kind, outcomes)

CreateRuntime(t) ==
  \E config \in RuntimeConfigs : Create(t, "runtime", RuntimeCreate(config))

LoadModel(t) ==
  /\ MayPass({"runtime"})
  /\ \E data \in Artifacts : Create(t, "model", ModelLoad(slot["runtime"], data))

AnalyzeText(t) ==
  /\ MayPass({"runtime"})
  /\ \E text \in Texts :
       \/ \E language \in Languages :
            Create(t, "analysis", Analyze(slot["runtime"], text, "direct", Null, language))
       \/ \E regions \in Partitions :
            Create(t, "analysis", Analyze(slot["runtime"], text, "regions", regions, ""))

GenerateSignals(t) ==
  /\ MayPass({"runtime", "analysis"})
  /\ \/ \E config \in PrefixConfigs :
          Create(t, "signals",
                 GeneratePrefixSignals(slot["runtime"], slot["analysis"], config))
     \/ Create(t, "signals", GenerateLexicalCoreSignals(slot["runtime"], slot["analysis"]))
     \/ /\ MayPass({"model"})
        /\ Create(t, "signals",
                  GenerateModelSignals(slot["runtime"], slot["analysis"], slot["model"]))

EmphasizeSignals(t) ==
  /\ MayPass({"runtime", "signals"})
  /\ \E config \in PresentationConfigs :
       Create(t, "result", GenerateEmphasis(slot["runtime"], slot["signals"], config))

ProcessText(t) ==
  /\ MayPass({"runtime"})
  /\ \E text \in Texts, o \in OptionSets, mode \in {"direct", "regions"} :
     \E regions \in IF mode = "regions" THEN Partitions ELSE {Null} :
       \/ Create(t, "result", Process(slot["runtime"], Null, text, mode, regions, o))
       \/ /\ MayPass({"model"})
          /\ Create(t, "result",
               IF slot["model"] = Null THEN Invalid
               ELSE Process(slot["runtime"], Value(slot["model"]), text, mode, regions, o))

(* A null out pointer, to any of the functions *)
CallWithoutOut(t) == Return(t, Null, "result", Invalid)

DestroyOne(t) ==
  \E k \in Kinds :
    /\ MayPass({k})
    /\ Destroy(k)
    /\ usable' = usable \ {k}
    /\ UNCHANGED slot

CNext(t) ==
  \/ CreateRuntime(t) \/ LoadModel(t) \/ AnalyzeText(t) \/ GenerateSignals(t)
  \/ EmphasizeSignals(t) \/ ProcessText(t) \/ CallWithoutOut(t) \/ DestroyOne(t)
=============================================================================
