---------------------------- MODULE CommandLine ----------------------------
(***************************************************************************)
(* le-cli (src/tools/cli/main.c): arguments one by one, the input and the  *)
(* artifact read into buffers that grow, the calls of the selected stage,  *)
(* and the cleanup every failure past the arguments jumps to.  Files and   *)
(* buffers are objects like those of the ABI.                              *)
(***************************************************************************)
EXTENDS NativeApi

CONSTANTS
  CommandLines,   \* sequences of arguments <<option, value>>; FILE is one
  Unparsable,     \* a value its option does not take, or none at the end
  FileTexts,      \* what the input may hold
  FileArtifacts,  \* what an artifact file may hold, see ModelLoad
  Me,             \* the program's thread
  MaxObjects      \* bound on how often buffers grow

ASSUME MeAssumption == Me \in Threads

(* Providers have an answer on every input. *)
ASSUME FileTextsAssumption == FileTexts \ {Malformed} \subseteq DOMAIN AnalysesOf

VARIABLES
  line,        \* argv
  parsed,      \* what of it the loop has taken in, and the files' contents
  stage,       \* where main is
  printed,     \* what went to stdout, or Null
  exit_code

lineVars == <<line, parsed, stage, printed, exit_code>>

(* The field of the options each option with a value sets *)
Field ==
  [o \in {"--fixed", "--proportion", "--strength", "--min-strength", "--threshold",
          "--policy", "--model", "--language"} |->
     CASE o = "--fixed" -> "fixed_graphemes"
       [] o = "--proportion" -> "prefix_proportion"
       [] o = "--strength" -> "emphasis_strength"
       [] o = "--min-strength" -> "minimum_emphasis_strength"
       [] o = "--threshold" -> "salience_threshold"
       [] o = "--policy" -> "presentation_policy"
       [] o = "--model" -> "reading_model"
       [] o = "--language" -> "language"]

LineInit ==
  /\ line \in CommandLines
  /\ parsed = [at |-> 1, options |-> InitialOptions, path |-> FALSE, artifact |-> FALSE,
               dump |-> {}, text |-> Null, data |-> Null]
  /\ stage = "arguments"
  /\ printed = Null
  /\ exit_code = 1

At(s) == stage = s

Go(s) == stage' = s /\ UNCHANGED <<line, parsed, printed, exit_code>>

(* return from main before there is anything to clean up *)
ReturnNow(code) ==
  /\ stage' = "exited"
  /\ exit_code' = code
  /\ UNCHANGED <<line, parsed, printed>>

(* Mutant: --fixed leaves the strategy alone. *)
SetFieldOnly(options, arg) == [options EXCEPT ![Field[arg[1]]] = arg[2]]

SetField(options, arg) ==
  [options EXCEPT ![Field[arg[1]]] = arg[2],
                  !.prefix_strategy = CASE arg[1] = "--fixed" -> "fixed"
                                        [] arg[1] = "--proportion" -> "proportional"
                                        [] OTHER -> @]

Option == line[parsed.at][1]

Take(p) == /\ parsed' = [p EXCEPT !.at = @ + 1]
           /\ UNCHANGED <<line, stage, printed, exit_code>>

(* One round of the loop.  An option whose value is missing, or an unknown *)
(* one, starts with a dash; a second path is refused too.                  *)
TakeArgument ==
  /\ At("arguments") /\ parsed.at <= Len(line)
  /\ CASE Option = "--help" -> ReturnNow(0)
       [] line[parsed.at][2] = Unparsable -> ReturnNow(2)
       [] Option = "FILE" /\ parsed.path -> ReturnNow(2)
       [] Option = "FILE" -> Take([parsed EXCEPT !.path = TRUE])
       [] Option = "--artifact" -> Take([parsed EXCEPT !.artifact = TRUE])
       [] Option \in {"--dump-analysis", "--dump-signals"} ->
            Take([parsed EXCEPT !.dump = @ \cup {Option}])
       [] OTHER -> Take([parsed EXCEPT !.options = SetField(@, line[parsed.at])])
  /\ UNCHANGED apiVars

ArgumentsDone ==
  /\ At("arguments") /\ parsed.at > Len(line)
  /\ IF Cardinality(parsed.dump) = 2 THEN ReturnNow(2) ELSE Go("open")
  /\ UNCHANGED apiVars

-----------------------------------------------------------------------------
(* Variable s gets a new object, in the place of any it had before. *)
Put(s, kind) ==
  /\ objects' = Append(Destroyed({slot[s]}), [kind |-> kind, live |-> TRUE, value |-> Null])
  /\ slot' = [slot EXCEPT ![s] = Len(objects) + 1]
  /\ UNCHANGED <<diagnostic, calls, last, usable>>

(* Variables S lose their objects and become null. *)
Drop(S) ==
  /\ objects' = Destroyed({slot[s] : s \in S})
  /\ slot' = [s \in Slots |-> IF s \in S THEN Null ELSE slot[s]]
  /\ UNCHANGED <<diagnostic, calls, last, usable>>

(* fopen of the input, which is stdin (Null) unless there is a path *)
OpenInput ==
  /\ At("open")
  /\ \/ ~parsed.path /\ Go("text") /\ UNCHANGED apiVars
     \/ parsed.path /\ Put("input", "file") /\ Go("text")
     \/ parsed.path /\ ReturnNow(1) /\ UNCHANGED apiVars

(* read_all: malloc, *)
Allocate(s, next) ==
  /\ At(s) /\ slot[s] = Null
  /\ \/ Put(s, "buffer") /\ UNCHANGED lineVars
     \/ Go(next) /\ UNCHANGED apiVars

(* realloc whenever a read fills the buffer, which moves it, *)
Grow(s) ==
  /\ At(s) /\ slot[s] # Null /\ Len(objects) < MaxObjects
  /\ Put(s, "buffer")
  /\ UNCHANGED lineVars

(* and on a read error, at the greatest size or without memory to grow the *)
(* buffer is freed and the variable nulled.                                *)
ReadFails(s, next) ==
  /\ At(s) /\ slot[s] # Null
  /\ Drop({s})
  /\ Go(next)

(* Or a short read, the end of the file *)
ReadDone(s, field, contents, next) ==
  /\ At(s) /\ slot[s] # Null
  /\ \E c \in contents : parsed' = [parsed EXCEPT ![field] = c]
  /\ stage' = next
  /\ UNCHANGED <<line, printed, exit_code, apiVars>>

ReadInput ==
  \/ Allocate("text", "cleanup") \/ Grow("text") \/ ReadFails("text", "cleanup")
  \/ ReadDone("text", "text", FileTexts, "create")

(* A call of the ABI by main's thread; any failure goes to the cleanup.    *)
CallThen(kind, outcomes, next) ==
  /\ Return(Me, kind, kind, outcomes)
  /\ stage' = IF last'[Me].status = "OK" THEN next ELSE "cleanup"
  /\ UNCHANGED <<line, parsed, printed, exit_code>>

CreateRuntimeHandle ==
  /\ At("create")
  /\ CallThen("runtime", RuntimeCreate(Null), IF parsed.artifact THEN "open_artifact" ELSE "run")

(* The artifact is read and its file closed, however the reading ended.    *)
OpenArtifact ==
  /\ At("open_artifact")
  /\ \/ Put("artifact_input", "file") /\ Go("artifact_data")
     \/ Go("cleanup") /\ UNCHANGED apiVars

ReadArtifact ==
  \/ Allocate("artifact_data", "unread") \/ Grow("artifact_data")
  \/ ReadFails("artifact_data", "unread")
  \/ ReadDone("artifact_data", "data", FileArtifacts, "read")

CloseArtifact ==
  /\ stage \in {"read", "unread"}
  /\ Drop({"artifact_input"})
  /\ Go(IF At("read") THEN "load" ELSE "cleanup")

LoadArtifact == At("load") /\ CallThen("model", ModelLoad(slot["runtime"], parsed.data), "run")

LoadedModel == IF slot["model"] = Null THEN Null ELSE Value(slot["model"])

(* le_analyze for either dump, else le_process or le_process_with_model *)
RunStage ==
  /\ At("run")
  /\ IF parsed.dump # {}
     THEN CallThen("analysis",
                   Analyze(slot["runtime"], parsed.text, "direct", Null,
                           parsed.options.language),
                   IF "--dump-signals" \in parsed.dump THEN "signals" ELSE "print")
     ELSE CallThen("result",
                   Process(slot["runtime"], LoadedModel, parsed.text, "direct", Null,
                           parsed.options),
                   "print")

(* The model of --dump-signals: the artifact, else what the options select *)
DumpSignals ==
  /\ At("signals")
  /\ CallThen("signals",
       IF slot["model"] # Null
       THEN GenerateModelSignals(slot["runtime"], slot["analysis"], slot["model"])
       ELSE IF parsed.options.reading_model = "lexical_core"
       THEN GenerateLexicalCoreSignals(slot["runtime"], slot["analysis"])
       ELSE GeneratePrefixSignals(slot["runtime"], slot["analysis"],
              [InitialPrefixConfig EXCEPT
                 !.strategy = parsed.options.prefix_strategy,
                 !.fixed_graphemes = parsed.options.fixed_graphemes,
                 !.proportion = parsed.options.prefix_proportion]),
       "print")

PrintStage ==
  /\ At("print")
  /\ printed' = CASE parsed.dump = {"--dump-analysis"} -> ReadBack(Value(slot["analysis"]))
                  [] parsed.dump = {"--dump-signals"} -> Value(slot["signals"]).signals
                  [] OTHER -> Value(slot["result"]).plan
  /\ exit_code' = 0
  /\ stage' = "cleanup"
  /\ UNCHANGED <<line, parsed, apiVars>>

(* The destroy functions, free and fclose, all of which take null, or are  *)
(* not called for stdin; then main's variables are gone.                   *)
Cleanup ==
  /\ At("cleanup")
  /\ objects' = Destroyed({slot[s] : s \in {"signals", "analysis", "result", "model", "runtime",
                                            "artifact_data", "text", "input"}})
  /\ usable' = {}
  /\ UNCHANGED <<slot, diagnostic, calls, last>>
  /\ Go("exited")

LineNext ==
  \/ TakeArgument \/ ArgumentsDone \/ OpenInput \/ ReadInput \/ CreateRuntimeHandle
  \/ OpenArtifact \/ ReadArtifact \/ CloseArtifact \/ LoadArtifact \/ RunStage
  \/ DumpSignals \/ PrintStage \/ Cleanup

-----------------------------------------------------------------------------
(* What the command line asks for: the last argument for a thing counts.   *)

LastOf(options) ==
  LET I == {i \in DOMAIN line : line[i][1] \in options} IN
  IF I = {} THEN <<"", Null>>
  ELSE line[CHOOSE i \in I : \A j \in I : j <= i]

AskedOptions ==
  [f \in DOMAIN InitialOptions |->
     LET arg == LastOf({o \in DOMAIN Field : Field[o] = f}) IN
     CASE f = "prefix_strategy" /\ LastOf({"--fixed", "--proportion"})[1] = "--fixed" -> "fixed"
       [] f = "prefix_strategy" -> "proportional"
       [] arg[1] # "" -> arg[2]
       [] OTHER -> InitialOptions[f]]

Asks(option) == LastOf({option})[1] = option

(* What a run of the asked stage may print, for the providers' answers *)
Asked ==
  LET text  == parsed.text
      o     == AskedOptions
      model == ReadingModel(IF Asks("--artifact") THEN parsed.data.model ELSE Null, Settings(o))
      Signals == {AllSignals(text, a, model) :
                    a \in {b \in AnalysesOf[text] : SupportsAll(model, b)}}
  IN  IF Asks("--dump-analysis") THEN AnalysesOf[text]
      ELSE IF Asks("--dump-signals") THEN Signals
      ELSE IF Accepted(o, "direct") THEN {PlanOf(Settings(o).presentation, s) : s \in Signals}
      ELSE {}

(* README.md and docs/architecture.md on le-cli: a run that says it        *)
(* succeeded printed what the pipeline makes, up to the stage asked for,   *)
(* of the whole command line (or its help), one that failed printed        *)
(* nothing, and a refused command line has touched nothing.                *)
PrintsWhatWasAsked ==
  stage = "exited" =>
    /\ exit_code = 0 => printed # Null \/ Asks("--help")
    /\ exit_code # 0 => printed = Null
    /\ exit_code = 2 => objects = <<>>
    /\ printed # Null => printed \in Asked
=============================================================================
