# LAE, verified

TLA+ models, model-checking runs and machine-checked proofs of LAE, a C++
runtime that turns text into typographic emphasis: a language provider
analyses the text, a reading model turns the analysis into signals, and a
presentation policy turns the signals into an emphasis plan. A C ABI
(`include/le`) exposes it to C, C++, Python and Swift hosts.

## 1. The system

| Part | State it keeps | Operations | Where it is modelled |
| --- | --- | --- | --- |
| Provider registry (`runtime/plugin/provider_registry.cpp`) | per runtime a list of entries under a `shared_mutex`; per entry a mutex, a module handle, an `active` flag; per process the module loader's reference counts | register, load, analyse (routing), destroy | `ProviderRegistry`, `ProviderService` |
| Provider result sink (same file, `Builder`) | the analysis under construction, a sticky error status | add node, child, feature, region; finish | `ProviderSink` |
| Linguistic IR (`runtime/core/ir.cpp`, `text.cpp`) | an analysis: nodes, children, features, language regions; a text's grapheme boundaries | validate | `AnalysisIR` |
| Explicit regions (`runtime/abi/api.cpp`) | the merged analysis | check the partition, analyse and merge region by region | `RegionAnalysis`, `Processing` |
| Reading models (`runtime/core/reading.cpp`, `api.cpp`) | none | prefix, lexical core, linear and segmental salience | `ReadingModels` |
| Presentation policies (`runtime/core/emphasis.cpp`) | the plan under construction | binary, variable strength; merge of touching spans | `Presentation` |
| Processing calls (`api.cpp`) | one call's locals | `le_process`, `le_process_with_model`, `le_process_regions`, `le_process_regions_with_model` | `Processing` |
| Process options (`api.cpp`, `le/api.h`) | none; three layouts told apart by `struct_size` | read, check, default | `ProcessOptions`, `Processing` |
| Language router (`runtime/core/language_router.cpp`) | none | pick a built-in provider | `BuiltInProviders` |
| English provider (`runtime/providers/english`) | the sentence being scanned, the token being peeled | segment, `analyze_morphology`, assemble | `BuiltInProviders`, `EnglishMorphology` |
| Generic, Chinese, Japanese providers (`runtime/providers`) | the sentence being scanned, the table of best cuts | segment, assemble | `BuiltInProviders`, `ChineseSegmentation`, `JapaneseSuffixes` |
| Model artifacts (`runtime/model/artifact.cpp`; `tools/model/main.cpp`; `lae_training/artifacts.py`) | a file, the decoded artifact | encode, compile, export, load, validate | `ModelArtifact` |
| C ABI handles, last error (`api.cpp`, `le/api.h`) | runtimes, models, analyses, signals, results; a thread-local message | create (in one call or in stages), read, destroy | `NativeApi`, `CProgram` |
| Python and Swift bindings (`bindings/`) | the handles of a shared Runtime and Model, a local handle per operation | load a model, process, close | `Bindings` |
| `le-cli` (`tools/cli/main.c`) | its options, buffers, files and handles | read arguments and files, run a stage, print, clean up | `CommandLine` |
| Training, evaluation (`training/`) | data sets, fitted weights | fit, score | not modelled, offline numerics |

How they interact. A host thread calls the C ABI. The registry asks its
entries in order whether they support the language, holding its lock shared
and, for a provider without the thread-safe flag, the entry's own lock; the
first that does is called back to analyse, and emits events into the sink; the
sink's result is validated. If no entry supports the language, the router
picks a built-in provider, whose result passes the same validator. Calls with
explicit regions do all that once per region and merge the results. Reading
model and policy then run on the analysis without shared state. The same
stages can be called one by one, with a handle between each two; le-cli does
so for its dumps. The bindings keep a handle in an object that several threads
share, and read a failure's diagnostic in a call of its own.

What is hard. The registry is the only concurrent part: three kinds of lock,
callbacks into foreign code while locks are held, exceptions from that code,
modules shared by runtimes and reference-counted by the process. The sink has
to make a tree of any sequence of events. The merge shifts identifiers and
spans. The pipeline depends on orders nothing enforces (of nodes, of spans).
Providers cut texts with unsigned offsets and by tables whose order matters.
Two programs in two languages write the artifact format, and a file may be
damaged before it is read. Callers of three generations pass options of three
sizes. Handles are destroyed in any order, by clean-up code that a failure at
any point jumps to. `PROJECT.json` lists the hazards line by line under "hazards", with the
properties that cover each.

What makes each part correct, in a sentence: the *registry* routes as one
ordered list of providers would, whatever threads do, runs callbacks under the
locks they need and releases modules once; the *sink* serves exactly what was
emitted, as a laminar tree, or an error; the *merge* yields an analysis that
reads as its regions do on their own; the *plan* says what the signals ask
for, normalized; *options* of an older caller mean what the newest ones with
initial values mean; a *provider* finds exactly the words, and its subunits
tile their unit; an *artifact* is read back as it was written, or refused as
corrupt or as incompatible, whichever it is; a *handle* is destroyed exactly
once and owns what its views show; an *error* is the caller's own; a plan made
*in stages* is the plan of the one call; *le-cli* prints what its whole command
line asks for, or nothing.

## 2. Modules

| Module | What it is |
| --- | --- |
| `ProviderService` | abstract specification: registered providers per runtime, calls that take effect at once, analyses served by the first provider that claims the language |
| `ProviderRegistry` | the registry lock by lock: one program counter per thread, 18 steps; refines `ProviderService` |
| `ProviderRegistryProofs` | theorems about the registry: types, locks, callbacks, names |
| `ProviderRegistryPromises` | theorems about what it promises: routing, the refinement, modules, contexts; extends the one above |
| `AnalysisIR` | texts, spans, analyses and `ValidAnalysis`, the validator, one conjunct per check |
| `ProviderSink` | the `Builder`: any events in any order, then a status or an exception |
| `ProviderSinkProofs` | theorems about the sink: what it serves is a tree, laminar and complete |
| `ReadingModels` | the reading models as operators from a node to signals |
| `Presentation` | the policies as an operator that takes a plan and a signal to a plan |
| `RegionAnalysis` | the partition check and one step of the merge |
| `ProcessOptions` | the options' layouts, checks and defaults |
| `Pipeline` | the stages from an analysis to a plan as functions, on the four modules above |
| `Processing` | a processing call from options to plan, one node and one signal at a time; extends `Pipeline` |
| `CountingLemmas` | induction as a statement about sets of numbers, the n-th element of a set of numbers, sums |
| `MergeLemmas` | theorem about `RegionAnalysis`: one step of the merge keeps a document's analysis valid |
| `ReadingLemmas` | theorem about `ReadingModels`: where a node's signals lie and how strong they are; lemmas about `Presentation` |
| `ProcessingProofs` | theorems about `Processing`, from the two modules above |
| `NativeApi` | the C ABI: each function as the set of ways it may return, and what a call does to handles, out variables and the diagnostic; extends `Pipeline` |
| `CProgram` | a C program: any calls the contract allows, in any order |
| `CommandLine` | le-cli, statement by statement |
| `Bindings` | threads that share a Runtime and a Model of the Python or Swift binding |
| `Hosts` | composes the three above over one `NativeApi`: each behaviour has one of the programs |
| `HostsProofs` | theorems about the programs: handles, errors, plans made in stages |
| `EnglishMorphology` | the peeling of one token |
| `ProviderText` | texts as characters with marks: graphemes, scans, scripts |
| `ChineseSegmentation` | the table of best cuts of a run of ideographs |
| `JapaneseSuffixes` | the suffix tables and the unit a word becomes |
| `BuiltInProviders` | router, scan and assembly of the four providers; composes the three modules above with the validator of `AnalysisIR` |
| `ModelArtifact` | a file from encoder, le-model or exporter, through damage, to the loader |
| `MCRegistry`, `MCSink`, `MCProcessing`, `MCEnglish`, `MCProviders`, `MCArtifact`, `MCHosts` | constants for TLC |

How state and actions correspond to the code.

*ProviderRegistry.* `pc[t]` is where a host thread stands in
`provider_registry.cpp` (labels are named after the statement: `wlock` is the
`unique_lock` of `register_provider`, `route` the head of the loop in
`analyze`, `supports` and `analyze` the two callbacks in progress). `entries`
is `entries_`, `writer` and `readers` are `mutex_`, `callLock` the entries'
`call_mutex`, `refs` the process's count for each module, `open` the runtimes
not being destroyed. A callback starts when the thread reaches its label and
ends in the action that leaves it, so two callbacks overlap whenever the locks
allow. A lock is taken by an action of its own that is enabled when the lock
is free; locks are released by the action that leaves their scope, on the
exception paths as well. Host obligations are guards: no call on a runtime
that is being destroyed, no re-entrant call from a callback. `adopted` and
`destroyed` are history. Left out: the descriptor's struct layout behind one
`Incompatible` set; builds without dynamic loading (`DynamicLoading = FALSE`)
only turn `load` into `LE_ERROR_UNSUPPORTED` and are not run.

*ProviderSink.* `analysis` is `Builder::analysis`, `sink` its status,
`outcome` what `analyze` throws or returns. Each event action contains
`build_event`: a sticky error first, then the event, then what it may throw.
`issued` counts the accepted events, a history bounded by `MaxEvents`. A null
sink context is a no-op and left out.

*Processing.* `stage` is the position in the call, `at` the loop index of the
loop the stage runs. `analysis`, `signals` and `emphasis` are the locals of
that name; `sources` keeps the analyses of the regions, a history. A provider
answers with any valid analysis in `AnalysesOf`, which is what the registry or
the router guarantees, or fails. Saliences are integers in units of 1/`Scale`;
a proportion is the fraction its float stands for, so `std::ceil` of the
product is exact. `settings` is `pipeline_options`. Options are a record of
all the fields of the newest layout: what lies behind `struct_size` is whatever
the memory there holds, so a read beyond it would show. A float is
`NotANumber` or an integer in units of 1/`Scale`, a language tag that
`valid_language` rejects a member of `MalformedTags`; sizes are those of
64-bit builds. Left out: null arguments and invalid UTF-8 (they are in
`NativeApi`), reserved fields of regions, the lexical-probability and
difficulty channels of signals (no stage reads them).

*EnglishMorphology.* `begin` and `end` are `core_begin` and `core_end`,
`leading` and `trailing` the vectors of that name, `layer` the loop counter.
`Minus` is the subtraction of `std::size_t`. The tables are the code's; of
the function words only those an affix rule would match are listed, and of
each contraction the form with the straight apostrophe.

*BuiltInProviders.* The four `analyze` functions have one shape and are one
state machine: `Route` is the router, the scan's actions are the branches of
the loops in `segment` (a unit starts here, a sentence ends here, neither),
the emit actions the two nested loops that assemble nodes. `units` and
`sentences` are the vectors of these names, `owner` the node whose children
the units become. Offsets count characters instead of bytes; a character in
`Marks` extends the grapheme before it. Which features a node has is kept,
their values are not. Kana and ideographs are romanized. The Japanese tables
are complete; the Chinese lexicon is a constant, in the runs an excerpt with
overlapping words. What `analyze_morphology` makes of an English token is
left open here: any cut into a core and an affix.

*ModelArtifact.* `bytes` is the file, least significant byte first, at the
code's offsets. `sealed` stands for the checksum: it holds after writing, a
damage breaks it unless whoever damaged the file seals it again, and CRC-32
detects every change of one byte. `Layout` is the format `encode` and the
exporter share; `ExporterRefuses` are the exporter's own checks,
`ValidateMetadata` the runtime's. `stage` and `cursor` are the position in
`load` and its cursor. A float is its bit pattern with the sign clear.
`MaxLanguages`, `MaxFeatures`, `MaxArtifactSize` are constants, smaller in the
run than in the code.

`Compiled` is what le-model's options make of its baseline, one after the
other; `inspect` prints what `load` returned and is left out, as is how option
values are parsed (an option whose value does not is not among
`ToolOptions`). A write that is cut short leaves one of `DamageLength`'s files.

*NativeApi.* A handle is an index into `objects`, which only grows, so a stale
handle is never mistaken for a new one; `live` says whether it was destroyed.
`slot` has the pointer variables of the programs, `usable` those of them that
may be read: a C program's locals before their first call and after a destroy
are not. `Return` is the frame every creating function has: a null out pointer
is refused, the variable nulled, and the status is `LE_OK` with a new object
or a failure whose diagnostic is recorded. Diagnostics are numbered by their
call instead of spelled out. Allocations and providers fail at any time. An
analysis handle has the arrays `make_analysis` builds; a region's view names
the region of the handle's own copy whose string it points into. `from` is
history: what a staged object was made of. A call is atomic here: what threads
inside calls share is the registry, which has its own module, and the
diagnostic, which each call writes once. Left out: texts and counts beyond 32
or 64 bits, plain accessors.

*CommandLine.* One action per statement that can fail or changes state; each
`goto cleanup` is the way to stage `cleanup`. Files and buffers are objects
like handles, so that a leak or a double `free` or `fclose` would show. `Grow`
always moves the buffer. An argument whose value is missing or does not parse
is `Unparsable`. `AskedOptions` and `Asked` say what a command line means,
independently of the loop: the last argument for a thing counts.

*Bindings.* The two bindings run the same steps and are one module; they
differ in the types of errors raised without a native call, which are one
value here. The native call, the reading of the diagnostic and the copying of
the result are actions of their own: ctypes releases Python's lock in native
calls and Swift has none. Closing an object during another thread's operation
on it is excluded by both bindings' documentation, so it is by `Close`'s guard,
closing it from two threads at once included. Left out: finding the library,
encoding of strings, models of another library's runtime, plain accessors.

## 3. Runs

| Run | Question | Distinct states |
| --- | --- | --- |
| `registry_routing` | Do two threads that register, load, analyse and destroy one runtime see one ordered list of uniquely named providers, and does every call return? | 319 thousand |
| `registry_modules` | Do two runtimes sharing a module keep its reference count, mapping and contexts right? | 746 thousand |
| `registry_contexts` | Does the runtime serialize callbacks of a context? (violated) | |
| `sink` | Does any sequence of events become the tree it describes, or an error? | 488 thousand |
| `processing` | Do options, merge, reading and presentation keep what they promise on every small analysis? | 485 thousand |
| `processing_order` | Are plans ordered and non-overlapping? (violated) | |
| `processing_languages` | Do models run on their languages only? (violated) | |
| `english` | Do affixes tile a token and leave a core? | 6 thousand |
| `english_spans` | Are the subunits of every token spans? (violated) | |
| `providers` | Does every short text become a valid analysis of exactly its words? | 75 thousand |
| `artifacts` | Are artifacts read back, refused or found corrupt as they should be? | 84 thousand |
| `hosts` | Do a C program, le-cli and the bindings leak, misuse or confuse handles or errors, and do stages and command lines mean what they say? | 722 thousand |

Bounds, and why they are enough.

- Registry: two threads, up to three calls each (`MaxCalls`). Every lock here
  excludes or admits pairs of threads, so two show each conflict. Four
  descriptors: a thread-safe one, one that is not, one that fails the version
  check, and a loadable one with a name already taken. A plan of one region,
  and in `registry_routing` one of three over two languages in turn, so that a
  registration can fall between two regions of a call.
  `registry_modules` has two runtimes and drops variety of descriptors.
- Sink: a text of two graphemes, up to `MaxEvents` events over identifiers
  that include a missing and a duplicate one: enough for a cycle, a second
  parent, a detached node, and children out of order.
- Processing: a text of four bytes and three graphemes, one of two bytes.
  Every valid analysis of up to two nodes under the root: siblings in and out
  of text order, a unit in a unit, empty nodes. Two regions. Two nodes are
  what merging of spans, sibling order and identifier shifts relate. Options
  of each version with, field by field, a value the field must not have,
  before and behind the version's end, and every size next to a known one.
- English: seven heads, nine stems and fifteen tails, up to four suffix layers
  (one more than the code peels), a decomposed accent inside a stem.
- Providers: every text of up to four graphemes over an alphabet with each
  class of character the scan tells apart and a combining mark, which puts
  each class next to each other one on both sides. For Japanese also every
  rule's ending behind stems and before a tail, whole and without its first
  part; for Chinese two runs on which greedy matching fails.
- Hosts: five failing or succeeding calls (`MaxCalls`), as many as a plan made
  in stages with an artifact takes (runtime, model, analysis, signals, plan);
  a sixth repeats one of them. A text of two graphemes, one nested answer with
  features of different lengths and one without nodes, valid and invalid
  arguments of each kind. Command lines that set each option, repeat one,
  contradict one and ask for each stage, with and without a file and an
  artifact; buffers that grow at least once (`MaxObjects`). Two threads of a
  binding, which is enough for one to fail between another's failure and the
  reading of its diagnostic.
- Artifacts: every model type and le-model command; any one byte at any offset changed to one of
  eight values, or the length changed, sealed again or not. One byte is enough
  for each header field, count and offset to disagree with the rest.

`CHECK_DEADLOCK FALSE` is set where the system ends: threads stop after
`MaxCalls` calls, a call or a token is over once it has returned, a program
once it has exited.

Every property has a mutant in the module it is about, an operator whose
comment says which bug it stands for; TLC finds the property violated when the
mutant takes the place of the definition.

Fairness. `registry_routing` assumes `WF_vars(Step(t))` per thread: a thread
inside a call that can move does, callbacks return, and the scheduler does not
leave a thread out for ever. Nothing forces a host to start a call. Weak
fairness is enough for the locks because each thread makes finitely many
calls, so a lock that is released for the last time stays free; no fairness of
`std::shared_mutex` between waiters is assumed, and the C++ standard promises
none.

## 4. Findings

- Callbacks of one context are not serialized across runtimes
  (`registry_contexts`): the mutex belongs to an entry, and two runtimes that
  load one module hold two entries for its context, against
  `docs/c-api.md:70-73`.
- A plan is not always ordered (`processing_order`), against
  `docs/architecture.md:80-81`: the validator admits nested units and
  identifiers out of text order. `PlanKeepsTextOrder` is the part that holds:
  if the nodes read follow each other in the text, so do the spans.
- A model may run outside its languages (`processing_languages`), against
  `docs/reading-and-presentation.md:27-28`: the check quantifies over the
  regions a provider emitted, and a valid analysis may have none.
- English texts with certain tokens fail as internal errors
  (`english_spans`): "trans", because the prefix loop looks past `core_end`
  and its sizes wrap; "resume" with decomposed accents, because a prefix may
  be cut off before a combining mark.

## 5. Proofs

Everything below holds for every value of the constants, under the named
assumptions only: any number of threads, runtimes, providers and modules, any
text, analysis, model, option, command line. An invariant is proved in three
steps (it holds at first, every step keeps it, it implies the property); the
step has one case per action.

**The registry**, under `RegistryAssumption` (the constants have their types).

| Theorem | States |
| --- | --- |
| `TypeCorrect` | `Spec => []TypeOK` |
| `LocksDisciplined` | which locks a thread holds is a function of where it is, exclusive holders are alone, a runtime under destruction belongs to one thread |
| `CallbacksExclusive` | two threads are never inside callbacks of one entry without the thread-safe flag |
| `RoutingUndisturbed` | an action property: no step of any thread changes the list under a routing pass |
| `NamesUnique` | no runtime has two entries of one name |
| `RoutingIsSticky` | within a call, a provider that has served a language serves its later regions |
| `RegistryImplementsService` | `Spec => ImplementsService`: each behaviour, lock by lock, is one of `ProviderService` |
| `ModulesAreBalanced` | a module's count is the number of entries and loads under way that hold it |
| `CodeIsMapped` | a module is mapped whenever a thread may call into it |
| `ContextsAreReturned` | a context is destroyed once per successful registration, never for a rejected one |

The first invariant is `IInv == TypeOK /\ LockDiscipline`. `TypeOK` alone is
not inductive: a step looks up `entries[Rt(t)][cursor[t]]`, which needs the
cursor in range and the call of the right kind. Each conjunct of
`LockDiscipline` has a lemma with one step per action; `EntryStaysPut` says
that an entry a thread looks at does not move, which is where
`WriterExcludesReaders` and `DestroyerIsAlone` are used. The others each add
what a thread knows between two steps, beside `IInv`:

- `NamesInv`: between the duplicate check and the insertion the candidate's
  name stays free, because the lock is held exclusively.
- `RoutingInv`: the entries a pass has scanned do not claim the language, so
  the one it calls is the first that does; the regions served so far were
  served by it. The refinement uses the same invariant. A call's
  first step maps to its invocation (of a destroy, to the destruction: from
  then on nobody else can see the entries go), the insertion to the adoption
  of a provider, the return of an analysis, or the end of the list with the
  built-in answer, to the serving of a region, the last step to the
  completion or a failure, and every other step to a stutter.
- `ModulesInv`: entries name the module they came from, and finitely many
  holders are counted; the step compares cardinalities before and after.
- `ContextsInv`: the same for the registrations whose context is still owed.

**The sink**, under `SinkAssumption`. `ServedAnalysesAreTrees`,
`ServedAnalysesAreLaminar` and `ServedAnalysesAreComplete`: whatever events
arrive about whatever text, what is served has node 0 above every node, its
nodes are nested as their ancestry says or disjoint however far apart they
are, and it has one entry per event sent. The invariant `SinkInv` says that
the builder holds one entry for each event as long as nothing has failed, and
that only a validated analysis is served. The rest is about `ValidAnalysis`,
which checks parents against children and neighbouring siblings only: an
induction on the distance from the root gives the ancestry, one on the
distance between siblings their order.

**The merge and the calls**, under `ProcessingAssumption`,
`AnalysesAssumption`, `ScaleAssumption`, `FloatAssumption`,
`ProportionAssumption` and `TagsAssumption`. The assumptions say that texts
are texts, that a provider answers with valid analyses (the registry and the
router both validate before they return), that a float that is not a number is
no number, and that an empty language tag is well formed.

| Theorem | States |
| --- | --- |
| `MergeStaysValid` | a valid analysis of the next region, appended to a valid document that ends where the region begins, gives a valid document |
| `MergesAreValid` | the merge over any valid partition passes the validator |
| `ModelsReadInPlace` | a node's signals, by any model with any weights, lie in the node, on grapheme boundaries, in text order and apart, with saliences in 1..`Scale` |
| `CallsAreTyped` | `TypeOK`, which bounds saliences and strengths |
| `PlansAreAskedFor` | a plan emphasizes a grapheme at a strength exactly if a signal that passes the policy asks for it |
| `PlansAreNormalized` | no span of a plan is empty, splits a grapheme or merely goes on with the one before |
| `PlansKeepTextOrder` | if the nodes read follow each other, so do the spans |
| `SegmentsStayPartial` | a segmental model leaves out a part of every unit bigger than its minimum |
| `OlderOptionsAreNewest` | options of an older version mean what the newest ones with initial values in the missing fields mean |

`MergeIsValid` speaks of the end of the loop only. `AnalysisInv` says that the
document is valid after every region and ends where the next one begins: the
latter is what keeps the root's children and the regions sorted, and single
parents and reachability move along with the shifted identifiers. `SignalsInv`
and `EmphasisInv` say the same of the loops over nodes and signals: the signals
so far come from the nodes before `at`, and the plan so far shows what the
handled signals ask for and ends before those to come, if they are in order.
`OptionsInv` and `ControlInv` keep the settings those of accepted options.

**The programs**, under `SlotsAssumption`, `MeAssumption`,
`OperationsAssumption` (names are distinct), `LoadsAssumption` (a file that
loads yields a model), `TextsAssumption` and `FileTextsAssumption` (a provider
has an answer on each text a program has, and on each piece of one analyzed by
regions), and the assumptions about answers and options above.

- `HandlesAreHeld`: in a C program, le-cli and a binding alike, the live
  objects are exactly those a readable variable holds, each held once. The
  invariant `HandlesInv` adds which of le-cli's variables are still null at
  each stage, so that no call overwrites one (`StagedSlots`), and that a
  binding's local handle is set only between a call and its wrapping or
  copying (`BoundSlots`).
- `ErrorsAreOwn`: a diagnostic read after a failure, and an error a binding
  raises, is that of the thread's own failing call. `ErrorsInv` adds that a
  thread about to read a diagnostic has a failed call as its last one.
- `AnalysesReadBack`: an analysis handle's arrays, of all its nodes' children
  and features one after the other, read back as the analysis they were made
  of, also one merged from regions. `FoundWhereOthersEnd` says where a
  flattened sequence of sequences has each of them, `MergesAreAnalyses` that
  what regions are merged into has the fields and types of an analysis.
- `StagesAreProcessing`: a plan made in stages is the plan of the one call,
  with options that say the same and are accepted.

The last two share `MadeInv`: every live object is made as its kind is,
whatever became of the objects it was made from, and a variable holds an
object of its own kind.

How data is dealt with. Induction is stated about sets of numbers
(`SetInduction`, `StepByStep` in `CountingLemmas`) and derived from the least
element of a set, so a fold over a sequence can be followed element by element.
What is out of reach is recursion on other data, and `RECURSIVE` operators.

Only model-checked:

- `EveryCallReturns`: liveness.
- `PrintsWhatWasAsked`, `RegionsReadAlone`, and the
  properties of `ModelArtifact` and `BuiltInProviders`: not proved yet, see
  section 7.
- The properties of `EnglishMorphology`: they relate strings character by
  character, by recursive operators.

## 6. Not modelled

- Training and evaluation: offline numerics over recorded data. What they hand
  to the runtime, the exported artifact, is in `ModelArtifact`.
- UTF-8 decoding and grapheme segmentation (utf8proc): texts are given with
  their boundaries.
- The platform's module loader, beyond its reference count.
- The lexical and difficulty channels of signals, which no stage reads.
- Plain accessors. One lags behind: the bindings' `ModelType` has no segmental
  model, so reading the type of one raises.

## 7. Plan

Done: the models of all the parts in section 1 but training and evaluation;
proofs for the registry, the sink, the merge, the processing calls and the
programs.

Next, in this order:

1. `PrintsWhatWasAsked`: the arguments taken so far are those a command line
   asks for, as a function of how many were taken.
2. `RegionsReadAlone`: the signals of a merge region by region, from the
   lemmas of `MergeLemmas` about shifted identifiers.
3. `ModelArtifact`: `CorruptionIsInvalid` from the seal, `AcceptedIsCanonical`
   from the positions of the cursor.
4. `BuiltInProviders`: `ScriptsKeptApart` and `SentencesEndAtTerminals`, which
   need what the scan knows of the text before `at`.
