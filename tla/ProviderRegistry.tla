-------------------------- MODULE ProviderRegistry --------------------------
(***************************************************************************)
(* The external-provider registry of a runtime                             *)
(* (src/runtime/plugin/provider_registry.cpp) as host threads reach it     *)
(* through le_runtime_register_provider, le_runtime_load_provider,         *)
(* le_analyze, le_analyze_regions and le_runtime_destroy                   *)
(* (src/runtime/abi/api.cpp).                                              *)
(*                                                                         *)
(* Each thread runs one call at a time; pc[t] says where it is.  The       *)
(* registry's shared_mutex is writer/readers, an entry's call_mutex is     *)
(* callLock.  A callback runs while pc[t] is at its label and returns in   *)
(* the action that leaves the label, so callbacks of different threads     *)
(* overlap whenever the locks let them.                                    *)
(***************************************************************************)
EXTENDS Integers, Sequences, FiniteSets

CONSTANTS
  Threads, Runtimes, Descriptors, Modules, Languages,
  NameOf, Claims, EntryPoint, NoModule, BuiltIn, Plans,   \* see ProviderService
  Static,          \* descriptors the host links in and registers itself
  ThreadSafe,      \* descriptors with LE_PROVIDER_FLAG_THREAD_SAFE
  Incompatible,    \* descriptors that fail the v1 checks
  ContextOf,       \* [Descriptors -> contexts]: le_provider_v1_t.context
  DynamicLoading,  \* whether the build has LE_DYNAMIC_PROVIDER_LOADING
  NoThread,        \* a mutex without an owner
  MaxCalls         \* bound: calls a thread makes

ASSUME RegistryAssumption ==
  /\ Static \subseteq Descriptors
  /\ ThreadSafe \subseteq Descriptors
  /\ Incompatible \subseteq Descriptors
  /\ Claims \in [Descriptors -> SUBSET Languages]
  /\ EntryPoint \in [Modules -> Descriptors]
  /\ NoModule \notin Modules
  /\ BuiltIn \notin Descriptors
  /\ NoThread \notin Threads
  /\ DynamicLoading \in BOOLEAN
  /\ Plans \subseteq Seq(Languages)
  /\ MaxCalls \in Nat

VARIABLES
  pc,         \* [Threads -> Labels]
  call,       \* [Threads -> the call in progress]
  status,     \* [Threads -> its le_status_t, Pending until decided]
  served,     \* [Threads -> who served the regions so far]
  cursor,     \* [Threads -> index of the entry it looks at]
  calls,      \* [Threads -> calls started], up to MaxCalls
  open,       \* runtimes whose destruction has not begun
  entries,    \* [Runtimes -> Seq(entries)]: entries_
  writer,     \* [Runtimes -> thread holding mutex_ exclusively]
  readers,    \* [Runtimes -> threads holding mutex_ shared]
  callLock,   \* [Runtimes -> [Descriptors -> holder of the entry's call_mutex]]
  refs,       \* [Modules -> dlopen reference count in the process]
  adopted,    \* [Descriptors -> contexts handed to a runtime], history
  destroyed   \* [Descriptors -> destroy callbacks finished], history

locals  == <<pc, call, status, served, cursor, calls>>
locks   == <<writer, readers, callLock>>
history == <<adopted, destroyed>>
vars    == <<locals, open, entries, locks, refs, history>>

Labels == {"idle", "open", "entry", "validate", "wlock", "duplicate", "insert",
           "reject", "region", "rlock", "route", "calllock", "supports", "analyze",
           "builtin", "teardown", "destroy", "close", "done"}

Entry == [provider : Descriptors, module : Modules \cup {NoModule}]

Goto(t, l) == pc' = [pc EXCEPT ![t] = l]
At(t, l)   == pc[t] = l

(* Leave the call with a status; its frame is popped by Return. *)
Finish(t, s) ==
  /\ Goto(t, "done")
  /\ status' = [status EXCEPT ![t] = s]

Rt(t) == call[t].runtime

-----------------------------------------------------------------------------
(* The abstract service, and where its state lives here. *)
Service == INSTANCE ProviderService WITH
             registered <- [r \in Runtimes |->
                 IF r \in open THEN [i \in DOMAIN entries[r] |-> entries[r][i].provider]
                 ELSE <<>>]

Pending == "PENDING"
NoCall  == [op |-> "none"]

(* The descriptor register_provider validates and copies. *)
Candidate(t) ==
  IF call[t].op = "register" THEN call[t].provider ELSE EntryPoint[call[t].module]

(* The module it came from, kept by the entry it becomes. *)
Origin(t) == IF call[t].op = "load" THEN call[t].module ELSE NoModule

NameTaken(r, d) ==
  \E i \in DOMAIN entries[r] : NameOf[entries[r][i].provider] = NameOf[d]

Current(t) == entries[Rt(t)][cursor[t]]
Language(t) == call[t].plan[Len(served[t]) + 1]

-----------------------------------------------------------------------------
Init ==
  /\ pc = [t \in Threads |-> "idle"]
  /\ call = [t \in Threads |-> NoCall]
  /\ status = [t \in Threads |-> Pending]
  /\ served = [t \in Threads |-> <<>>]
  /\ cursor = [t \in Threads |-> 0]
  /\ calls = [t \in Threads |-> 0]
  /\ open = Runtimes
  /\ entries = [r \in Runtimes |-> <<>>]
  /\ writer = [r \in Runtimes |-> NoThread]
  /\ readers = [r \in Runtimes |-> {}]
  /\ callLock = [r \in Runtimes |-> [d \in Descriptors |-> NoThread]]
  /\ refs = [m \in Modules |-> 0]
  /\ adopted = [d \in Descriptors |-> 0]
  /\ destroyed = [d \in Descriptors |-> 0]

(* A host thread enters the C API with call c at label l. *)
Begin(t, c, l) ==
  /\ At(t, "idle")
  /\ calls[t] < MaxCalls
  /\ calls' = [calls EXCEPT ![t] = @ + 1]
  /\ call' = [call EXCEPT ![t] = c]
  /\ Goto(t, l)

CallRegister(t) ==
  /\ \E r \in open, d \in Static :
       Begin(t, Service!RegisterCall(r, d), "validate")
  /\ UNCHANGED <<status, served, cursor, open, entries, locks, refs, history>>

CallLoad(t) ==
  /\ \E r \in open, m \in Modules \cup {NoModule} :
       Begin(t, Service!LoadCall(r, m), "open")
  /\ UNCHANGED <<status, served, cursor, open, entries, locks, refs, history>>

CallAnalyze(t) ==
  /\ \E r \in open, p \in Plans : Begin(t, Service!AnalyzeCall(r, p), "region")
  /\ UNCHANGED <<status, served, cursor, open, entries, locks, refs, history>>

(* Destroying a runtime that another thread is using is not supported      *)
(* (docs/c-api.md:70), so the host starts it only when nobody is inside.   *)
CallDestroy(t) ==
  /\ \E r \in open :
       /\ \A u \in Threads : ~At(u, "idle") => Rt(u) # r
       /\ Begin(t, Service!DestroyCall(r), "teardown")
       /\ open' = open \ {r}
  /\ UNCHANGED <<status, served, cursor, entries, locks, refs, history>>

Return(t) ==
  /\ At(t, "done")
  /\ Goto(t, "idle")
  /\ call' = [call EXCEPT ![t] = NoCall]
  /\ status' = [status EXCEPT ![t] = Pending]
  /\ served' = [served EXCEPT ![t] = <<>>]
  /\ cursor' = [cursor EXCEPT ![t] = 0]
  /\ UNCHANGED <<calls, open, entries, locks, refs, history>>

-----------------------------------------------------------------------------
(* load and open_provider *)

(* Path checks, the build switch, then dlopen. *)
OpenModule(t) ==
  /\ At(t, "open")
  /\ \/ /\ call[t].module = NoModule
        /\ Finish(t, "INVALID_ARGUMENT")
        /\ UNCHANGED refs
     \/ /\ call[t].module # NoModule /\ ~DynamicLoading
        /\ Finish(t, "UNSUPPORTED")
        /\ UNCHANGED refs
     \/ /\ call[t].module # NoModule /\ DynamicLoading
        /\ \E s \in {"PLUGIN_FAILURE", "OUT_OF_MEMORY"} : Finish(t, s)
        /\ UNCHANGED refs
     \/ /\ call[t].module # NoModule /\ DynamicLoading
        /\ refs' = [refs EXCEPT ![call[t].module] = @ + 1]
        /\ Goto(t, "entry")
        /\ UNCHANGED status
  /\ UNCHANGED <<call, served, cursor, calls, open, entries, locks, history>>

(* dlsym and the entry point: no symbol or a null descriptor is            *)
(* incompatible, an exception a failure; each closes the module.           *)
ResolveEntry(t) ==
  /\ At(t, "entry")
  /\ \/ /\ Goto(t, "validate")
        /\ UNCHANGED <<status, refs>>
     \/ /\ \E s \in {"PLUGIN_INCOMPATIBLE", "PLUGIN_FAILURE"} : Finish(t, s)
        /\ refs' = [refs EXCEPT ![call[t].module] = @ - 1]
  /\ UNCHANGED <<call, served, cursor, calls, open, entries, locks, history>>

-----------------------------------------------------------------------------
(* register_provider, for a static descriptor or a loaded module's *)

(* The v1 checks, then the copy of the name (which may not allocate). *)
ValidateDescriptor(t) ==
  /\ At(t, "validate")
  /\ \/ /\ Candidate(t) \in Incompatible
        /\ Goto(t, "reject")
        /\ status' = [status EXCEPT ![t] = "PLUGIN_INCOMPATIBLE"]
     \/ /\ Candidate(t) \notin Incompatible
        /\ Goto(t, "reject")
        /\ status' = [status EXCEPT ![t] = "OUT_OF_MEMORY"]
     \/ /\ Candidate(t) \notin Incompatible
        /\ Goto(t, "wlock")
        /\ UNCHANGED status
  /\ UNCHANGED <<call, served, cursor, calls, open, entries, locks, refs, history>>

(* Mutant: a registration locks mutex_ shared, as a reader would. *)
LockExclusiveAsReader(t) ==
  /\ At(t, "wlock")
  /\ Goto(t, "duplicate")
  /\ UNCHANGED <<call, status, served, cursor, calls, open, entries, locks, refs,
                 history>>

(* std::unique_lock lock(mutex_) *)
LockExclusive(t) ==
  /\ At(t, "wlock")
  /\ writer[Rt(t)] = NoThread /\ readers[Rt(t)] = {}
  /\ writer' = [writer EXCEPT ![Rt(t)] = t]
  /\ Goto(t, "duplicate")
  /\ UNCHANGED <<call, status, served, cursor, calls, open, entries, readers,
                 callLock, refs, history>>

UnlockExclusive(t) == writer' = [writer EXCEPT ![Rt(t)] = NoThread]

FindDuplicate(t) ==
  /\ At(t, "duplicate")
  /\ IF NameTaken(Rt(t), Candidate(t))
     THEN /\ UnlockExclusive(t)
          /\ Goto(t, "reject")
          /\ status' = [status EXCEPT ![t] = "PLUGIN_INCOMPATIBLE"]
     ELSE Goto(t, "insert") /\ UNCHANGED <<status, writer>>
  /\ UNCHANGED <<call, served, cursor, calls, open, entries, readers, callLock,
                 refs, history>>

(* Mutant: a new provider takes precedence over the registered ones. *)
InsertEntryFirst(t) ==
  /\ At(t, "insert")
  /\ UnlockExclusive(t)
  /\ entries' = [entries EXCEPT ![Rt(t)] =
                   <<[provider |-> Candidate(t), module |-> Origin(t)]>> \o @]
  /\ adopted' = [adopted EXCEPT ![Candidate(t)] = @ + 1]
  /\ Finish(t, "OK")
  /\ UNCHANGED <<call, served, cursor, calls, open, readers, callLock, refs,
                 destroyed>>

(* Mutant: the entry is active before push_back has room for it. *)
InsertEntryActive(t) ==
  /\ At(t, "insert")
  /\ UnlockExclusive(t)
  /\ destroyed' = [destroyed EXCEPT ![Candidate(t)] = @ + 1]
  /\ Goto(t, "reject")
  /\ status' = [status EXCEPT ![t] = "OUT_OF_MEMORY"]
  /\ UNCHANGED <<call, served, cursor, calls, open, entries, readers, callLock,
                 refs, adopted>>

(* Mutant: the exclusive lock is not released if the list cannot grow. *)
InsertEntryLocked(t) ==
  /\ At(t, "insert")
  /\ \/ /\ UnlockExclusive(t)
        /\ entries' = [entries EXCEPT ![Rt(t)] =
                         Append(@, [provider |-> Candidate(t), module |-> Origin(t)])]
        /\ adopted' = [adopted EXCEPT ![Candidate(t)] = @ + 1]
        /\ Finish(t, "OK")
     \/ /\ Goto(t, "reject")
        /\ status' = [status EXCEPT ![t] = "OUT_OF_MEMORY"]
        /\ UNCHANGED <<entries, adopted, writer>>
  /\ UNCHANGED <<call, served, cursor, calls, open, readers, callLock, refs,
                 destroyed>>

(* make_unique, push_back and activate.  Either allocation may fail, and   *)
(* the entry dropped then is not active and owns no module yet.            *)
InsertEntry(t) ==
  /\ At(t, "insert")
  /\ UnlockExclusive(t)
  /\ \/ /\ entries' = [entries EXCEPT ![Rt(t)] =
                         Append(@, [provider |-> Candidate(t), module |-> Origin(t)])]
        /\ adopted' = [adopted EXCEPT ![Candidate(t)] = @ + 1]
        /\ Finish(t, "OK")
     \/ /\ Goto(t, "reject")
        /\ status' = [status EXCEPT ![t] = "OUT_OF_MEMORY"]
        /\ UNCHANGED <<entries, adopted>>
  /\ UNCHANGED <<call, served, cursor, calls, open, readers, callLock, refs,
                 destroyed>>

(* Mutant: load has no catch. *)
RejectRegistrationUncaught(t) ==
  /\ At(t, "reject")
  /\ Goto(t, "done")
  /\ UNCHANGED <<call, status, served, cursor, calls, open, entries, locks, refs,
                 history>>

(* The exception leaves register_provider; load catches it and closes. *)
RejectRegistration(t) ==
  /\ At(t, "reject")
  /\ Goto(t, "done")
  /\ refs' = IF Origin(t) = NoModule THEN refs
             ELSE [refs EXCEPT ![Origin(t)] = @ - 1]
  /\ UNCHANGED <<call, status, served, cursor, calls, open, entries, locks,
                 history>>

-----------------------------------------------------------------------------
(* ProviderRegistry::analyze, once per region of the call *)

(* The loop of analyze_explicit_regions; le_analyze is one region.  After  *)
(* the last one the result is allocated.                                   *)
NextRegion(t) ==
  /\ At(t, "region")
  /\ IF Len(served[t]) < Len(call[t].plan)
     THEN Goto(t, "rlock") /\ UNCHANGED status
     ELSE \E s \in {"OK", "OUT_OF_MEMORY"} : Finish(t, s)
  /\ UNCHANGED <<call, served, cursor, calls, open, entries, locks, refs, history>>

(* std::shared_lock registry_lock(mutex_), held to the end of the region. *)
LockShared(t) ==
  /\ At(t, "rlock")
  /\ writer[Rt(t)] = NoThread
  /\ readers' = [readers EXCEPT ![Rt(t)] = @ \cup {t}]
  /\ cursor' = [cursor EXCEPT ![t] = 1]
  /\ Goto(t, "route")
  /\ UNCHANGED <<call, status, served, calls, open, entries, writer, callLock,
                 refs, history>>

UnlockShared(t) == readers' = [readers EXCEPT ![Rt(t)] = @ \ {t}]

(* The head of the loop over entries_: without another entry the registry  *)
(* answers nullopt and the built-in router takes the region.               *)
NextEntry(t) ==
  /\ At(t, "route")
  /\ IF cursor[t] <= Len(entries[Rt(t)])
     THEN /\ Goto(t, IF Current(t).provider \in ThreadSafe THEN "supports" ELSE "calllock")
          /\ UNCHANGED <<served, readers>>
     ELSE /\ served' = [served EXCEPT ![t] = Append(@, BuiltIn)]
          /\ UnlockShared(t)
          /\ Goto(t, "builtin")
  /\ UNCHANGED <<call, status, cursor, calls, open, entries, writer, callLock,
                 refs, history>>

(* provider_lock.lock(), for a provider that is not thread-safe. *)
LockCall(t) ==
  /\ At(t, "calllock")
  /\ callLock[Rt(t)][Current(t).provider] = NoThread
  /\ callLock' = [callLock EXCEPT ![Rt(t)][Current(t).provider] = t]
  /\ Goto(t, "supports")
  /\ UNCHANGED <<call, status, served, cursor, calls, open, entries, writer,
                 readers, refs, history>>

(* provider_lock goes out of scope with its iteration. *)
UnlockCall(t) ==
  callLock' = [callLock EXCEPT ![Rt(t)][Current(t).provider] =
                 IF @ = t THEN NoThread ELSE @]

(* Mutant: provider_lock guards supports alone. *)
SupportsReturnsUnlocked(t) ==
  /\ At(t, "supports")
  /\ UnlockCall(t)
  /\ IF Language(t) \in Claims[Current(t).provider]
     THEN Goto(t, "analyze") /\ UNCHANGED cursor
     ELSE Goto(t, "route") /\ cursor' = [cursor EXCEPT ![t] = @ + 1]
  /\ UNCHANGED <<call, status, served, calls, open, entries, writer, readers, refs,
                 history>>

(* Mutant: an exception of supports passes a lock released by hand. *)
SupportsReturnsLocked(t) ==
  /\ At(t, "supports")
  /\ \/ /\ Language(t) \in Claims[Current(t).provider]
        /\ Goto(t, "analyze")
        /\ UNCHANGED <<status, readers>>
     \/ /\ UnlockShared(t)
        /\ Finish(t, "PLUGIN_FAILURE")
  /\ UNCHANGED <<call, served, cursor, calls, open, entries, writer, callLock,
                 refs, history>>

(* supports() returns, or throws and ends the call. *)
SupportsReturns(t) ==
  /\ At(t, "supports")
  /\ \/ /\ Language(t) \in Claims[Current(t).provider]
        /\ Goto(t, "analyze")
        /\ UNCHANGED <<status, cursor, readers, callLock>>
     \/ /\ Language(t) \notin Claims[Current(t).provider]
        /\ UnlockCall(t)
        /\ cursor' = [cursor EXCEPT ![t] = @ + 1]
        /\ Goto(t, "route")
        /\ UNCHANGED <<status, readers>>
     \/ /\ UnlockCall(t) /\ UnlockShared(t)
        /\ Finish(t, "PLUGIN_FAILURE")
        /\ UNCHANGED cursor
  /\ UNCHANGED <<call, served, calls, open, entries, writer, refs, history>>

(* Mutant: whatever status the provider returned is passed to the host. *)
AnalyzeReturnsRaw(t) ==
  /\ At(t, "analyze")
  /\ UnlockCall(t) /\ UnlockShared(t)
  /\ \/ /\ served' = [served EXCEPT ![t] = Append(@, Current(t).provider)]
        /\ Goto(t, "region")
        /\ UNCHANGED status
     \/ /\ \E s \in {"INVALID_UTF8", "OUT_OF_MEMORY"} : Finish(t, s)
        /\ UNCHANGED served
  /\ UNCHANGED <<call, cursor, calls, open, entries, writer, refs, history>>

(* Mutant: a provider that fails is skipped like one that does not claim. *)
AnalyzeReturnsOrSkips(t) ==
  /\ At(t, "analyze")
  /\ UnlockCall(t)
  /\ \/ /\ served' = [served EXCEPT ![t] = Append(@, Current(t).provider)]
        /\ UnlockShared(t)
        /\ Goto(t, "region")
        /\ UNCHANGED cursor
     \/ /\ cursor' = [cursor EXCEPT ![t] = @ + 1]
        /\ Goto(t, "route")
        /\ UNCHANGED <<served, readers>>
  /\ UNCHANGED <<call, status, calls, open, entries, writer, refs, history>>

(* analyze() returns, its result is validated, and both locks are          *)
(* released; ProviderSink models what decides between success and failure. *)
AnalyzeReturns(t) ==
  /\ At(t, "analyze")
  /\ UnlockCall(t) /\ UnlockShared(t)
  /\ \/ /\ served' = [served EXCEPT ![t] = Append(@, Current(t).provider)]
        /\ Goto(t, "region")
        /\ UNCHANGED status
     \/ /\ \E s \in {"PLUGIN_FAILURE", "OUT_OF_MEMORY"} : Finish(t, s)
        /\ UNCHANGED served
  /\ UNCHANGED <<call, cursor, calls, open, entries, writer, refs, history>>

(* le::core::analyze, outside every lock; what a built-in provider or the  *)
(* validator throws is an internal error.                                  *)
BuiltInReturns(t) ==
  /\ At(t, "builtin")
  /\ \/ Goto(t, "region") /\ UNCHANGED status
     \/ \E s \in {"OUT_OF_MEMORY", "INTERNAL"} : Finish(t, s)
  /\ UNCHANGED <<call, served, cursor, calls, open, entries, locks, refs, history>>

-----------------------------------------------------------------------------
(* ~ProviderRegistry *)

(* Mutant: the module is closed before the destroy callback runs. *)
DestroyNextEntryUnmapped(t) ==
  /\ At(t, "teardown")
  /\ entries[Rt(t)] # <<>>
  /\ cursor' = [cursor EXCEPT ![t] = 1]
  /\ Goto(t, "destroy")
  /\ LET m == Head(entries[Rt(t)]).module
     IN  refs' = IF m = NoModule THEN refs ELSE [refs EXCEPT ![m] = @ - 1]
  /\ UNCHANGED <<call, status, served, calls, open, entries, locks, history>>

(* The vector destroys its entries in either order, library by library. *)
DestroyNextEntry(t) ==
  /\ At(t, "teardown")
  /\ IF entries[Rt(t)] = <<>>
     THEN Finish(t, "OK") /\ UNCHANGED cursor
     ELSE /\ \E i \in {1, Len(entries[Rt(t)])} : cursor' = [cursor EXCEPT ![t] = i]
          /\ Goto(t, "destroy")
          /\ UNCHANGED status
  /\ UNCHANGED <<call, served, calls, open, entries, locks, refs, history>>

(* ~Entry: the destroy callback of an active entry, then close_module. *)
DestroyReturns(t) ==
  /\ At(t, "destroy")
  /\ destroyed' = [destroyed EXCEPT ![Current(t).provider] = @ + 1]
  /\ Goto(t, "close")
  /\ UNCHANGED <<call, status, served, cursor, calls, open, entries, locks, refs,
                 adopted>>

WithoutEntry(s, i) == SubSeq(s, 1, i - 1) \o SubSeq(s, i + 1, Len(s))

CloseEntryModule(t) ==
  /\ At(t, "close")
  /\ refs' = IF Current(t).module = NoModule THEN refs
             ELSE [refs EXCEPT ![Current(t).module] = @ - 1]
  /\ entries' = [entries EXCEPT ![Rt(t)] = WithoutEntry(@, cursor[t])]
  /\ Goto(t, "teardown")
  /\ UNCHANGED <<call, status, served, cursor, calls, open, locks, history>>

-----------------------------------------------------------------------------
(* What a thread does once it is inside a call. *)
Step(t) ==
  \/ OpenModule(t) \/ ResolveEntry(t)
  \/ ValidateDescriptor(t) \/ LockExclusive(t) \/ FindDuplicate(t)
  \/ InsertEntry(t) \/ RejectRegistration(t)
  \/ NextRegion(t) \/ LockShared(t) \/ NextEntry(t) \/ LockCall(t)
  \/ SupportsReturns(t) \/ AnalyzeReturns(t) \/ BuiltInReturns(t)
  \/ DestroyNextEntry(t) \/ DestroyReturns(t) \/ CloseEntryModule(t)
  \/ Return(t)

Next ==
  \E t \in Threads :
    \/ CallRegister(t) \/ CallLoad(t) \/ CallAnalyze(t) \/ CallDestroy(t)
    \/ Step(t)

Spec == Init /\ [][Next]_vars

(* Threads are scheduled and callbacks return; nothing makes the host      *)
(* start a call, and no lock promises more than that a waiter may win it.  *)
FairSpec == Spec /\ \A t \in Threads : WF_vars(Step(t))

-----------------------------------------------------------------------------
(* Type invariant: every variable keeps its shape, and a call ends with    *)
(* one of the statuses the registry's callers know.                        *)
Calls ==
  {NoCall}
    \cup [op : {"register"}, runtime : Runtimes, provider : Static]
    \cup [op : {"load"}, runtime : Runtimes, module : Modules \cup {NoModule}]
    \cup [op : {"analyze"}, runtime : Runtimes, plan : Plans]
    \cup [op : {"destroy"}, runtime : Runtimes]

TypeOK ==
  /\ pc \in [Threads -> Labels]
  /\ call \in [Threads -> Calls]
  /\ status \in [Threads -> {Pending, "OK"} \cup Service!Failures]
  /\ served \in [Threads -> Seq(Descriptors \cup {BuiltIn})]
  /\ cursor \in [Threads -> Nat]
  /\ calls \in [Threads -> 0..MaxCalls]
  /\ open \subseteq Runtimes
  /\ entries \in [Runtimes -> Seq(Entry)]
  /\ writer \in [Runtimes -> Threads \cup {NoThread}]
  /\ readers \in [Runtimes -> SUBSET Threads]
  /\ callLock \in [Runtimes -> [Descriptors -> Threads \cup {NoThread}]]
  /\ refs \in [Modules -> Int]
  /\ adopted \in [Descriptors -> Nat]
  /\ destroyed \in [Descriptors -> Nat]

(* Where a thread is decides which locks it holds, what kind of call it    *)
(* makes and how far into entries_ it may look: every path through the     *)
(* registry, failing ones included, takes and releases its locks in step.  *)
RegisterLabels == {"validate", "wlock", "duplicate", "insert", "reject"}
LoadLabels     == {"open", "entry"} \cup RegisterLabels
WriterLabels   == {"duplicate", "insert"}
EntryLabels    == {"calllock", "supports", "analyze"}
ReaderLabels   == {"route"} \cup EntryLabels
AnalyzeLabels  == {"region", "rlock", "builtin"} \cup ReaderLabels
DestroyLabels  == {"teardown", "destroy", "close"}

CallOfLabel ==
  \A t \in Threads :
    /\ At(t, "idle") <=> call[t] = NoCall
    /\ pc[t] \in LoadLabels =>
         \/ call[t].op = "load" /\ (At(t, "open") \/ call[t].module # NoModule)
         \/ call[t].op = "register" /\ pc[t] \in RegisterLabels
    /\ pc[t] \in AnalyzeLabels => call[t].op = "analyze"
    /\ pc[t] \in DestroyLabels => call[t].op = "destroy"
    /\ call[t].op = "destroy" => pc[t] \in DestroyLabels \cup {"done"}

CursorInRange ==
  \A t \in Threads :
    /\ At(t, "route") => cursor[t] \in 1..(Len(entries[Rt(t)]) + 1)
    /\ pc[t] \in EntryLabels \cup {"destroy", "close"} =>
         cursor[t] \in DOMAIN entries[Rt(t)]

WriterMatches ==
  \A t \in Threads, r \in Runtimes :
    writer[r] = t <=> pc[t] \in WriterLabels /\ Rt(t) = r

ReadersMatch ==
  \A t \in Threads, r \in Runtimes :
    t \in readers[r] <=> pc[t] \in ReaderLabels /\ Rt(t) = r

UnsafeTakesLock ==
  \A t \in Threads : At(t, "calllock") => Current(t).provider \notin ThreadSafe

CallLocksMatch ==
  \A t \in Threads, r \in Runtimes, d \in Descriptors :
    callLock[r][d] = t <=>
      /\ pc[t] \in {"supports", "analyze"} /\ Rt(t) = r
      /\ Current(t).provider = d
      /\ d \notin ThreadSafe

WriterExcludesReaders ==
  \A r \in Runtimes : writer[r] # NoThread => readers[r] = {}

(* A runtime being destroyed is used by the destroying thread alone. *)
DestroyerIsAlone ==
  \A t \in Threads :
    /\ ~At(t, "idle") /\ call[t].op # "destroy" => Rt(t) \in open
    /\ call[t].op = "destroy" =>
         /\ Rt(t) \notin open
         /\ \A u \in Threads \ {t} : ~At(u, "idle") => Rt(u) # Rt(t)

LockDiscipline ==
  /\ CallOfLabel
  /\ CursorInRange
  /\ WriterMatches
  /\ ReadersMatch
  /\ UnsafeTakesLock
  /\ CallLocksMatch
  /\ WriterExcludesReaders
  /\ DestroyerIsAlone

(* Code of a provider runs in thread t of a runtime: one of its callbacks. *)
CallbackLabels == {"supports", "analyze", "destroy"}
InCallback(t, r, d) ==
  /\ pc[t] \in CallbackLabels
  /\ Rt(t) = r
  /\ Current(t).provider = d

(* Two threads of one runtime are inside one provider's callbacks only if  *)
(* it declares itself thread-safe, and never while it is being destroyed.  *)
(* The call_mutex taken at provider_registry.cpp:306 has to span supports, *)
(* the branch that skips the entry, and analyze.                           *)
CallbackExclusion ==
  \A t, u \in Threads, r \in Runtimes, d \in Descriptors :
    t # u /\ InCallback(t, r, d) /\ InCallback(u, r, d) =>
      d \in ThreadSafe /\ ~At(t, "destroy") /\ ~At(u, "destroy")

(* No two providers of a runtime have the same name, however concurrent    *)
(* registrations and loads interleave their duplicate check and insertion. *)
UniqueNames ==
  \A r \in Runtimes : \A i, j \in DOMAIN entries[r] :
    NameOf[entries[r][i].provider] = NameOf[entries[r][j].provider] => i = j

(* Loads that have opened module m and neither handed it over nor closed it *)
LoadingLabels == {"entry", "validate", "wlock", "duplicate", "insert", "reject"}
Loading(m) == {t \in Threads : pc[t] \in LoadingLabels /\ Origin(t) = m}

(* Runtimes with an entry that keeps module m loaded *)
Keeping(m) == {r \in Runtimes : \E i \in DOMAIN entries[r] : entries[r][i].module = m}

(* A module is referenced once by each load in flight and once by each     *)
(* runtime that registered it: the catch in load and the entry's           *)
(* destructor together close every successful dlopen exactly once.         *)
ModuleReferences ==
  \A m \in Modules : refs[m] = Cardinality(Loading(m)) + Cardinality(Keeping(m))

(* The module whose code or descriptor thread t is using *)
InUse(t) ==
  IF pc[t] \in LoadingLabels THEN Origin(t)
  ELSE IF pc[t] \in CallbackLabels THEN Current(t).module
  ELSE NoModule

(* No thread runs an entry point or a callback, or reads a descriptor, of  *)
(* a module that has been unloaded, also when another runtime or a failed  *)
(* second load closes its own reference meanwhile.                         *)
CodeStaysMapped == \A t \in Threads : InUse(t) # NoModule => refs[InUse(t)] > 0

(* Runtimes that still owe descriptor d its destroy callback *)
Owing(d) ==
  {r \in Runtimes : \E i \in DOMAIN entries[r] :
     /\ entries[r][i].provider = d
     /\ ~\E t \in Threads : At(t, "close") /\ Rt(t) = r /\ cursor[t] = i}

(* A context is destroyed exactly once per successful registration: never  *)
(* for a registration that was rejected, and never twice, whatever the     *)
(* order in which a destroyed runtime drops its entries.                   *)
ContextLifecycle ==
  \A d \in Descriptors : adopted[d] = destroyed[d] + Cardinality(Owing(d))

(* The entries a routing thread walks do not change under it: a            *)
(* registration waits for every analysis that is inside the registry.      *)
RoutingSeesFixedEntries ==
  [][\A r \in Runtimes : readers[r] # {} => entries'[r] = entries[r]]_vars

(* Within one le_analyze_regions call, once an external provider has       *)
(* served a language it serves that language's later regions too, although *)
(* every region takes the lock anew and providers register in between.     *)
StickyRouting ==
  \A t \in Threads : \A i, j \in DOMAIN served[t] :
    /\ i < j
    /\ call[t].plan[i] = call[t].plan[j]
    /\ served[t][i] # BuiltIn
    => served[t][j] = served[t][i]

(* The registry implements the atomic service: registrations and each      *)
(* region's routing take effect in one step, first claimant first.         *)
ImplementsService == Service!Spec

(* Every call returns, as long as callbacks do: no path keeps a lock and   *)
(* no cycle of waiting forms between mutex_ and the call mutexes.          *)
EveryCallReturns == \A t \in Threads : ~At(t, "idle") ~> At(t, "idle")

(* docs/c-api.md:71-73 says that callbacks run concurrently only when the  *)
(* descriptor declares it and that the runtime serializes other contexts.  *)
ContextsSerialized ==
  \A t, u \in Threads :
    /\ t # u
    /\ pc[t] \in {"supports", "analyze"} /\ pc[u] \in {"supports", "analyze"}
    /\ ContextOf[Current(t).provider] = ContextOf[Current(u).provider]
    => {Current(t).provider, Current(u).provider} \subseteq ThreadSafe
=============================================================================
