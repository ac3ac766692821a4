------------------------------ MODULE Bindings ------------------------------
(***************************************************************************)
(* The Runtime and Model classes of the Python and Swift bindings          *)
(* (src/bindings/python/src/lae/runtime.py, src/bindings/swift/Sources/    *)
(* LAE/LAE.swift), which are alike up to the type of some errors.  Threads *)
(* share one Runtime and one Model: the attribute of each is the variable  *)
(* of its kind, and an operation's local handle is its thread's variable.  *)
(* Native calls run without Python's lock, so a thread may be overtaken    *)
(* between any two steps of an operation.                                  *)
(***************************************************************************)
EXTENDS NativeApi

CONSTANTS
  Jobs   \* operations: [operation |-> "load", data] (see ModelLoad) or
         \* [operation |-> "process", text, mode, regions, options, with_model]

(* An operation under way: a job, its runtime's handle and how far it is  *)
Operations == [step : {"call", "take", "fail"}, job : Jobs, runtime : Nat]

ASSUME OperationsAssumption == Null \notin Operations

VARIABLES
  doing,    \* each thread's job, or Null between operations
  raised,   \* the error its last operation raised, or Null
  returned  \* the emphasis its last operation returned, or Null

bindingVars == <<doing, raised, returned>>

BindingInit ==
  /\ doing = [t \in Threads |-> Null]
  /\ raised = [t \in Threads |-> Null]
  /\ returned = [t \in Threads |-> Null]

Idle(t) == doing[t] = Null

(* The operation of t ends with an error of the call `id', or of none (0). *)
EndsWithError(t, id, detail) ==
  /\ doing' = [doing EXCEPT ![t] = Null]
  /\ raised' = [raised EXCEPT ![t] = [id |-> id, detail |-> detail]]
  /\ UNCHANGED returned

(* It ends well; what it returns is `value'. *)
EndsWell(t, value) ==
  /\ doing' = [doing EXCEPT ![t] = Null]
  /\ returned' = [returned EXCEPT ![t] = value]
  /\ UNCHANGED raised

Forget(t) ==
  /\ raised' = [raised EXCEPT ![t] = Null]
  /\ returned' = [returned EXCEPT ![t] = Null]

(* Runtime(): a failure has no runtime to read the diagnostic from.        *)
NewRuntime(t) ==
  /\ Idle(t) /\ slot["runtime"] = Null
  /\ Return(t, "runtime", "runtime", RuntimeCreate(Null))
  /\ raised' = [raised EXCEPT ![t] = IF last'[t].status = "OK" THEN Null
                                     ELSE [id |-> calls', detail |-> Null]]
  /\ returned' = [returned EXCEPT ![t] = Null]
  /\ UNCHANGED doing

Refused(job) ==
  \/ slot["runtime"] = Null
  \/ job.operation = "process" /\ job.mode = "regions" /\ job.options.language # ""

(* load_model, process and process_regions up to the model's _open_handle: *)
(* the runtime's handle is taken, and a closed runtime or a language next  *)
(* to regions is refused.                                                  *)
Begin(t, job) ==
  /\ Idle(t)
  /\ IF Refused(job)
     THEN /\ raised' = [raised EXCEPT ![t] = [id |-> 0, detail |-> "refused"]]
          /\ returned' = [returned EXCEPT ![t] = Null]
          /\ UNCHANGED doing
     ELSE /\ Forget(t)
          /\ doing' = [doing EXCEPT ![t] =
                         [step |-> "call", job |-> job, runtime |-> slot["runtime"]]]
  /\ UNCHANGED apiVars

Outcomes(runtime, job) ==
  IF job.operation = "load" THEN ModelLoad(runtime, job.data)
  ELSE Process(runtime, IF job.with_model THEN Value(slot["model"]) ELSE Null,
               job.text, job.mode, job.regions, job.options)

(* The native call, unless the Model it needs is closed *)
Native(t) ==
  /\ ~Idle(t) /\ doing[t].step = "call"
  /\ LET job == doing[t].job IN
     IF job.operation = "process" /\ job.with_model /\ slot["model"] = Null
     THEN EndsWithError(t, 0, "refused") /\ UNCHANGED apiVars
     ELSE /\ Return(t, t, IF job.operation = "load" THEN "model" ELSE "result",
                    Outcomes(doing[t].runtime, job))
          /\ doing' = [doing EXCEPT ![t].step = IF last'[t].status = "OK" THEN "take" ELSE "fail"]
          /\ UNCHANGED <<raised, returned>>

(* _raise_status, error: the diagnostic is read after the call has failed. *)
Raise(t) ==
  /\ ~Idle(t) /\ doing[t].step = "fail"
  /\ EndsWithError(t, last[t].id, diagnostic[t])
  /\ UNCHANGED apiVars

(* The destruction of an object, and the end of the variable s for it      *)
Dispose(s, slots) ==
  /\ objects' = Destroyed({slot[s]})
  /\ slot' = slots
  /\ UNCHANGED <<diagnostic, calls, last, usable>>

(* _copy_result: the result is destroyed, also if copying it raises.       *)
CopyResult(t) ==
  /\ ~Idle(t) /\ doing[t].step = "take" /\ doing[t].job.operation = "process"
  /\ \/ EndsWell(t, Value(slot[t]).plan)
     \/ EndsWithError(t, 0, "copy")
  /\ Dispose(t, [slot EXCEPT ![t] = Null])

(* Another thread is inside an operation with the shared object. *)
InUse(t, kind) ==
  \E u \in Threads \ {t} : ~Idle(u) /\
     (kind = "runtime" \/ (doing[u].job.operation = "process" /\ doing[u].job.with_model))

(* The new Model takes the place of the shared one, which nobody refers to *)
(* any more: __del__ and deinit close it.                                  *)
WrapModel(t) ==
  /\ ~Idle(t) /\ doing[t].step = "take" /\ doing[t].job.operation = "load"
  /\ ~InUse(t, "model")
  /\ EndsWell(t, Null)
  /\ Dispose("model", [slot EXCEPT !["model"] = slot[t], ![t] = Null])

(* close(), any number of times, while no operation runs                   *)
Close(t, kind) ==
  /\ Idle(t) /\ ~InUse(t, kind)
  /\ Dispose(kind, [slot EXCEPT ![kind] = Null])
  /\ UNCHANGED bindingVars

BindingNext(t) ==
  \/ NewRuntime(t) \/ Native(t) \/ Raise(t) \/ CopyResult(t) \/ WrapModel(t)
  \/ \E job \in Jobs : Begin(t, job)
  \/ \E kind \in {"runtime", "model"} : Close(t, kind)

-----------------------------------------------------------------------------
(* docs/python-binding.md "Errors and concurrency", docs/swift-binding.md  *)
(* :90-91: the detail of an error a thread raises is the diagnostic of the *)
(* very call that failed, though others fail before it is read.            *)
RaisedErrorIsOfItsCall ==
  \A t \in Threads : raised[t] # Null /\ raised[t].id # 0 =>
    raised[t].detail \in {Null, raised[t].id}
=============================================================================
