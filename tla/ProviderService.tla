--------------------------- MODULE ProviderService ---------------------------
(***************************************************************************)
(* What a runtime promises about external language providers, without      *)
(* locks, modules or callbacks: registration is atomic and names stay      *)
(* unique, and each region of an analysis is served in one atomic step by  *)
(* the earliest registered provider that claims its language, or by the    *)
(* built-in providers when none does (docs/provider-plugin-abi.md,         *)
(* "Sink protocol").  ProviderRegistry implements this specification.      *)
(***************************************************************************)
EXTENDS Naturals, Sequences

CONSTANTS
  Threads,       \* host threads
  Runtimes,      \* le_runtime handles
  Descriptors,   \* le_provider_v1_t descriptors of static and loaded providers
  Modules,       \* loadable provider modules
  Languages,     \* language tags a caller passes
  NameOf,        \* [Descriptors -> names]: le_provider_v1_t.name
  Claims,        \* [Descriptors -> SUBSET Languages]: what supports() accepts
  EntryPoint,    \* [Modules -> Descriptors]: what le_provider_entry_v1 returns
  NoModule,      \* an empty or otherwise unusable module path
  BuiltIn,       \* stands for LanguageRouter in an answer
  Plans          \* language sequences: one per region of an analysis call

VARIABLES
  open,          \* runtimes that have not been destroyed
  registered,    \* [Runtimes -> Seq(Descriptors)], in registration order
  call,          \* [Threads -> the call it is making, or NoCall]
  served,        \* [Threads -> Seq(Descriptors \cup {BuiltIn})], per region
  status         \* [Threads -> the call's status, or Pending]

vars == <<open, registered, call, served, status>>

Pending == "PENDING"
Failures == {"INVALID_ARGUMENT", "UNSUPPORTED", "PLUGIN_FAILURE",
             "PLUGIN_INCOMPATIBLE", "OUT_OF_MEMORY", "INTERNAL"}

NoCall == [op |-> "none"]

RegisterCall(r, d) == [op |-> "register", runtime |-> r, provider |-> d]
LoadCall(r, m)     == [op |-> "load", runtime |-> r, module |-> m]
AnalyzeCall(r, p)  == [op |-> "analyze", runtime |-> r, plan |-> p]
DestroyCall(r)     == [op |-> "destroy", runtime |-> r]

(***************************************************************************)
(* Routing: the first registered provider that claims the language.        *)
(***************************************************************************)
Claimants(ps, l) == {i \in DOMAIN ps : l \in Claims[ps[i]]}

FirstClaim(ps, l) ==
  IF Claimants(ps, l) = {} THEN BuiltIn
  ELSE ps[CHOOSE i \in Claimants(ps, l) : \A j \in Claimants(ps, l) : i <= j]

NameTaken(r, d) ==
  \E i \in DOMAIN registered[r] : NameOf[registered[r][i]] = NameOf[d]

Running(t) == call[t] # NoCall /\ status[t] = Pending

(* The descriptor a register or load call brings. *)
Candidate(t) ==
  IF call[t].op = "register" THEN call[t].provider ELSE EntryPoint[call[t].module]

-----------------------------------------------------------------------------
Init ==
  /\ open = Runtimes
  /\ registered = [r \in Runtimes |-> <<>>]
  /\ call = [t \in Threads |-> NoCall]
  /\ served = [t \in Threads |-> <<>>]
  /\ status = [t \in Threads |-> Pending]

Start(t, c) ==
  /\ call[t] = NoCall
  /\ call' = [call EXCEPT ![t] = c]

(* The host starts a call on a runtime it has not destroyed. *)
Invoke(t) ==
  /\ \E r \in open :
       \/ \E d \in Descriptors : Start(t, RegisterCall(r, d))
       \/ \E m \in Modules \cup {NoModule} : Start(t, LoadCall(r, m))
       \/ \E p \in Plans : Start(t, AnalyzeCall(r, p))
  /\ UNCHANGED <<open, registered, served, status>>

(* le_runtime_destroy: nobody else is inside the runtime, its providers go. *)
Destroy(t) ==
  /\ \E r \in open :
       /\ \A u \in Threads : call[u] # NoCall => call[u].runtime # r
       /\ Start(t, DestroyCall(r))
       /\ open' = open \ {r}
       /\ registered' = [registered EXCEPT ![r] = <<>>]
  /\ UNCHANGED <<served, status>>

(* A registration succeeds in one step, under a name not in use. *)
Adopt(t) ==
  /\ Running(t) /\ call[t].op \in {"register", "load"}
  /\ call[t].op = "load" => call[t].module # NoModule
  /\ ~NameTaken(call[t].runtime, Candidate(t))
  /\ registered' = [registered EXCEPT ![call[t].runtime] = Append(@, Candidate(t))]
  /\ status' = [status EXCEPT ![t] = "OK"]
  /\ UNCHANGED <<open, call, served>>

(* One region is served by the first claimant of its language. *)
Serve(t) ==
  /\ Running(t) /\ call[t].op = "analyze"
  /\ Len(served[t]) < Len(call[t].plan)
  /\ served' = [served EXCEPT ![t] = Append(@,
                  FirstClaim(registered[call[t].runtime], call[t].plan[Len(@) + 1]))]
  /\ UNCHANGED <<open, registered, call, status>>

(* An analysis succeeds only when every region has been served. *)
Complete(t) ==
  /\ Running(t)
  /\ \/ call[t].op = "analyze" /\ Len(served[t]) = Len(call[t].plan)
     \/ call[t].op = "destroy"
  /\ status' = [status EXCEPT ![t] = "OK"]
  /\ UNCHANGED <<open, registered, call, served>>

(* A call fails without an effect.  A static registration is refused as    *)
(* incompatible, an analysis never is.                                     *)
Fail(t) ==
  /\ Running(t) /\ call[t].op # "destroy"
  /\ \E s \in Failures :
       /\ s \in {"INVALID_ARGUMENT", "UNSUPPORTED"} => call[t].op = "load"
       /\ s = "PLUGIN_FAILURE" => call[t].op \in {"load", "analyze"}
       /\ s = "INTERNAL" => call[t].op = "analyze"
       /\ s = "PLUGIN_INCOMPATIBLE" => call[t].op \in {"register", "load"}
       /\ status' = [status EXCEPT ![t] = s]
  /\ UNCHANGED <<open, registered, call, served>>

Return(t) ==
  /\ call[t] # NoCall /\ status[t] # Pending
  /\ call' = [call EXCEPT ![t] = NoCall]
  /\ served' = [served EXCEPT ![t] = <<>>]
  /\ status' = [status EXCEPT ![t] = Pending]
  /\ UNCHANGED <<open, registered>>

Next ==
  \E t \in Threads :
    \/ Invoke(t) \/ Destroy(t) \/ Adopt(t) \/ Serve(t)
    \/ Complete(t) \/ Fail(t) \/ Return(t)

Spec == Init /\ [][Next]_vars
=============================================================================
