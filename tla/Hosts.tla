------------------------------- MODULE Hosts -------------------------------
(***************************************************************************)
(* The programs that use the C ABI, one per behaviour: a C program, the    *)
(* command line tool, or a host of the Python or the Swift binding.        *)
(***************************************************************************)
EXTENDS CProgram, CommandLine, Bindings

(* What loads has a model in it. *)
ASSUME LoadsAssumption ==
  \A data \in Artifacts \cup FileArtifacts
                \cup {job.data : job \in {j \in Jobs : j.operation = "load"}} :
    data # Null /\ data.verdict = "OK" => data.model # Null

VARIABLE program   \* "c", "le-cli" or "binding"

hostVars == <<program, apiVars, lineVars, bindingVars>>

Init ==
  /\ program \in {"c", "le-cli", "binding"}
  /\ ApiInit
  /\ LineInit
  /\ program # "le-cli" => line = <<>>   \* no command line of its own
  /\ BindingInit

Next ==
  /\ UNCHANGED program
  /\ \/ program = "c" /\ CNext(Me) /\ UNCHANGED <<lineVars, bindingVars>>
     \/ program = "le-cli" /\ LineNext /\ UNCHANGED bindingVars
     \/ /\ program = "binding"
        /\ \E t \in Threads : BindingNext(t)
        /\ UNCHANGED lineVars

Spec == Init /\ [][Next]_hostVars

(* docs/c-api.md "Error handling", le/api.h:189 and the bindings' pages:   *)
(* whoever fails finds the diagnostic of its own failure, however late it  *)
(* looks and whatever other threads do meanwhile.                          *)
ErrorsAreTheirOwn == DiagnosticIsOfTheFailure /\ RaisedErrorIsOfItsCall
=============================================================================
