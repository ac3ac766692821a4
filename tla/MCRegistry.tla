----------------------------- MODULE MCRegistry -----------------------------
(* A small world of providers for ProviderRegistry: two static ones, of     *)
(* which the tagger is not thread-safe, one that fails the v1 checks, and a *)
(* loadable module whose provider has the lexicon's name.                   *)
EXTENDS ProviderRegistry

CONSTANTS t1, t2, r1, r2

MCThreads2 == {t1, t2}
MCOneRuntime == {r1}
MCTwoRuntimes == {r1, r2}

MCLanguages == {"en", "ja"}
MCModules == {"lexicon.so"}
MCEntryPoint == [m \in MCModules |-> "loaded_lexicon"]

MCDescriptors == {"lexicon", "tagger", "obsolete", "loaded_lexicon"}
MCStatic == {"lexicon", "tagger", "obsolete"}
MCOneStatic == {"tagger"}
MCNoStatic == {}
MCThreadSafe == {"lexicon"}
MCIncompatible == {"obsolete"}
MCNameOf == [d \in MCDescriptors |-> IF d = "loaded_lexicon" THEN "lexicon" ELSE d]
MCContextOf == [d \in MCDescriptors |-> d]
MCClaims == [d \in MCDescriptors |-> IF d = "lexicon" THEN {"ja"} ELSE {"en", "ja"}]

(* A call back to a language another region lay between: what served its    *)
(* first region has to serve it again.                                      *)
MCPlans == {<<"ja", "en", "ja">>}

(* Less variety, for the runs with more threads or runtimes *)
MCOnePlan == {<<"ja">>}
=============================================================================
