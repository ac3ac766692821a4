---------------------------- MODULE ProviderSink ----------------------------
(***************************************************************************)
(* One analyze callback of an external provider: the events it sends to    *)
(* the borrowed le_analysis_sink_v1_t, its return, and the decision of     *)
(* ProviderRegistry::analyze (src/runtime/plugin/provider_registry.cpp)    *)
(* whether the result is served.  The provider is free to send any event,  *)
(* to ignore what the sink answers and to return any status.               *)
(***************************************************************************)
EXTENDS AnalysisIR

CONSTANTS
  Text,           \* the source text
  NodeEvents,     \* [id, kind, span] arguments of add_node
  EventIds,       \* node ids used by the other events
  Features,       \* [id, value] arguments of add_feature
  RegionEvents,   \* regions passed to add_language_region
  NotFinite,      \* a NaN or infinite value
  MaxEvents       \* bound: events in one callback

ASSUME SinkAssumption ==
  /\ IsText(Text) /\ MaxEvents \in Nat
  /\ \A e \in NodeEvents \cup RegionEvents : e.span \in [begin : Nat, end : Nat]
  /\ \A r \in RegionEvents : r = Region(r.span, r.language, r.confidence)
  /\ \A f \in Features : f.value = NotFinite \/ f.value \in Int

VARIABLES
  analysis,   \* Builder::analysis
  sink,       \* Builder::status
  issued,     \* events the provider has sent, history
  outcome     \* "RUNNING", then the status of ProviderRegistry::analyze

vars == <<analysis, sink, issued, outcome>>

Kinds == {"document", "block", "paragraph", "sentence", "unit", "subunit"}

Init ==
  /\ analysis = EmptyAnalysis
  /\ sink = "OK"
  /\ issued = 0
  /\ outcome = "RUNNING"

-----------------------------------------------------------------------------
(* Mutant: a failed event does not stick; the next one starts afresh. *)
BuildEventForgiving(valid, a) ==
  /\ outcome = "RUNNING"
  /\ issued < MaxEvents
  /\ issued' = issued + 1
  /\ IF valid THEN analysis' = a ELSE UNCHANGED analysis
  /\ UNCHANGED <<sink, outcome>>

(* build_event: once failed, the builder stays failed and ignores events.  *)
(* An invalid event fails it, and so does an allocation of a valid one.    *)
BuildEvent(valid, a) ==
  /\ outcome = "RUNNING"
  /\ issued < MaxEvents
  /\ issued' = issued + 1
  /\ \/ /\ sink # "OK"
        /\ UNCHANGED <<analysis, sink>>
     \/ /\ sink = "OK" /\ valid
        /\ analysis' = a
        /\ UNCHANGED sink
     \/ /\ sink = "OK"
        /\ sink' = IF valid THEN "OUT_OF_MEMORY" ELSE "PLUGIN_FAILURE"
        /\ UNCHANGED analysis
  /\ UNCHANGED outcome

Known(i) == i \in Ids(analysis)

AddNode(e) ==
  BuildEvent(
    /\ e.id = Len(analysis.nodes)
    /\ e.span.begin <= e.span.end
    /\ e.kind \in Kinds,
    [analysis EXCEPT !.nodes = Append(@, Node(e.id, e.kind, e.span))])

AddChild(p, c) ==
  BuildEvent(
    Known(p) /\ Known(c),
    [analysis EXCEPT !.nodes[p + 1].children = Append(@, c)])

AddFeature(n, f) ==
  BuildEvent(
    Known(n) /\ f.value # NotFinite,
    [analysis EXCEPT !.nodes[n + 1].features = Append(@, f)])

(* The empty tag stands for every tag that valid_language rejects. *)
AddLanguageRegion(r) ==
  BuildEvent(
    r.language # "" /\ r.confidence # NotFinite /\ r.span.begin <= r.span.end,
    [analysis EXCEPT !.regions = Append(@, r)])

-----------------------------------------------------------------------------
Failures == {"OUT_OF_MEMORY", "PLUGIN_FAILURE"}

(* An exception of the callback decides before the builder's status does. *)
CallbackThrows ==
  /\ outcome = "RUNNING"
  /\ outcome' \in Failures
  /\ UNCHANGED <<analysis, sink, issued>>

(* What a provider may return: any status of the enumeration *)
Returned == {"OK", "OUT_OF_MEMORY", "PLUGIN_FAILURE", "INVALID_ARGUMENT"}

(* The sink's status, then the provider's, then the validator, which       *)
(* allocates its parent counts and its worklist, decide.                   *)
CallbackReturns(s) ==
  /\ outcome = "RUNNING"
  /\ \/ /\ sink # "OK"
        /\ outcome' = sink
     \/ /\ sink = "OK" /\ s # "OK"
        /\ outcome' = IF s = "OUT_OF_MEMORY" THEN s ELSE "PLUGIN_FAILURE"
     \/ /\ sink = "OK" /\ s = "OK"
        /\ outcome' \in {"OUT_OF_MEMORY",
             IF ValidAnalysis(Text, analysis) THEN "OK" ELSE "PLUGIN_FAILURE"}
  /\ UNCHANGED <<analysis, sink, issued>>

Next ==
  \/ \E e \in NodeEvents : AddNode(e)
  \/ \E p, c \in EventIds : AddChild(p, c)
  \/ \E n \in EventIds, f \in Features : AddFeature(n, f)
  \/ \E r \in RegionEvents : AddLanguageRegion(r)
  \/ CallbackThrows
  \/ \E s \in Returned : CallbackReturns(s)

Spec == Init /\ [][Next]_vars

-----------------------------------------------------------------------------
(* The nodes that are above node m, and m: those that every set has which  *)
(* has m and, with a node, the nodes whose child that is                   *)
ClosedUp(S) ==
  \A p \in Ids(analysis) : \A c \in Range(NodeAt(analysis, p).children) : c \in S => p \in S

Above(m) ==
  {n \in Ids(analysis) : \A S \in SUBSET Ids(analysis) : m \in S /\ ClosedUp(S) => n \in S}

Total(q) ==
  LET Sum[i \in 0..Len(q)] == IF i = 0 THEN 0 ELSE Sum[i - 1] + q[i]
  IN  Sum[Len(q)]

ChildEntries == Total([i \in DOMAIN analysis.nodes |-> Len(analysis.nodes[i].children)])

FeatureEntries == Total([i \in DOMAIN analysis.nodes |-> Len(analysis.nodes[i].features)])

(* A served analysis is a tree in the sense of graph theory: every node is *)
(* connected to node 0 by one edge fewer than there are nodes.  The        *)
(* validator never looks for paths or cycles as such; it counts parents    *)
(* and follows children.                                                   *)
ServedIsTree ==
  outcome = "OK" =>
    /\ \A n \in Ids(analysis) : 0 \in Above(n)
    /\ ChildEntries = Len(analysis.nodes) - 1

(* In a served analysis any two nodes, however far apart, are either       *)
(* nested as their ancestry says or disjoint: the validator only compares  *)
(* a node with its parent and with its elder sibling.                      *)
ServedIsLaminar ==
  outcome = "OK" =>
    \A m, n \in Ids(analysis) :
      \/ n \in Above(m) /\ Contains(NodeAt(analysis, n).span, NodeAt(analysis, m).span)
      \/ m \in Above(n) /\ Contains(NodeAt(analysis, m).span, NodeAt(analysis, n).span)
      \/ Disjoint(NodeAt(analysis, m).span, NodeAt(analysis, n).span)

(* Nothing a provider emitted is missing from what is served, also when    *)
(* the provider ignores what the sink answered and returns LE_OK.          *)
ServedIsComplete ==
  outcome = "OK" =>
    issued = Len(analysis.nodes) + ChildEntries + FeatureEntries + Len(analysis.regions)
=============================================================================
