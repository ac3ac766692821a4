---------------------------- MODULE ReadingModels ----------------------------
(***************************************************************************)
(* From an analysis to reading signals (src/runtime/core/reading.cpp and   *)
(* generate_model_signals in src/runtime/abi/api.cpp).  Saliences are      *)
(* integers in units of 1/Scale; of a signal's three channels only the     *)
(* fixation salience is kept, the one the presentation stage reads.  A     *)
(* float that is multiplied and rounded is the fraction it stands for.     *)
(***************************************************************************)
EXTENDS AnalysisIR, Integers

CONSTANT Scale   \* salience 1.0; a multiple of 2 * (n - 1) for a prefix of n

ASSUME ScaleAssumption == Scale \in Nat \ {0}

Least(m, n) == IF m <= n THEN m ELSE n
Greatest(m, n) == IF m >= n THEN m ELSE n
Clamp(x, low, high) == Least(Greatest(x, low), high)

(* std::ceil(n * f), for n in Nat and f the value of a float *)
CeilTimes(n, f) == (n * f.num + f.den - 1) \div f.den

Signal(span, salience) == [span |-> span, salience |-> salience]

GraphemeCount(text, s) == Cardinality(GraphemesIn(text, s))

NthGrapheme(text, s, k) ==
  Span(IF k = 1 THEN s.begin ELSE GraphemeEnd(text, s, k - 1), GraphemeEnd(text, s, k))

FeatureValue(n, id) ==
  IF \E k \in DOMAIN n.features : n.features[k].id = id
  THEN (CHOOSE f \in Range(n.features) : f.id = id).value
  ELSE 0

-----------------------------------------------------------------------------
(* PrefixReadingModel: [strategy |-> ..., graphemes |-> Nat] or            *)
(* [strategy |-> ..., proportion |-> fraction]                             *)

PrefixCount(config, n) ==
  IF config.strategy = "fixed" THEN Least(config.graphemes, n)
  ELSE IF config.proportion.num = 0 THEN 0
  ELSE Clamp(CeilTimes(n, config.proportion), 1, n)

(* One signal per grapheme of the prefix, from 1.0 down to 0.5 *)
PrefixSignals(text, config, node) ==
  LET n     == GraphemeCount(text, node.span)
      count == IF node.kind # "unit" \/ n = 0 THEN 0 ELSE PrefixCount(config, n)
  IN  [k \in 1..count |->
         Signal(NthGrapheme(text, node.span, k),
                IF count = 1 THEN Scale ELSE Scale - ((k - 1) * Scale) \div (2 * (count - 1)))]

(* LexicalCoreReadingModel *)
LexicalCoreSignals(node) ==
  IF node.kind # "document" /\ FeatureValue(node, "lexical_core") > 0
  THEN <<Signal(node.span, Scale)>>
  ELSE <<>>

-----------------------------------------------------------------------------
(* The learned models; a predictor is [bias |-> Int, weights |-> features  *)
(* to Int], in units of 1/Scale.                                           *)

Predict(node, p) ==
  SumFunction([f \in DOMAIN p.weights |-> p.weights[f] * FeatureValue(node, f)]) + p.bias

(* Children that are lexical cores smaller than their unit, and big enough *)
StrictCores(text, a, unit, minimum) ==
  {k \in DOMAIN unit.children : LET c == NodeAt(a, unit.children[k]) IN
     /\ c.kind = "subunit"
     /\ FeatureValue(c, "lexical_core") > 0
     /\ c.span # unit.span
     /\ GraphemeCount(text, c.span) >= minimum}

(* Mutant: the partial prefix may be the whole unit. *)
SegmentalSpanWhole(text, a, unit, anchor, minimum) ==
  LET cores == StrictCores(text, a, unit, minimum)
      n     == GraphemeCount(text, unit.span)
      count == CeilTimes(n, [num |-> Clamp(anchor, 0, Scale), den |-> Scale])
  IN  IF cores # {}
      THEN NodeAt(a, unit.children[CHOOSE k \in cores : \A j \in cores : k <= j]).span
      ELSE IF n = 0 THEN unit.span
      ELSE Span(unit.span.begin,
                GraphemeEnd(text, unit.span, Clamp(Greatest(count, minimum), 1, n)))

(* The first strict core, else a prefix up to the predicted anchor, of at  *)
(* least `minimum' graphemes and short of the whole unit if it can be.     *)
SegmentalSpan(text, a, unit, anchor, minimum) ==
  LET cores == StrictCores(text, a, unit, minimum)
      n     == GraphemeCount(text, unit.span)
      count == CeilTimes(n, [num |-> Clamp(anchor, 0, Scale), den |-> Scale])
  IN  IF cores # {}
      THEN NodeAt(a, unit.children[CHOOSE k \in cores : \A j \in cores : k <= j]).span
      ELSE IF n = 0 THEN unit.span
      ELSE Span(unit.span.begin,
                GraphemeEnd(text, unit.span,
                  Clamp(Greatest(count, minimum), 1, IF n > minimum THEN n - 1 ELSE n)))

(* Mutant: a predicted salience is not clamped from above. *)
SalienceSignalsUnclamped(text, a, m, node) ==
  LET salience == Greatest(Predict(node, m.salience), 0) IN
  IF node.kind # "unit" \/ salience = 0 THEN <<>>
  ELSE <<Signal(IF m.kind = "linear_salience" THEN node.span
                ELSE SegmentalSpan(text, a, node, Predict(node, m.anchor), m.minimum),
                salience)>>

(* The loop body of the linear and segmental models *)
SalienceSignals(text, a, m, node) ==
  LET salience == Clamp(Predict(node, m.salience), 0, Scale) IN
  IF node.kind # "unit" \/ salience = 0 THEN <<>>
  ELSE <<Signal(IF m.kind = "linear_salience" THEN node.span
                ELSE SegmentalSpan(text, a, node, Predict(node, m.anchor), m.minimum),
                salience)>>

(* The models there are: le::model::load checks an artifact's numbers, and *)
(* that its minimum of graphemes is not zero.                              *)
IsPrefix(config) ==
  \/ config.strategy = "fixed" /\ config.graphemes \in Nat
  \/ /\ config.strategy = "proportional"
     /\ config.proportion.num \in Nat /\ config.proportion.den \in Nat \ {0}

IsPredictor(p) ==
  /\ p.bias \in Int
  /\ IsFiniteSet(DOMAIN p.weights)
  /\ \A f \in DOMAIN p.weights : p.weights[f] \in Int

IsModel(m) ==
  \/ m.kind = "prefix" /\ IsPrefix(m.prefix)
  \/ m.kind = "lexical_core"
  \/ m.kind = "linear_salience" /\ IsPredictor(m.salience)
  \/ /\ m.kind = "segmental_salience"
     /\ IsPredictor(m.salience) /\ IsPredictor(m.anchor)
     /\ m.minimum \in Nat \ {0}

(* What model m makes of node n, the only node the loops look at *)
SignalsOf(text, a, m, node) ==
  CASE m.kind = "prefix"       -> PrefixSignals(text, m.prefix, node)
    [] m.kind = "lexical_core" -> LexicalCoreSignals(node)
    [] OTHER                   -> SalienceSignals(text, a, m, node)
=============================================================================
