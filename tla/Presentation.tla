---------------------------- MODULE Presentation ----------------------------
(***************************************************************************)
(* From reading signals to an emphasis plan (src/runtime/core/emphasis.cpp)*)
(* A policy is [kind, threshold, minimum, maximum] in units of 1/Scale;    *)
(* strengths are in units of 1/Scale^2.  The style class is always 0.      *)
(***************************************************************************)
EXTENDS ReadingModels

(* Signals both policies discard: no salience, too little, or no text *)
Passes(policy, s) ==
  /\ s.salience > 0
  /\ s.salience >= policy.threshold
  /\ ~EmptySpan(s.span)

Strength(policy, salience) ==
  IF policy.kind = "binary" THEN policy.maximum * Scale
  ELSE policy.minimum * Scale
         + (policy.maximum - policy.minimum) * Clamp(salience, 0, Scale)

(* Mutant: touching spans merge whatever their strengths. *)
AppendNormalizedAnyStrength(result, e) ==
  IF /\ result # <<>>
     /\ result[Len(result)].span.end = e.span.begin
  THEN [result EXCEPT ![Len(result)].span.end = e.span.end]
  ELSE Append(result, e)

(* append_normalized: an emphasis that goes on where the last one ends,    *)
(* with its strength, extends it.                                          *)
AppendNormalized(result, e) ==
  IF /\ result # <<>>
     /\ result[Len(result)].span.end = e.span.begin
     /\ result[Len(result)].strength = e.strength
  THEN [result EXCEPT ![Len(result)].span.end = e.span.end]
  ELSE Append(result, e)

(* Mutant: empty spans are not filtered. *)
PresentEmpty(policy, result, s) ==
  IF s.salience > 0 /\ s.salience >= policy.threshold
  THEN AppendNormalized(result, [span |-> s.span, strength |-> Strength(policy, s.salience)])
  ELSE result

(* The loop body of both policies *)
Present(policy, result, s) ==
  IF Passes(policy, s)
  THEN AppendNormalized(result, [span |-> s.span, strength |-> Strength(policy, s.salience)])
  ELSE result
=============================================================================
