------------------------------- MODULE MCSink -------------------------------
(* Three bytes of text in two graphemes and the events a confused provider  *)
(* sends about it: ids out of order, reversed, misaligned, empty and        *)
(* overlapping spans, an unknown kind, repeated and non-finite features.    *)
EXTENDS ProviderSink

MCText == [size |-> 3, breaks |-> {0, 1, 3}]

E(i, k, b, e) == [id |-> i, kind |-> k, span |-> Span(b, e)]

MCNodeEvents ==
  {E(0, "document", 0, 3), E(0, "unit", 0, 3), E(0, "document", 0, 1)}
    \cup {E(i, "unit", b, e) : i \in 1..2, <<b, e>> \in {0, 1} \X {1, 3}}
    \cup {E(1, "unit", 0, 2), E(1, "unit", 3, 1), E(1, "word", 0, 1)}

MCEventIds == 0..2

MCFeatures == {[id |-> 1, value |-> 1], [id |-> 1, value |-> NotFinite]}

MCRegionEvents ==
  {Region(Span(0, 1), "en", 100), Region(Span(0, 3), "en", 100),
   Region(Span(1, 3), "ja", 150), Region(Span(1, 3), "ja", 50),
   Region(Span(1, 3), "", 50), Region(Span(1, 3), "ja", NotFinite)}
=============================================================================
