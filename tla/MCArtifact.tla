----------------------------- MODULE MCArtifact -----------------------------
(* Artifacts of every type, with and without languages, features and        *)
(* weights, and exports that the exporter or the runtime must refuse.       *)
EXTENDS ModelArtifact

En == <<101, 110>>
EnUpper == <<69, 78>>
ZhHant == <<122, 104, 45, 84>>
Half == 1056964608
One == 1065353216
Infinite == 2139095040

Plain == [abi |-> Abi(11), type |-> Prefix, version |-> 1,
          languages |-> <<>>, features |-> <<>>,
          strategy |-> 1, fixed |-> 1, proportion |-> Half,
          bias |-> 0, weights |-> <<>>,
          anchorBias |-> Half, anchors |-> <<>>, minimum |-> 1]

W(feature, weight) == [feature |-> feature, weight |-> weight]

Lexical == [Plain EXCEPT !.type = LexicalCore, !.features = <<FeatureLexicalCore>>]
Linear == [Plain EXCEPT !.type = LinearSalience, !.features = <<2, 262146>>,
                        !.bias = One, !.weights = <<W(262146, Half), W(2, 0)>>]
Segmental == [Plain EXCEPT !.abi = Abi(12), !.type = SegmentalSalience,
                           !.features = <<4, FeatureLexicalCore>>,
                           !.weights = <<W(4, One)>>,
                           !.anchors = <<W(FeatureLexicalCore, Half), W(4, One)>>,
                           !.minimum = 2]

MCArtifacts ==
  {Plain,
   [Plain EXCEPT !.languages = <<En, ZhHant>>, !.strategy = 2, !.fixed = 258],
   [Plain EXCEPT !.features = <<1>>, !.proportion = One],
   Lexical,
   [Lexical EXCEPT !.languages = <<ZhHant>>, !.features = <<3, FeatureLexicalCore>>],
   Linear,
   Segmental,
   [Segmental EXCEPT !.languages = <<En>>],
   \* refused by the encoder
   [Plain EXCEPT !.languages = <<En, EnUpper>>],
   [Linear EXCEPT !.features = <<2>>],
   [Segmental EXCEPT !.minimum = 17]}

MCExports ==
  {Plain,
   [Plain EXCEPT !.languages = <<ZhHant, EnUpper>>, !.strategy = 2],
   [Plain EXCEPT !.abi = Abi(13)],
   [Plain EXCEPT !.abi = 131072],
   [Plain EXCEPT !.abi = 11],
   Lexical,
   Linear,
   [Linear EXCEPT !.abi = Abi(5)],
   [Linear EXCEPT !.weights = <<W(FeatureFunctionUnit, One), W(7, One)>>],
   [Linear EXCEPT !.abi = Abi(6), !.weights = <<W(FeatureFunctionUnit, One)>>],
   [Linear EXCEPT !.weights = <<W(5, One)>>],
   [Linear EXCEPT !.abi = Abi(12), !.weights = <<W(2, One), W(5, One)>>],
   [Linear EXCEPT !.weights = <<W(2, Infinite)>>],
   [Linear EXCEPT !.weights = <<W(2, One), W(2, Half)>>],
   Segmental,
   [Segmental EXCEPT !.abi = Abi(13)],
   [Segmental EXCEPT !.abi = Abi(11)],
   [Segmental EXCEPT !.weights = <<W(1, One), W(2, One)>>],
   [Segmental EXCEPT !.languages = <<En, EnUpper>>],
   [Segmental EXCEPT !.version = 0]}

MCCompiles ==
  {[command |-> "compile-prefix", options |-> <<>>],
   [command |-> "compile-prefix",
    options |-> <<<<"--fixed", 2>>, <<"--language", En>>, <<"--model-version", 7>>>>],
   [command |-> "compile-prefix", options |-> <<<<"--fixed", 2>>, <<"--proportion", One>>>>],
   [command |-> "compile-lexical-core",
    options |-> <<<<"--language", En>>, <<"--language", ZhHant>>>>],
   [command |-> "compile-linear-salience",
    options |-> <<<<"--weight", W(5, One)>>, <<"--bias", Half>>, <<"--weight", W(2, 0)>>>>],
   \* refused by the tool or the encoder
   [command |-> "compile-lexical-core", options |-> <<<<"--fixed", 2>>>>],
   [command |-> "compile-linear-salience", options |-> <<>>],
   [command |-> "compile-linear-salience",
    options |-> <<<<"--weight", W(2, One)>>, <<"--weight", W(2, Half)>>>>],
   [command |-> "compile-prefix", options |-> <<<<"unreadable", 0>>>>]}

MCDamageBytes == {0, 1, 2, 3, 12, 45, 64, 127}
MCDamageLengths == {-16, -8, -4, -1, 1, 4, 8}
=============================================================================
