------------------------------ MODULE MCEnglish ------------------------------
(* Tokens put together from affixes and stems, many of them words of the    *)
(* code's tests, and two tokens that end in a rule's blind spot.            *)
EXTENDS EnglishMorphology

Heads == {"", "un", "re", "inter", "trans", "mis", "over"}
Stems == {"read", "port", "nation", "character", "happi", "do", "power", "caf^^", "bus"}
Tails == {"", "s", "ed", "ing", "er", "ers", "ness", "able", "alization", "izations",
          "lessness", "alizationers", "'s", "n't", "ers'll"}

MCWords ==
  {h \o s \o t : h \in Heads, s \in Stems, t \in Tails}
    \cup {"can't", "won't", "this", "does", "under", "during", "us", "news", "thing", "re", "s"}

(* "trans" loses its s to a suffix, then its five letters to a prefix;      *)
(* "re^^sume^^" is resume with decomposed accents.                          *)
MCBlindSpots == {"trans", "re^^sume^^"}
=============================================================================
