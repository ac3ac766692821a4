-------------------------- MODULE JapaneseSuffixes --------------------------
(***************************************************************************)
(* make_unit of the Japanese provider                                      *)
(* (src/runtime/providers/japanese/japanese_provider.cpp): the ending of a *)
(* unit is looked up in two tables and cut off, piece by piece.            *)
(* A kana is its romanized syllable, "Q" the small tsu.                    *)
(***************************************************************************)
EXTENDS ProviderText

Seqs == INSTANCE SequencesExt

Sase == <<"sa", "se">>          Rare == <<"ra", "re">>
Mashi == <<"ma", "shi">>        Masu == <<"ma", "su">>
Mase == <<"ma", "se">>          Deshi == <<"de", "shi">>
Nai == <<"na", "i">>            NakaQ == <<"na", "ka", "Q">>
Yasu == <<"ya", "su">>          Niku == <<"ni", "ku">>
KaQ == <<"ka", "Q">>            K(kana) == <<kana>>

Chain(parts) == [parts |-> parts, standalone |-> TRUE]
Bound(parts) == [parts |-> parts, standalone |-> FALSE]

(* chained_suffixes *)
Chains ==
  <<Chain(<<Sase, Rare, Mashi, K("ta")>>),
    Chain(<<K("shi"), Mase, K("n"), Deshi, K("ta")>>),
    Chain(<<Mase, K("n"), Deshi, K("ta")>>),
    Chain(<<K("shi"), K("te"), K("i"), Mashi, K("ta")>>),
    Chain(<<Sase, Rare, K("ru")>>), Chain(<<Rare, Mashi, K("ta")>>),
    Chain(<<K("re"), Mashi, K("ta")>>), Chain(<<K("shi"), K("te"), K("i"), Masu>>),
    Chain(<<Sase, Mashi, K("ta")>>), Chain(<<K("se"), Mashi, K("ta")>>),
    Chain(<<K("te"), K("i"), Mashi, K("ta")>>),
    Bound(<<Yasu, K("ku"), Nai>>), Bound(<<Niku, K("ku"), Nai>>),
    Bound(<<Yasu, KaQ, K("ta")>>), Bound(<<Niku, KaQ, K("ta")>>),
    Chain(<<K("shi"), Mase, K("n")>>), Chain(<<Rare, K("ru")>>), Chain(<<K("re"), K("ru")>>),
    Chain(<<K("shi"), Mashi, K("ta")>>), Chain(<<K("te"), K("i"), Masu>>),
    Chain(<<NakaQ, K("ta")>>), Chain(<<K("te"), K("i"), K("ta")>>),
    Chain(<<K("te"), K("i"), K("ru")>>), Chain(<<Deshi, K("ta")>>), Chain(<<Mase, K("n")>>),
    Chain(<<Mashi, K("ta")>>), Bound(<<Yasu, K("i")>>), Bound(<<Niku, K("i")>>)>>

(* simple_suffixes, each a chain of one part *)
SimpleTexts ==
  <<<<"ka", "ra">>, <<"ma", "de">>, <<"yo", "ri">>, <<"no", "de">>, <<"no", "ni">>,
    <<"ni", "ha">>, <<"de", "ha">>, <<"te", "mo">>, <<"da", "ke">>, <<"ho", "do">>,
    Masu, <<"de", "su">>, Nai>>
  \o [i \in 1..12 |->
        K(<<"ha", "ga", "wo", "ni", "he", "to", "de", "no", "mo", "ya", "ne", "yo">>[i])]

Rules == Chains \o [i \in DOMAIN SimpleTexts |-> Chain(<<SimpleTexts[i]>>)]

SuffixText(rule) == Seqs!FlattenSeq(rule.parts)
PartEnd(rule, k) == Len(Seqs!FlattenSeq(SubSeq(rule.parts, 1, k)))

(* Where a rule's suffix begins in a unit that ends at unitEnd *)
SuffixBegin(rule, unitEnd) == unitEnd - Len(SuffixText(rule))

Applies(t, begin, end, rule) ==
  LET from == SuffixBegin(rule, end) IN
  /\ begin <= from /\ WordAt(t, from, SuffixText(rule))
  /\ \A k \in 0..Len(rule.parts) : from + PartEnd(rule, k) \in t.breaks
  /\ from = begin => rule.standalone

Applicable(t, begin, end) == {i \in DOMAIN Rules : Applies(t, begin, end, Rules[i])}

(* Mutant: the last rule that applies wins. *)
RuleOfLast(t, begin, end) ==
  CHOOSE i \in Applicable(t, begin, end) : \A j \in Applicable(t, begin, end) : j <= i

RuleOf(t, begin, end) ==
  CHOOSE i \in Applicable(t, begin, end) : \A j \in Applicable(t, begin, end) : i <= j

Subunit(begin, end, feature) == [begin |-> begin, end |-> end, feature |-> feature]

SuffixSubunits(rule, from) ==
  [k \in DOMAIN rule.parts |->
     Subunit(from + PartEnd(rule, k - 1), from + PartEnd(rule, k),
             IF k = 1 /\ rule.parts[k] \in {Yasu, Niku} THEN "derivational" ELSE "grammatical")]

MakeUnit(t, begin, end) ==
  IF Applicable(t, begin, end) = {} THEN <<Subunit(begin, end, "core")>>
  ELSE LET rule == Rules[RuleOf(t, begin, end)]
           from == SuffixBegin(rule, end) IN
       (IF from = begin THEN <<>> ELSE <<Subunit(begin, from, "core")>>)
         \o SuffixSubunits(rule, from)
=============================================================================
