-------------------------- MODULE BuiltInProviders --------------------------
(***************************************************************************)
(* One call of the language router (src/runtime/core/language_router.cpp): *)
(* a provider is picked for the language, scans the text grapheme by       *)
(* grapheme into units and sentences, and turns these into an analysis     *)
(* (src/runtime/providers/{generic,english,chinese,japanese}).             *)
(*                                                                         *)
(* The four scans have one shape: a unit starts here, or a sentence ends   *)
(* here, or neither.  Feature values are left out, which features a node   *)
(* has is not.  What analyze_morphology makes of an English token is any   *)
(* cut into a core and an affix; EnglishMorphology is about that.          *)
(***************************************************************************)
EXTENDS ChineseSegmentation, JapaneseSuffixes

CONSTANTS
  Languages,   \* tags, "" among them
  Texts        \* [Languages -> sets of character sequences]

VARIABLES
  language, text,
  provider,    \* "none" before it is picked
  stage,       \* "route" | "scan" | "emit" | "done"
  position,    \* offset of graphemes[index]
  units,       \* of the sentence being scanned, or still to be emitted
  sentences,   \* finished, or still to be emitted
  owner,       \* id of the node whose children the units become
  analysis

vars == <<language, text, provider, stage, position, units, sentences, owner, analysis>>

Init ==
  /\ language \in Languages
  /\ \E chars \in Texts[language] : text = Text(chars)
  /\ provider = "none" /\ stage = "route"
  /\ position = 0 /\ units = <<>> /\ sentences = <<>>
  /\ owner = 0
  /\ analysis = EmptyAnalysis

-----------------------------------------------------------------------------
(* supports: the primary subtag, whatever its case *)
HasPrimary(l, tags) ==
  Len(l) >= 2 /\ SubSeq(l, 1, 2) \in tags /\ (Len(l) = 2 \/ SubSeq(l, 3, 3) = "-")

Router(l) ==
  IF HasPrimary(l, {"ja", "JA", "Ja", "jA"}) THEN "japanese"
  ELSE IF HasPrimary(l, {"zh", "ZH", "Zh", "zH"}) THEN "chinese"
  ELSE IF HasPrimary(l, {"en", "EN", "En", "eN"}) THEN "english"
  ELSE "generic"

WithFeatures(node, ids) == [node EXCEPT !.features = [k \in DOMAIN ids |-> [id |-> ids[k]]]]

(* The root and the one region of every provider's result *)
Route ==
  /\ stage = "route" /\ stage' = "scan"
  /\ provider' = Router(language)
  /\ analysis' =
       [nodes   |-> <<WithFeatures(Node(0, "document", FullSpan(text)), <<"graphemes">>)>>,
        regions |-> <<Region(FullSpan(text), IF language = "" THEN "und" ELSE language,
                             IF language \in {"", "und"} THEN 0 ELSE 100)>>]
  /\ UNCHANGED <<language, text, position, units, sentences, owner>>

-----------------------------------------------------------------------------
(* Where a unit starts and, if one starts at p, where it ends *)
UnitStart ==
  CASE provider = "generic" -> {b \in StartingIn(text, {text.chars[i] : i \in 1..text.size}) :
                                  First(text, b) \notin Separators}
    [] provider = "english" -> StartingIn(text, Letters)
    [] provider = "chinese" -> StartingIn(text, Han \cup WordLike)
    [] provider = "japanese" -> StartingIn(text, WordLike)

(* Inside a token: a letter, or an apostrophe with a letter after it *)
InToken ==
  StartingIn(text, Letters) \cup
    {b \in StartingIn(text, Apostrophes) : NextBreak(text, b) \in StartingIn(text, Letters)}

SameScript(p) ==
  {b \in StartingIn(text, WordLike) : ScriptOf(First(text, b)) = ScriptOf(First(text, p))}

(* Okurigana: hiragana after a run of another script belongs to it *)
JapaneseEnd(p) ==
  LET own == ScanOver(text, p, SameScript(p)) IN
  IF ScriptOf(First(text, p)) = "hiragana" THEN own
  ELSE ScanOver(text, own, StartingIn(text, Hiragana))

(* Mutant: a word goes on over ideographs. *)
UnitEndOverHan(p) ==
  CASE provider = "generic" -> ScanOver(text, p, UnitStart)
    [] provider = "english" -> ScanOver(text, p, InToken)
    [] provider = "chinese" -> ScanOver(text, p, StartingIn(text, Han \cup WordLike))
    [] provider = "japanese" -> JapaneseEnd(p)

UnitEnd(p) ==
  CASE provider = "generic" -> ScanOver(text, p, UnitStart)
    [] provider = "english" -> ScanOver(text, p, InToken)
    [] provider = "chinese" /\ First(text, p) \in Han ->
         ScanOver(text, p, StartingIn(text, Han))
    [] provider = "chinese" /\ First(text, p) \notin Han ->
         ScanOver(text, p, StartingIn(text, WordLike \ Han))
    [] provider = "japanese" -> JapaneseEnd(p)

Unit(begin, end, features, subunits) ==
  [begin |-> begin, end |-> end, features |-> features, subunits |-> subunits]

Present(id) == IF id \in {"none", "other"} THEN <<>> ELSE <<id>>

Characters(begin, end, feature) ==
  LET rest[p \in text.breaks \cap begin..end] ==
        IF p = end THEN <<>>
        ELSE <<Subunit(p, NextBreak(text, p), feature)>> \o rest[NextBreak(text, p)]
  IN  rest[begin]

ChineseUnit(begin, end, script, semantic) ==
  Unit(begin, end,
       <<"graphemes", "confidence", "core">> \o Present(script) \o Present(semantic),
       Characters(begin, end, script))

ChineseUnits(p, e) ==
  IF First(text, p) \in Han
  THEN LET words == SegmentHan(text, p, e) IN
       [k \in DOMAIN words |->
          ChineseUnit(words[k].begin, words[k].end, "han", words[k].semantic)]
  ELSE <<ChineseUnit(p, e, IF GraphemesIn(text, Span(p, e)) \subseteq StartingIn(text, Latin)
                           THEN "latin" ELSE "other", "content")>>

Ordered(ids) == CHOOSE s \in [1..Cardinality(ids) -> ids] : Range(s) = ids

JapaneseUnit(p, e) ==
  LET subunits == MakeUnit(text, p, e) IN
  Unit(p, e,
       Ordered(ScriptsIn(text, Span(p, e))) \o <<"graphemes", "confidence",
         IF \E k \in DOMAIN subunits : subunits[k].feature = "core" THEN "content"
         ELSE "function">>,
       subunits)

EnglishUnit(p, e, kind, subunits) ==
  Unit(p, e, <<"graphemes", "confidence", "position", "progress", "count", kind>>, subunits)

EnglishSubunits(p, e) ==
  {<<Subunit(p, e, "core")>>} \cup
  UNION {{<<Subunit(p, b, "core"), Subunit(b, e, "grammatical")>>,
          <<Subunit(p, b, "derivational"), Subunit(b, e, "core")>>} :
            b \in {c \in text.breaks : p < c /\ c < e}}

NewUnits(p, e) ==
  CASE provider = "generic" -> {<<Unit(p, e, <<"boundary", "graphemes">>, <<>>)>>}
    [] provider = "english" ->
         {<<EnglishUnit(p, e, "function", <<Subunit(p, e, "core")>>)>>} \cup
           {<<EnglishUnit(p, e, "content", s)>> : s \in EnglishSubunits(p, e)}
    [] provider = "chinese" -> {ChineseUnits(p, e)}
    [] provider = "japanese" -> {<<JapaneseUnit(p, e)>>}

-----------------------------------------------------------------------------
Scanning == stage = "scan" /\ position < text.size

TakeUnits ==
  /\ Scanning /\ position \in UnitStart
  /\ \E new \in NewUnits(position, UnitEnd(position)) : units' = units \o new
  /\ position' = UnitEnd(position)
  /\ UNCHANGED <<language, text, provider, stage, sentences, owner, analysis>>

FinishSentence(end) ==
  IF units = <<>> THEN UNCHANGED <<units, sentences>>
  ELSE /\ sentences' = Append(sentences, [span |-> Span(units[1].begin, end), units |-> units])
       /\ units' = <<>>

EndsSentence == provider # "generic" /\ First(text, position) \in Terminals

(* Mutant: a terminal leaves the units to the sentence after it. *)
TerminalKeepsUnits ==
  /\ Scanning /\ position \notin UnitStart /\ EndsSentence
  /\ UNCHANGED <<units, sentences>>
  /\ position' = NextBreak(text, position)
  /\ UNCHANGED <<language, text, provider, stage, owner, analysis>>

Terminal ==
  /\ Scanning /\ position \notin UnitStart /\ EndsSentence
  /\ FinishSentence(NextBreak(text, position))
  /\ position' = NextBreak(text, position)
  /\ UNCHANGED <<language, text, provider, stage, owner, analysis>>

Skip ==
  /\ Scanning /\ position \notin UnitStart /\ ~EndsSentence
  /\ position' = NextBreak(text, position)
  /\ UNCHANGED <<language, text, provider, stage, units, sentences, owner, analysis>>

(* Mutant: what has no terminal is no sentence. *)
FinishScanDropping ==
  /\ stage = "scan" /\ position = text.size
  /\ stage' = "emit"
  /\ units' = IF provider = "generic" THEN units ELSE <<>>
  /\ UNCHANGED <<language, text, provider, position, sentences, owner, analysis>>

(* The end of the text ends the last sentence at its last unit. *)
FinishScan ==
  /\ stage = "scan" /\ position = text.size
  /\ IF provider = "generic" THEN UNCHANGED <<units, sentences>>
     ELSE FinishSentence(units[Len(units)].end)
  /\ stage' = "emit"
  /\ UNCHANGED <<language, text, provider, position, owner, analysis>>

-----------------------------------------------------------------------------
NextId == Len(analysis.nodes)

(* Nodes appended as children of a node *)
AddNodes(a, parent, new) ==
  [a EXCEPT !.nodes =
     [@ EXCEPT ![parent + 1].children =
        @ \o [k \in DOMAIN new |-> Len(a.nodes) + k - 1]] \o new]

EmitSentence ==
  /\ stage = "emit" /\ units = <<>> /\ sentences # <<>>
  /\ analysis' = AddNodes(analysis, 0,
       <<WithFeatures(Node(NextId, "sentence", Head(sentences).span), <<"boundary">>)>>)
  /\ owner' = NextId
  /\ units' = Head(sentences).units
  /\ sentences' = Tail(sentences)
  /\ UNCHANGED <<language, text, provider, stage, position>>

SubunitNodes(unit, firstId) ==
  [k \in DOMAIN unit.subunits |->
     WithFeatures(Node(firstId + k - 1, "subunit",
                       Span(unit.subunits[k].begin, unit.subunits[k].end)),
       (IF provider = "japanese"
        THEN Ordered(ScriptsIn(text, Span(unit.subunits[k].begin, unit.subunits[k].end)))
        ELSE <<>>) \o Present(unit.subunits[k].feature))]

WithUnit(a, unit) ==
  AddNodes(a, owner,
    <<WithFeatures(Node(Len(a.nodes), "unit", Span(unit.begin, unit.end)), unit.features)>>)


EmitUnit ==
  /\ stage = "emit" /\ units # <<>>
  /\ analysis' = AddNodes(WithUnit(analysis, Head(units)), NextId,
                          SubunitNodes(Head(units), NextId + 1))
  /\ units' = Tail(units)
  /\ UNCHANGED <<language, text, provider, stage, position, sentences, owner>>

Return ==
  /\ stage = "emit" /\ units = <<>> /\ sentences = <<>>
  /\ stage' = "done"
  /\ UNCHANGED <<language, text, provider, position, units, sentences, owner, analysis>>

Next ==
  \/ Route \/ TakeUnits \/ Terminal \/ Skip \/ FinishScan
  \/ EmitSentence \/ EmitUnit \/ Return

Spec == Init /\ [][Next]_vars

-----------------------------------------------------------------------------
Returned == stage = "done"
NodesOf(kind) == {n \in Range(analysis.nodes) : n.kind = kind}
UnitSpans == {n.span : n \in NodesOf("unit")}


(* No word is lost, none is in two units, and no unit runs over a          *)
(* separator other than the apostrophe of an English token.                *)
UnitsAreTheWords ==
  Returned =>
    /\ \A b \in UnitStart : \E s \in UnitSpans : s.begin <= b /\ b < s.end
    /\ \A s, u \in UnitSpans : s = u \/ Disjoint(s, u)
    /\ \A s \in UnitSpans : GraphemesIn(text, s) \cap StartingIn(text, Separators)
         \subseteq IF provider = "english" THEN StartingIn(text, Apostrophes) ELSE {}

(* Scripts are kept apart: an ideograph never shares a Chinese unit with   *)
(* another script, and a Japanese unit mixes scripts only by hiragana that *)
(* ends it.                                                                *)
ScriptsKeptApart ==
  Returned => \A s \in UnitSpans :
    LET han == StartingIn(text, Han)
        kana == StartingIn(text, Hiragana)
        own == GraphemesIn(text, s) IN
    /\ provider = "chinese" => own \subseteq han \/ own \cap han = {}
    /\ provider = "japanese" =>
         /\ \A b, c \in own : b \in kana /\ b < c => c \in kana
         /\ Cardinality(ScriptsIn(text, s) \ {"hiragana"}) <= 1

(* A sentence has a terminal only at its end, and only the last one may    *)
(* do without.                                                             *)
SentencesEndAtTerminals ==
  Returned => \A n \in NodesOf("sentence") :
    LET terminals == GraphemesIn(text, n.span) \cap StartingIn(text, Terminals) IN
    \/ /\ terminals = {} 
       /\ \A m \in NodesOf("sentence") : m.span.begin <= n.span.begin
    \/ /\ Cardinality(terminals) = 1
       /\ \A b \in terminals : NextBreak(text, b) = n.span.end

HanRuns ==
  {<<b, e>> \in text.breaks \X text.breaks :
     /\ b < e /\ ScanOver(text, b, StartingIn(text, Han)) = e
     /\ \A p \in StartingIn(text, Han) : NextBreak(text, p) # b}

(* The Chinese segmentation is the best there is: of all ways to cut a run *)
(* into words of the lexicon and single characters, none covers more       *)
(* characters by words, or as many by fewer words, or prefers a longer     *)
(* word earlier (docs/chinese-provider.md:17-19).                                *)
SegmentationIsBest ==
  Returned /\ provider = "chinese" => \A run \in HanRuns :
    LET cuts == {run[1], run[2]} \cup
                  {s.begin : s \in {u \in UnitSpans : run[1] <= u.begin /\ u.end <= run[2]}}
        all  == Segmentations(text, run[1], run[2]) IN
    cuts \in all /\ \A D \in all : ~Preferred(text, D, cuts)

(* A Japanese unit loses the longest ending that any rule knows, although  *)
(* the tables are searched in order ("Specific chains precede their        *)
(* overlapping shorter endings", japanese_provider.cpp:205), and its       *)
(* subunits tile it.                                                       *)
LongestSuffixTiled ==
  Returned /\ provider = "japanese" => \A n \in NodesOf("unit") :
    LET pieces == [k \in DOMAIN n.children |-> NodeAt(analysis, n.children[k])]
        affixes == {k \in DOMAIN pieces :
                      [id |-> "core"] \notin Range(pieces[k].features)} IN
    /\ pieces[1].span.begin = n.span.begin
    /\ pieces[Len(pieces)].span.end = n.span.end
    /\ \A k \in 2..Len(pieces) : pieces[k].span.begin = pieces[k - 1].span.end
    /\ \A i \in Applicable(text, n.span.begin, n.span.end) :
         \E k \in affixes : pieces[k].span.begin <= SuffixBegin(Rules[i], n.span.end)
=============================================================================
