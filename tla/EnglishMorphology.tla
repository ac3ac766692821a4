-------------------------- MODULE EnglishMorphology --------------------------
(***************************************************************************)
(* analyze_morphology of the English provider                              *)
(* (src/runtime/providers/english/english_provider.cpp): one token is      *)
(* peeled from the right (a contraction, then up to three suffixes) and    *)
(* from the left (up to three prefixes); what is left is its lexical core. *)
(*                                                                         *)
(* A token is its lower-case bytes.  "^" stands for each byte of a         *)
(* combining mark, which never starts a grapheme.  The apostrophe is the   *)
(* straight one; the curly one is a longer contraction of the same rule.   *)
(***************************************************************************)
EXTENDS Naturals, Sequences, FiniteSets

CONSTANTS
  Words,      \* the tokens
  SizeLimit   \* 2^64 in the code: sizes and offsets wrap around here

ASSUME WordsAssumption ==
  /\ SizeLimit \in Nat
  /\ \A w \in Words : 0 < Len(w) /\ Len(w) < SizeLimit \div 2

Prefixes ==
  <<"under", "inter", "super", "trans", "anti", "auto", "over", "pre", "sub",
    "dis", "mis", "non", "un", "re">>

Suffixes ==
  <<"ability", "ibility", "ization", "isation", "ation", "ition", "ology", "ment",
    "ness", "less", "able", "ible", "ful", "ous", "ive", "ism", "ist", "ize", "ise",
    "est", "ing", "ed", "er", "ly", "al", "s">>

Contractions == <<"n't", "'re", "'ve", "'ll", "'s", "'d", "'m">>
ReducedNegatives == {"can't", "won't", "shan't"}

Exceptions ==
  {"address", "analysis", "business", "character", "computer", "document", "nation",
   "number", "other", "paper", "power", "process", "progress", "proper", "signal",
   "success", "summer", "water", "winter", "witness"}

(* The function words that an affix rule would otherwise match *)
FunctionWords ==
  {"being", "during", "does", "has", "his", "is", "its", "over", "this", "those",
   "under", "was", "whose"}

MaxLayers == 3
MinimumCore == 3

VARIABLES word, begin, end, leading, trailing, layer, stage

vars == <<word, begin, end, leading, trailing, layer, stage>>

-----------------------------------------------------------------------------
Minus(a, b) == IF b <= a THEN a - b ELSE a + (SizeLimit - b)   \* of size_t

Substr(w, from, count) ==
  SubSeq(w, from + 1, IF from + count < Len(w) THEN from + count ELSE Len(w))

StartsWith(w, p, offset) ==
  offset <= Len(w) /\ Len(p) <= Len(w) - offset /\ Substr(w, offset, Len(p)) = p

EndsWith(w, s, at) == Len(s) <= at /\ Substr(w, at - Len(s), Len(s)) = s

(* is_morphology_exception *)
IsException(w) ==
  \/ w \in Exceptions
  \/ \E i \in DOMAIN Prefixes : LET p == Prefixes[i] IN
       StartsWith(w, p, 0) /\ Substr(w, Len(p), Len(w)) \in Exceptions

(* The first of the entries of a table that apply, 0 for none *)
FirstOf(entries) ==
  IF entries = {} THEN 0
  ELSE CHOOSE i \in entries : \A j \in entries : i <= j

Piece(from, to, role) == [begin |-> from, end |-> to, role |-> role]

ContractionApplies(c) == EndsWith(word, c, end) /\ end - Len(c) > begin

SuffixApplies(s) ==
  /\ s = "s" /\ end >= 2 => Substr(word, end - 2, 1) \notin {"s", "u", "i"}
  /\ s = "er" => end - begin >= 6
  /\ EndsWith(word, s, end)
  /\ end - Len(s) >= begin + MinimumCore

(* Both comparisons of lengths are between sizes that may have wrapped. *)
PrefixApplies(p) ==
  /\ ~(p = "re" /\ StartsWith(Substr(word, begin, Minus(end, begin)), "read", 0))
  /\ StartsWith(word, p, begin)
  /\ Minus(Minus(end, begin), Len(p)) >= MinimumCore

NextContraction ==
  FirstOf({i \in DOMAIN Contractions : ContractionApplies(Contractions[i])})
NextSuffix == FirstOf({i \in DOMAIN Suffixes : SuffixApplies(Suffixes[i])})
NextPrefix == FirstOf({i \in DOMAIN Prefixes : PrefixApplies(Prefixes[i])})

-----------------------------------------------------------------------------
Init ==
  /\ word \in Words
  /\ begin = 0 /\ end = Len(word)
  /\ leading = <<>> /\ trailing = <<>>
  /\ layer = 0
  /\ stage = "whole"

Enter(s) == stage' = s /\ layer' = 0

(* Closed-class words and exceptions are their own core. *)
KeepWhole ==
  /\ stage = "whole"
  /\ word \in FunctionWords \/ IsException(word)
  /\ Enter("done")
  /\ UNCHANGED <<word, begin, end, leading, trailing>>

Strip(from) ==
  /\ trailing' = Append(trailing, Piece(from, end, "affix"))
  /\ end' = from

StripContraction ==
  /\ stage = "whole"
  /\ word \notin FunctionWords /\ ~IsException(word)
  /\ LET c == NextContraction IN
       IF word \in ReducedNegatives THEN Strip(end - Len("'t"))
       ELSE IF c # 0 THEN Strip(end - Len(Contractions[c]))
       ELSE UNCHANGED <<trailing, end>>
  /\ Enter("suffixes")
  /\ UNCHANGED <<word, begin, leading>>

(* Mutant: exceptions are looked for in the whole token only. *)
SuffixFoundInException ==
  /\ layer < MaxLayers
  /\ NextSuffix # 0

SuffixFound ==
  /\ layer < MaxLayers
  /\ ~IsException(Substr(word, begin, end - begin))
  /\ NextSuffix # 0

(* Mutant: a suffix may leave a core of two bytes. *)
StripSuffixTooFar ==
  /\ stage = "suffixes"
  /\ layer < MaxLayers
  /\ LET s == FirstOf({i \in DOMAIN Suffixes :
                         /\ EndsWith(word, Suffixes[i], end)
                         /\ end - Len(Suffixes[i]) > begin + 1}) IN
       s # 0 /\ Strip(end - Len(Suffixes[s]))
  /\ layer' = layer + 1
  /\ UNCHANGED <<word, begin, leading, stage>>

StripSuffix ==
  /\ stage = "suffixes"
  /\ SuffixFound
  /\ Strip(end - Len(Suffixes[NextSuffix]))
  /\ layer' = layer + 1
  /\ UNCHANGED <<word, begin, leading, stage>>

SuffixesDone ==
  /\ stage = "suffixes"
  /\ ~SuffixFound
  /\ Enter("prefixes")
  /\ UNCHANGED <<word, begin, end, leading, trailing>>

PrefixFound == layer < MaxLayers /\ NextPrefix # 0

StripPrefix ==
  /\ stage = "prefixes"
  /\ PrefixFound
  /\ LET p == Prefixes[NextPrefix] IN
       /\ leading' = Append(leading, Piece(begin, begin + Len(p), "affix"))
       /\ begin' = begin + Len(p)
  /\ layer' = layer + 1
  /\ UNCHANGED <<word, end, trailing, stage>>

PrefixesDone ==
  /\ stage = "prefixes"
  /\ ~PrefixFound
  /\ Enter("done")
  /\ UNCHANGED <<word, begin, end, leading, trailing>>

Next ==
  \/ KeepWhole \/ StripContraction
  \/ StripSuffix \/ SuffixesDone \/ StripPrefix \/ PrefixesDone

Spec == Init /\ [][Next]_vars

(* Mutant: the trailing affixes are emitted as they were found. *)
PiecesAsFound == leading \o <<Piece(begin, end, "core")>> \o trailing

(* The subunits, in text order *)
Pieces ==
  leading \o <<Piece(begin, end, "core")>>
    \o [k \in DOMAIN trailing |-> trailing[Len(trailing) + 1 - k]]

-----------------------------------------------------------------------------
(* The subunits tile the token: analyze hands every byte of it to exactly  *)
(* one subunit, in order, at every step of the peeling.                    *)
SubunitsTile ==
  /\ Pieces[1].begin = 0
  /\ Pieces[Len(Pieces)].end = Len(word)
  /\ \A k \in DOMAIN Pieces : Pieces[k].begin < Pieces[k].end
  /\ \A k \in 1..(Len(Pieces) - 1) : Pieces[k].end = Pieces[k + 1].begin

(* Neither loop eats into what the other left: a core next to an affix     *)
(* that is no contraction keeps MinimumCore bytes.                         *)
CoreSurvives ==
  stage = "done" /\ (leading # <<>> \/ Len(trailing) > 1) => end - begin >= MinimumCore

(* An exception keeps its ending however many suffixes follow it           *)
(* (docs/english-provider.md:29-31: no recursive stripping).               *)
ExceptionsKeepTheirEnding ==
  \A k \in DOMAIN trailing :
    ~IsException(Substr(word, 0, trailing[k].end)) \/ Substr(word, trailing[k].begin, 1) = "'"

(* docs/language-provider-guide.md:11-16 asks for valid half-open spans;   *)
(* docs/architecture.md:71: spans are contained and grapheme-safe.         *)
SubunitsAreSpans ==
  \A k \in DOMAIN Pieces : LET p == Pieces[k] IN
    /\ p.begin <= p.end
    /\ \A offset \in {p.begin, p.end} :
         offset = Len(word) \/ Substr(word, offset, 1) # "^"
=============================================================================
