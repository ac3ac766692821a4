------------------------- MODULE ChineseSegmentation -------------------------
(***************************************************************************)
(* segment_han of the Chinese provider                                     *)
(* (src/runtime/providers/chinese/chinese_provider.cpp): a run of          *)
(* ideographs is cut into words of a lexicon, by a table filled from the   *)
(* end of the run, and the definition it is meant to compute.              *)
(***************************************************************************)
EXTENDS ProviderText

CONSTANTS
  Lexicon,     \* sequences of characters
  Functional   \* the function words among them

Semantic(word) == IF word \in Functional THEN "function" ELSE "content"

GraphemeCount(t, from, to) == Cardinality(GraphemesIn(t, Span(from, to)))

(* match_length: a word that ends at a grapheme's end inside the run *)
Matches(t, p, runEnd, word) ==
  /\ WordAt(t, p, word)
  /\ p + Len(word) \in t.breaks /\ p + Len(word) <= runEnd

(* Mutant: the longest match at hand wins. *)
BetterGreedy(candidate, current) == candidate.length > current.length

Better(candidate, current) ==
  IF candidate.known # current.known THEN candidate.known > current.known
  ELSE IF candidate.count # current.count THEN candidate.count < current.count
  ELSE candidate.length > current.length

Choice(known, count, next, length, semantic) ==
  [known |-> known, count |-> count, next |-> next, length |-> length, semantic |-> semantic]

(* The table: the best choice at every grapheme of the run *)
Choices(t, runBegin, runEnd) ==
  LET choice[p \in t.breaks \cap runBegin..runEnd] ==
        IF p = runEnd THEN Choice(0, 0, runEnd, 0, "none")
        ELSE LET one == NextBreak(t, p)
                 fallback == Choice(choice[one].known, choice[one].count + 1, one, 1, "none")
                 entry(word) ==
                   LET tail == choice[p + Len(word)]
                       length == GraphemeCount(t, p, p + Len(word)) IN
                   Choice(tail.known + length, tail.count + 1, p + Len(word), length,
                          Semantic(word))
                 candidates == {fallback} \cup
                   {entry(word) : word \in {w \in Lexicon : Matches(t, p, runEnd, w)}}
             IN  CHOOSE c \in candidates : \A d \in candidates : ~Better(d, c)
  IN  choice

(* The words read off the table, in order *)
SegmentHan(t, runBegin, runEnd) ==
  LET choice == Choices(t, runBegin, runEnd)
      words[p \in t.breaks \cap runBegin..runEnd] ==
        IF p = runEnd THEN <<>>
        ELSE <<[begin |-> p, end |-> choice[p].next, semantic |-> choice[p].semantic]>>
               \o words[choice[p].next]
  IN  words[runBegin]

-----------------------------------------------------------------------------
(* The reference: a segmentation is the set of its cuts.                   *)
Pieces(cuts) ==
  {<<b, e>> \in cuts \X cuts : b < e /\ \A c \in cuts : c <= b \/ e <= c}

KnownPiece(t, b, e) == SubSeq(t.chars, b + 1, e) \in Lexicon

Segmentations(t, runBegin, runEnd) ==
  {cuts \in {C \cup {runBegin, runEnd} : C \in SUBSET (t.breaks \cap runBegin..runEnd)} :
     \A p \in Pieces(cuts) : KnownPiece(t, p[1], p[2]) \/ p[2] = NextBreak(t, p[1])}

Known(t, cuts) ==
  Cardinality(UNION {GraphemesIn(t, Span(p[1], p[2])) :
                p \in {q \in Pieces(cuts) : KnownPiece(t, q[1], q[2])}})

(* More known characters, then fewer words, then a longer first word that  *)
(* differs.                                                                *)
Preferred(t, C, D) ==
  \/ Known(t, C) > Known(t, D)
  \/ /\ Known(t, C) = Known(t, D)
     /\ \/ Cardinality(C) < Cardinality(D)
        \/ /\ Cardinality(C) = Cardinality(D)
           /\ \E d \in D \ C : \A c \in C \ D : d < c
=============================================================================
