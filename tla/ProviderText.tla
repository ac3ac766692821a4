---------------------------- MODULE ProviderText ----------------------------
(***************************************************************************)
(* What the built-in providers see of a text (src/runtime/core/text.cpp):  *)
(* its characters, and where its graphemes begin.  Offsets count           *)
(* characters, where the code counts bytes; the code compares and adds     *)
(* offsets but never looks at the width of a character.                    *)
(*                                                                         *)
(* A character is a string of its own: "yan" is one ideograph, "ma" one    *)
(* kana.  The character classes are sets of them; a character may be       *)
(* hiragana by its block and yet no part of a word (U+309B is one).        *)
(***************************************************************************)
EXTENDS AnalysisIR, Sequences

CONSTANTS
  Han, Hiragana, Katakana, Latin,   \* scripts
  WordLike,       \* letters and numbers
  Letters,        \* letters alone
  Terminals,      \* sentence terminals
  Apostrophes,
  Separators,     \* controls, spaces, punctuation
  Marks           \* continue the grapheme of the character before

ASSUME ClassesAssumption ==
  /\ Letters \subseteq WordLike
  /\ \A S, T \in {Han, Hiragana, Katakana, Latin} : S # T => S \cap T = {}
  /\ Terminals \cup Apostrophes \subseteq Separators
  /\ WordLike \cap (Separators \cup Marks) = {}

Text(chars) ==
  [chars  |-> chars,
   size   |-> Len(chars),
   breaks |-> {0, Len(chars)}
                \cup {i \in 1..(Len(chars) - 1) : chars[i + 1] \notin Marks}]

First(t, p) == t.chars[p + 1]   \* first_code_point of the grapheme at p

NextBreak(t, p) ==
  CHOOSE e \in t.breaks : p < e /\ \A b \in t.breaks : b <= p \/ e <= b

(* Where a scan from p that goes on over the graphemes at "members" ends   *)
ScanOver(t, p, members) ==
  CHOOSE e \in t.breaks :
    /\ p <= e
    /\ GraphemesIn(t, Span(p, e)) \subseteq members
    /\ e = t.size \/ e \notin members

StartingIn(t, S) == {b \in t.breaks \ {t.size} : First(t, b) \in S}

(* text.bytes().substr(p).starts_with(word) *)
WordAt(t, p, word) ==
  p + Len(word) <= t.size /\ SubSeq(t.chars, p + 1, p + Len(word)) = word

(* script_of and script_feature *)
ScriptOf(c) ==
  CASE c \in Han -> "han" [] c \in Hiragana -> "hiragana"
    [] c \in Katakana -> "katakana" [] c \in Latin -> "latin" [] OTHER -> "other"

ScriptsIn(t, s) ==
  {ScriptOf(First(t, b)) : b \in GraphemesIn(t, s)} \ {"other"}
=============================================================================
