----------------------------- MODULE MCProviders -----------------------------
(* Every short text over an alphabet chosen for each provider, and longer   *)
(* ones put together from stems and endings.                                *)
EXTENDS BuiltInProviders

MCHan == {"yan", "jiu", "sheng", "ming", "nan", "jing", "shi-", "chang", "jiang", "da-", "qiao"}
MCHiragana ==
  {"sa", "se", "ra", "re", "ru", "ma", "shi", "su", "mo", "ta", "te", "to", "de", "da", "do",
   "n", "na", "ni", "ne", "no", "i", "ya", "yo", "ri", "ka", "ga", "ke", "ku", "Q", "wo",
   "ha", "he", "ho", "dakuten"}
MCKatakana == {"KO"}
MCLatin == {"x", "y"}
MCLetters == MCHan \cup (MCHiragana \ {"dakuten"}) \cup MCKatakana \cup MCLatin
MCWordLike == MCLetters \cup {"7"}
MCTerminals == {"."}
MCApostrophes == {"'"}
MCSeparators == {".", "'", " "}
MCMarks == {"^"}

MCLexicon ==
  {<<"yan", "jiu">>, <<"yan", "jiu", "sheng">>, <<"sheng", "ming">>, <<"sheng">>,
   <<"nan", "jing">>, <<"nan", "jing", "shi-">>, <<"shi-", "chang">>,
   <<"chang", "jiang">>, <<"da-", "qiao">>, <<"chang", "jiang", "da-", "qiao">>}
MCFunctional == {<<"sheng">>}

UpTo(n, alphabet) == UNION {[1..k -> alphabet] : k \in 0..n}

ChineseTexts ==
  UpTo(4, {"yan", "jiu", "sheng", "ming", "x", ".", "^"})
    \cup {<<"nan", "jing", "shi-", "chang", "jiang", "da-", "qiao">>,
          <<"yan", "jiu", "sheng", "ming", "7", "yan", "jiu", "sheng">>}

JapaneseTexts ==
  UpTo(4, {"yan", "KO", "te", "i", "ta", "dakuten", "."})
    \cup {stem \o Seqs!FlattenSeq(SubSeq(Rules[i].parts, k, Len(Rules[i].parts))) \o tail :
            stem \in {<<>>, <<"yan">>, <<"mo", "^">>}, i \in DOMAIN Rules, k \in 1..2,
            tail \in {<<>>, <<"yo">>}}

MCLanguages == {"", "EN-x", "zh", "ja-JP"}
MCTexts ==
  [l \in MCLanguages |->
     CASE l = "" -> UpTo(4, {"x", "7", "^", " ", "."})
       [] l = "EN-x" -> UpTo(4, {"x", "'", "7", "^", "."})
       [] l = "zh" -> ChineseTexts
       [] l = "ja-JP" -> JapaneseTexts]
=============================================================================
