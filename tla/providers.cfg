\* The four built-in providers, each on its own texts.
SPECIFICATION Spec
CONSTANTS
  Han <- MCHan
  Hiragana <- MCHiragana
  Katakana <- MCKatakana
  Latin <- MCLatin
  WordLike <- MCWordLike
  Letters <- MCLetters
  Terminals <- MCTerminals
  Apostrophes <- MCApostrophes
  Separators <- MCSeparators
  Marks <- MCMarks
  Lexicon <- MCLexicon
  Functional <- MCFunctional
  Languages <- MCLanguages
  Texts <- MCTexts
INVARIANTS
  
  UnitsAreTheWords
  ScriptsKeptApart
  SentencesEndAtTerminals
  SegmentationIsBest
  LongestSuffixTiled
\* A text is analysed once.
CHECK_DEADLOCK FALSE
