\* A thousand tokens of up to three affixes on either side of a stem.
SPECIFICATION Spec
CONSTANTS
  SizeLimit = 65536
  Words <- MCWords
INVARIANTS
  SubunitsTile
  CoreSurvives
  ExceptionsKeepTheirEnding
\* A token is analysed once.
CHECK_DEADLOCK FALSE
