\* Two tokens: a suffix inside a prefix, and a mark after one.
SPECIFICATION Spec
CONSTANTS
  SizeLimit = 65536
  Words <- MCBlindSpots
INVARIANTS
  SubunitsAreSpans
CHECK_DEADLOCK FALSE
