\* One callback of up to six events over a text of two graphemes.
SPECIFICATION Spec
CONSTANTS
  Text <- MCText
  NodeEvents <- MCNodeEvents
  EventIds <- MCEventIds
  Features <- MCFeatures
  RegionEvents <- MCRegionEvents
  NotFinite = NotFinite
  MaxEvents = 6
INVARIANTS
  ServedIsTree
  ServedIsLaminar
  ServedIsComplete
\* The callback is over once it has returned.
CHECK_DEADLOCK FALSE
