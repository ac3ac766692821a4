\* One direct call: prefixes of nested units, or of units out of text order.
SPECIFICATION Spec
CONSTANTS
  Scale = 12
  NotANumber = NotANumber
  Null = Null
  MalformedTags = {"en_US"}
  Text <- MCText
  Calls <- MCOneReading
  AnalysesOf <- MCAnalysesOf
  Covers <- MCCovers
INVARIANTS
  PlanIsOrdered
CHECK_DEADLOCK FALSE
