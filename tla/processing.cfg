\* Direct calls and calls with regions, options of every version, all the
\* reading models, two policies.
SPECIFICATION Spec
CONSTANTS
  Scale = 12
  NotANumber = NotANumber
  Null = Null
  MalformedTags = {"en_US"}
  Text <- MCText
  Calls <- MCCalls
  AnalysesOf <- MCAnalysesOf
  Covers <- MCCovers
INVARIANTS
  TypeOK
  MergeIsValid
  RegionsReadAlone
  PlanIsWhatSignalsAsk
  PlanIsNormalized
  PlanKeepsTextOrder
  SegmentsArePartial
  OlderOptionsMeanNewest
\* A call is over once it has returned.
CHECK_DEADLOCK FALSE
