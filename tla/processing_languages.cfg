\* One direct call with a model that declares its language.
SPECIFICATION Spec
CONSTANTS
  Scale = 12
  NotANumber = NotANumber
  Null = Null
  MalformedTags = {"en_US"}
  Text <- MCText
  Calls <- MCOneArtifact
  AnalysesOf <- MCAnalysesOf
  Covers <- MCCovers
INVARIANTS
  ModelRunsOnItsLanguages
CHECK_DEADLOCK FALSE
