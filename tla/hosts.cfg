\* The C ABI's handles as a C program, le-cli and the bindings use them.
SPECIFICATION Spec
CONSTANTS
  Scale = 12
  NotANumber = NotANumber
  Null = Null
  Malformed = Malformed
  Unparsable = Unparsable
  MalformedTags = {"en_US"}
  Threads = {"t1", "t2"}
  Me = "t1"
  MaxCalls = 5
  MaxObjects = 6
  AnalysesOf <- MCAnalysesOf
  Covers <- MCCovers
  Texts <- MCTexts
  Artifacts <- MCArtifacts
  Partitions <- MCPartitions
  Languages <- MCLanguages
  OptionSets <- MCOptionSets
  RuntimeConfigs <- MCRuntimeConfigs
  PrefixConfigs <- MCPrefixConfigs
  PresentationConfigs <- MCPresentationConfigs
  CommandLines <- MCCommandLines
  FileTexts <- MCFileTexts
  FileArtifacts <- MCFileArtifacts
  Jobs <- MCJobs
INVARIANTS
  LiveExactlyWhileHeld
  AnalysisReadsBack
  ErrorsAreTheirOwn
  StagedPlanIsProcessPlan
  PrintsWhatWasAsked
CHECK_DEADLOCK FALSE
