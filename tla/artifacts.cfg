\* Every file, with any one byte or its length damaged, resealed or not.
SPECIFICATION Spec
CONSTANTS
  MaxLanguages = 2
  MaxFeatures = 3
  MaxArtifactSize = 200
  Artifacts <- MCArtifacts
  Exports <- MCExports
  Compiles <- MCCompiles
  DamageBytes <- MCDamageBytes
  DamageLengths <- MCDamageLengths
INVARIANTS
  RoundTrip
  ExportIsUnderstood
  AcceptedIsCanonical
  CorruptionIsInvalid
\* A file is loaded once.
CHECK_DEADLOCK FALSE
