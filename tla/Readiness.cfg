SPECIFICATION Spec
CONSTANTS
  None = None
  Names <- MCNames
  AdapterName <- MCAdapterName
  Sources <- MCSources
  Outputs <- MCOutputs
  Workers = 3
  Fanout = TRUE
  Checks = {"tests", "lint"}
  Artifacts <- MCArtifacts
  SecretFiles = {"key"}
  HighRiskFiles = {"schema"}
  UiFiles = {"page"}
INVARIANTS
  ReadinessTypeOK
  FirstSourceWins
  NoVerdictLost
  FindingsStand
PROPERTIES
  ReadyWasReadyAtOnce
