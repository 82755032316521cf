SPECIFICATION FairSpec
CONSTANTS
  NoLine = NoLine
  Variants = {"process", "stream"}
  Roles = {"worker", "reviewer", "openhands"}
  Engines = {"direct", "cli"}
  Lines <- MCLines
INVARIANTS
  MonitorTypeOK
  CompletedForCause
  NobodyLeftToKill
PROPERTIES
  AgentIsBounded
  MonitorReturns
CHECK_DEADLOCK FALSE
