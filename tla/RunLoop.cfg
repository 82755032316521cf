SPECIFICATION FairSpec
CONSTANTS
  None = None
  MaxRounds = 2
  MaxRuns = 2
  Runners = {"direct", "profile", "cli"}
  KeepRuntime = FALSE
  AutoStage = {TRUE, FALSE}
  SkipPR = {TRUE, FALSE}
  Leaves = {"nothing", "edit", "stage", "commit", "side"}
  RepairLeaves = {"nothing", "edit", "stage", "revert", "side"}
  Breaks = {FALSE}
  Touches = {TRUE, FALSE}
  Stops = {"completed", "stall", "dangerous_command", "secret_access"}
  Opinions <- AllOpinions
  ExtraRounds = {1, 5}
CHECK_DEADLOCK FALSE
INVARIANTS TypeOK DeliveredWasReviewed DeliveredWasTested ResidueOnlyInDraft StoppedWorkStays HonestStatus
PROPERTIES RunsEnd ReleasesWhatWasApproved
