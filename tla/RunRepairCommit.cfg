SPECIFICATION Spec
CONSTANTS
  None = None
  MaxRounds = 2
  MaxRuns = 1
  Runners = {"profile"}
  KeepRuntime = FALSE
  AutoStage = {TRUE}
  SkipPR = {FALSE}
  Leaves = {"edit"}
  RepairLeaves = {"edit", "commit"}
  Breaks = {FALSE}
  Touches = {FALSE}
  Stops = {"completed"}
  Opinions <- FewOpinions
  ExtraRounds = {}
CHECK_DEADLOCK FALSE
INVARIANT DeliveredWasReviewed
