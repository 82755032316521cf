SPECIFICATION FairSpec
CONSTANTS
  t1 = t1  t2 = t2  t3 = t3  p1 = p1  p2 = p2
  area = area  manifest = manifest  m1 = m1  m2 = m2  NoLane = NoLane
  Projects = {p1}
  Tasks = {t1, t2}
  Tickers = {"k1"}
  ProjectOf <- OneProject
  Rank <- RankByName
  After <- NothingAfter
  Dependencies <- NothingAfter
  RequiresPR = {}
  Areas <- DisjointAreas
  SharedAreas = {manifest}
  Weight <- UnitWeight
  Models <- OwnModel
  ProjectCap <- CapTwo
  MaxParallelTasks = 2
  MaxParallelLanes = 1
  MaxAgents = 0
  MaxResidentModels = 1
  Commands = {"project add", "task create", "task cancel", "task block"}
  Exclusive = FALSE
  Faults = FALSE
  StartAdapters = {TRUE}
  HostLimits = FALSE
  InitialStatuses = {"queued", "ready"}
  RunStatuses = {"running", "pr_created"}
  MaxLaneNo = 2
  MaxLanes = 2
PROPERTIES LaunchWithinCaps DecisionsStand QueuedTasksLeaveTheQueue
