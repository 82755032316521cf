SPECIFICATION Spec
CONSTANTS
  t1 = t1  t2 = t2  t3 = t3  p1 = p1  p2 = p2
  area = area  manifest = manifest  m1 = m1  m2 = m2  NoLane = NoLane
  Projects = {p1}
  Tasks = {t1, t2}
  Tickers = {"k1"}
  ProjectOf <- OneProject
  Rank <- RankByName
  After <- NothingAfter
  Dependencies <- NothingAfter
  RequiresPR = {}
  Areas <- DisjointAreas
  SharedAreas = {manifest}
  Weight <- UnitWeight
  Models <- NoModels
  ProjectCap <- CapTwo
  MaxParallelTasks = 2
  MaxParallelLanes = 2
  MaxAgents = 0
  MaxResidentModels = 0
  Commands = {"project add", "task create", "lane rerun"}
  Exclusive = TRUE
  Faults = FALSE
  StartAdapters = {TRUE}
  HostLimits = FALSE
  InitialStatuses = {"queued"}
  RunStatuses = {"running", "pr_created", "blocked"}
  MaxLaneNo = 2
  MaxLanes = 2
INVARIANTS OneProcessPerLane
