SPECIFICATION Spec
CONSTANTS
  t1 = t1  t2 = t2  t3 = t3  p1 = p1  p2 = p2
  area = area  manifest = manifest  m1 = m1  m2 = m2  NoLane = NoLane
  Projects = {p1}
  Tasks = {t1, t2}
  Tickers = {"k1", "k2"}
  ProjectOf <- OneProject
  Rank <- RankByName
  After <- SecondAfterFirst
  Dependencies <- NothingAfter
  RequiresPR = {}
  Areas <- DisjointAreas
  SharedAreas = {manifest}
  Weight <- UnitWeight
  Models <- NoModels
  ProjectCap <- CapTwo
  MaxParallelTasks = 2
  MaxParallelLanes = 2
  MaxAgents = 0
  MaxResidentModels = 0
  Commands = {"project add", "project remove", "task create", "lane stop"}
  Exclusive = FALSE
  Faults = FALSE
  StartAdapters = {TRUE}
  HostLimits = TRUE
  InitialStatuses = {"queued"}
  RunStatuses = {"running"}
  MaxLaneNo = 1
  MaxLanes = 2
INVARIANTS OneProcessPerLane PrerequisitesRespected
