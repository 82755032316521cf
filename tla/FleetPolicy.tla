---------------------------- MODULE FleetPolicy ----------------------------
(***************************************************************************)
(* The launch policy of the fleet control plane: which lane statuses count *)
(* as active, which tasks conflict, which dependencies hold a task back,   *)
(* and when the resource governor admits one more lane                     *)
(* (hoca/conflict_planner.py, hoca/resource_governor.py, and the statuses  *)
(* of hoca/fleet_contracts.py).                                            *)
(*                                                                         *)
(* A task's file paths are abstracted to the areas they fall in: two path  *)
(* lists overlap exactly when the tasks share an area, and SharedAreas are *)
(* the manifests, lock files and generated surfaces that serialise a whole *)
(* project.  Prefix matching of path strings is left out.                  *)
(***************************************************************************)
EXTENDS Integers, FiniteSets

CONSTANTS
  Projects,       \* project identifiers
  Tasks,          \* task identifiers
  ProjectOf,      \* the project a task is created for
  Rank,           \* scheduling order: (-priority, created_at, task_id)
  After,          \* metadata depends_on, same_project_after and blocks
  Dependencies,   \* the dependencies field, filled by task create --dependency
  RequiresPR,     \* tasks whose metadata sets requires_ready_pr
  Areas,          \* areas of the files a task names in its metadata
  SharedAreas,    \* manifest, lock-file, schema and generated areas
  Weight,         \* lane weight of a task
  Models,         \* models a task's metadata requires
  MaxParallelTasks, MaxParallelLanes, MaxAgents, MaxResidentModels,
  ProjectCap      \* max_parallel_tasks of each project

ASSUME PolicyAssumption ==
  /\ ProjectOf \in [Tasks -> Projects]
  /\ Rank \in [Tasks -> Nat]
  /\ \A t, u \in Tasks : Rank[t] = Rank[u] => t = u
  /\ After \in [Tasks -> SUBSET Tasks]
  /\ Dependencies \in [Tasks -> SUBSET Tasks]
  /\ RequiresPR \subseteq Tasks
  /\ Weight \in [Tasks -> Nat]
  /\ {MaxParallelTasks, MaxParallelLanes, MaxAgents, MaxResidentModels} \subseteq Nat
  /\ ProjectCap \in [Projects -> Nat]

ActiveLaneStatuses ==
  {"allocated", "starting", "running", "validating", "reviewing", "repairing"}

FinalLaneStatuses == {"pr_created", "ready_for_human", "blocked", "failed"}

LaneStatuses == ActiveLaneStatuses \cup FinalLaneStatuses \cup {"cleaned"}

TaskStatuses ==
  {"queued", "ready", "running", "blocked", "cancelled", "completed"}

-----------------------------------------------------------------------------
(* conflict_planner.py *)

Overlap(t, u) == Areas[t] \cap Areas[u] # {}

Serialized(t) == Areas[t] \cap SharedAreas # {}

\* Only lanes of other tasks in the same project are compared; one side
\* touching a shared area is enough to keep the two apart.
Conflict(t, u) ==
  /\ t # u
  /\ ProjectOf[t] = ProjectOf[u]
  /\ Overlap(t, u) \/ Serialized(t) \/ Serialized(u)

\* Only queued tasks have a plan, so an edge to any other task is ignored.
DependencyCycle(queued) ==
  \E loop \in (SUBSET queued) \ {{}} : \A t \in loop : After[t] \cap loop # {}

\* Mutant: tasks with prerequisites are not held back.
PrerequisitesIgnored(t, completed) == t \in completed \/ t \notin RequiresPR

\* ready_for_pr only ever holds tasks that are no longer queued, so a queued
\* task with requires_ready_pr always has the blocker "ready_pr".
DependencyLaunchable(t, completed) ==
  \/ t \in completed
  \/ After[t] \subseteq completed /\ t \notin RequiresPR

-----------------------------------------------------------------------------
(* resource_governor.py *)

\* Running lanes cost one unit each; their own weights are not looked up.
WithinAgentWeight(t, running) ==
  MaxAgents > 0 => running + Weight[t] <= MaxAgents

\* Models of the running lanes come from lane metadata, which the scheduler
\* fills with session metadata that names no model.
WithinResidentModels(t, laneModels) ==
  MaxResidentModels > 0 => Cardinality(laneModels \cup Models[t]) <= MaxResidentModels

\* Mutant: the fleet cap is compared with <=.
OneLaneTooMany(t, projectRunning, running, laneModels) ==
  /\ projectRunning < MaxParallelTasks
  /\ projectRunning < ProjectCap[ProjectOf[t]]
  /\ running <= MaxParallelLanes
  /\ WithinAgentWeight(t, running)
  /\ WithinResidentModels(t, laneModels)

CapacityAvailable(t, projectRunning, running, laneModels) ==
  /\ projectRunning < MaxParallelTasks
  /\ projectRunning < ProjectCap[ProjectOf[t]]
  /\ running < MaxParallelLanes
  /\ WithinAgentWeight(t, running)
  /\ WithinResidentModels(t, laneModels)
=============================================================================
