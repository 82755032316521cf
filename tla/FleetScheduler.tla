--------------------------- MODULE FleetScheduler ---------------------------
(***************************************************************************)
(* The fleet control plane of HOCA: the registry files (projects, tasks,   *)
(* lanes, lane leases), the scheduler tick that turns queued tasks into    *)
(* lanes with a worktree and an adapter process (hoca/scheduler.py), the   *)
(* operator commands that edit the same files (hoca/cli.py), the runs the  *)
(* adapter processes leave behind, and the reconciliation that copies run  *)
(* artifacts back into lane and task records (hoca/fleet_reconcile.py).    *)
(*                                                                         *)
(* A tick reads the registry once, then handles the queued tasks of that   *)
(* snapshot one by one; everything it does to the disk or to git is a step *)
(* of its own, so that a crash, another tick or an operator command can    *)
(* fall between any two of them.  An operator command and the one pass of  *)
(* a reconciliation are single steps.                                      *)
(***************************************************************************)
EXTENDS FleetPolicy

CONSTANTS
  Tickers,        \* processes that may run FleetScheduler.tick
  Commands,       \* operator commands in use
  Exclusive,      \* TRUE: no command and no second tick starts during a tick
  Faults,         \* TRUE: ticks may crash, git and adapter starts may fail
  StartAdapters,  \* values of --start-adapters in use
  HostLimits,     \* TRUE: the budget sets memory or cpu limits
  InitialStatuses,\* values of task create --status in use
  RunStatuses,    \* statuses a run writes, as the lane status each maps to
  NoLane

CONSTANTS         \* bounds of the model
  MaxLaneNo,      \* lane numbers of one task
  MaxLanes        \* lanes created in a behaviour

ASSUME SchedulerAssumption ==
  /\ Exclusive \in BOOLEAN /\ Faults \in BOOLEAN /\ HostLimits \in BOOLEAN
  /\ StartAdapters \subseteq BOOLEAN /\ InitialStatuses \subseteq TaskStatuses
  /\ RunStatuses \subseteq LaneStatuses \ {"allocated", "starting", "cleaned"}
  /\ MaxLaneNo \in Nat \ {0} /\ MaxLanes \in Nat
  /\ NoLane \notin Tasks \X (1 .. MaxLaneNo)

VARIABLES
  projects,   \* projects.json: the registered (and active) projects
  tasks,      \* tasks.json: status and lane_ids of each task
  lanes,      \* lanes.json: status, creation stamp, worktree and session
  leases,     \* lane-leases.json: the lanes that hold a lease
  worktrees,  \* worktree directories that exist, named by lane
  runs,       \* adapter processes and the status artifact each has written
  newer,      \* pairs <<s, r>>: run s wrote an artifact later than run r
  created,    \* number of lanes created so far: the clock of the model
  tick,       \* the local variables of each tick
  cleanedOnce \* history: tasks that have had a lane with status "cleaned"

registry == <<projects, tasks, lanes>>
disk == <<leases, worktrees>>
runtime == <<runs, newer>>
vars == <<projects, tasks, lanes, leases, worktrees, runs, newer, created,
          tick, cleanedOnce>>

LaneIds == Tasks \X (1 .. MaxLaneNo)
TaskOf(l) == l[1]
ProjectOfLane(l) == ProjectOf[TaskOf(l)]
Stamps == 1 .. MaxLanes

TaskRecords == [status : TaskStatuses \cup {"absent"}, lane_ids : SUBSET LaneIds]
LaneRecords == [status : LaneStatuses \cup {"absent"}, stamp : 0 .. MaxLanes,
                worktree : BOOLEAN, session : BOOLEAN]
Runs == [lane : LaneIds \cup {NoLane}, alive : BOOLEAN,
         status : RunStatuses \cup {"none"}]

NoTask == [status |-> "absent", lane_ids |-> {}]
NoRecord == [status |-> "absent", stamp |-> 0, worktree |-> FALSE, session |-> FALSE]
NoRun == [lane |-> NoLane, alive |-> FALSE, status |-> "none"]

TaskExists(t) == tasks[t].status # "absent"
LaneExists(l) == lanes[l].status # "absent"

\* Mutant: a lane holds its slot until it is cleaned.
ActiveUntilCleaned(l) == lanes[l].status \notin {"cleaned", "absent"}

Active(l) == lanes[l].status \in ActiveLaneStatuses
ActiveLanes == {l \in LaneIds : Active(l)}
LanesOfTask(t) == {l \in LaneIds : TaskOf(l) = t /\ LaneExists(l)}

NoTick == [pc |-> "idle", adapters |-> FALSE, projects |-> {}, todo |-> {},
           records |-> [t \in Tasks |-> NoTask], active |-> {}, completed |-> {},
           running |-> {}, lane |-> NoLane, stamp |-> 0]

TickRecords ==
  [pc : {"idle", "requeued", "decide", "worktree", "lease", "create", "spawn",
         "record", "finish"},
   adapters : BOOLEAN, projects : SUBSET Projects, todo : SUBSET Tasks,
   records : [Tasks -> TaskRecords], active : SUBSET Tasks,
   completed : SUBSET Tasks, running : SUBSET LaneIds,
   lane : LaneIds \cup {NoLane}, stamp : 0 .. MaxLanes]

Idle(k) == tick[k].pc = "idle"

\* Under Exclusive the operator starts nothing while a tick is under way.
Quiet == Exclusive => \A k \in Tickers : Idle(k)

\* FleetRegistry.update_task accepts the record of t.
TaskUpdatable(t) ==
  /\ TaskExists(t)
  /\ ProjectOf[t] \in projects
  /\ \A d \in Dependencies[t] : d = t \/ TaskExists(d)

\* FleetRegistry.create_lane accepts a lane for t.
LaneRegistrable(l) ==
  /\ ~LaneExists(l)
  /\ ProjectOfLane(l) \in projects
  /\ TaskExists(TaskOf(l))

Init ==
  /\ projects = {}
  /\ tasks = [t \in Tasks |-> NoTask]
  /\ lanes = [l \in LaneIds |-> NoRecord]
  /\ leases = {} /\ worktrees = {}
  /\ runs = [s \in Stamps |-> NoRun]
  /\ newer = {}
  /\ created = 0
  /\ tick = [k \in Tickers |-> NoTick]
  /\ cleanedOnce = {}

-----------------------------------------------------------------------------
(* FleetScheduler.tick *)

\* Mutant: blocked tasks are taken up as well.
QueuedOrBlocked == {t \in Tasks : tasks[t].status \in {"queued", "blocked"}}

Queued == {t \in Tasks : tasks[t].status = "queued"}

\* The reads at the top of tick.  A dependency cycle raises, and the tick ends
\* with nothing changed.
Snapshot(a) ==
  [pc |-> "decide", adapters |-> a, projects |-> projects, todo |-> Queued,
   records |-> tasks,
   active |-> {TaskOf(l) : l \in ActiveLanes},
   completed |-> {TaskOf(l) : l \in {m \in LaneIds : lanes[m].status = "cleaned"}},
   running |-> ActiveLanes, lane |-> NoLane, stamp |-> 0]

BeginTick(k, a) ==
  /\ Idle(k) /\ Quiet
  /\ Queued # {} /\ ~DependencyCycle(Queued)
  /\ tick' = [tick EXCEPT ![k] = Snapshot(a)]
  /\ UNCHANGED <<registry, disk, runtime, created, cleanedOnce>>

\* lane rerun calls tick() itself once it has requeued the task.
BeginRerunTick(k) ==
  /\ tick[k].pc = "requeued"
  /\ tick' = [tick EXCEPT ![k] = IF DependencyCycle(Queued)
                                 THEN NoTick
                                 ELSE Snapshot(tick[k].adapters)]
  /\ UNCHANGED <<registry, disk, runtime, created, cleanedOnce>>

\* The next task in _sort_tasks order.
IsNext(k, t) ==
  /\ tick[k].pc = "decide"
  /\ t \in tick[k].todo
  /\ \A u \in tick[k].todo : Rank[t] <= Rank[u]

RunningInProject(k, p) == {l \in tick[k].running : ProjectOfLane(l) = p}

\* No lane record names a model: see FleetPolicy!WithinResidentModels.
LaneModels(k) == UNION {{} : l \in tick[k].running}

\* Mutant: only lanes launched by this tick are compared for conflicts.
ConflictsOfTickOnly(k, t) ==
  /\ t \notin tick[k].active
  /\ ProjectOf[t] \in tick[k].projects
  /\ DependencyLaunchable(t, tick[k].completed)
  /\ \A l \in tick[k].running : TaskOf(l) \notin tick[k].active => ~Conflict(t, TaskOf(l))
  /\ CapacityAvailable(t, Cardinality(RunningInProject(k, ProjectOf[t])),
                       Cardinality(tick[k].running), LaneModels(k))

\* Mutant: a task with an active lane may get another one.
AlsoActiveTasks(k, t) ==
  /\ ProjectOf[t] \in tick[k].projects
  /\ DependencyLaunchable(t, tick[k].completed)
  /\ \A l \in tick[k].running : ~Conflict(t, TaskOf(l))
  /\ CapacityAvailable(t, Cardinality(RunningInProject(k, ProjectOf[t])),
                       Cardinality(tick[k].running), LaneModels(k))

Admissible(k, t) ==
  /\ t \notin tick[k].active
  /\ ProjectOf[t] \in tick[k].projects
  /\ DependencyLaunchable(t, tick[k].completed)
  /\ \A l \in tick[k].running : ~Conflict(t, TaskOf(l))
  /\ CapacityAvailable(t, Cardinality(RunningInProject(k, ProjectOf[t])),
                       Cardinality(tick[k].running), LaneModels(k))

\* Mutant: lanes of a task are counted from zero.
LaneNoFromZero(t) == Cardinality(LanesOfTask(t))

\* _next_lane_id: the number of lane records of the task, plus one.
NextLaneNo(t) == Cardinality(LanesOfTask(t)) + 1

\* Both bounds of the model stand for a host that admits no further lane.
LaneBudgetLeft(t) == created < MaxLanes /\ NextLaneNo(t) <= MaxLaneNo

\* wait_dependency / wait_conflict / wait_capacity / block: the task stays
\* queued.  The host's memory and cpu may refuse any admissible task.
KeepWaiting(k, t) ==
  /\ IsNext(k, t)
  /\ t \notin tick[k].active
  /\ Admissible(k, t) => HostLimits \/ ~LaneBudgetLeft(t)
  /\ tick' = [tick EXCEPT ![k].todo = @ \ {t}]
  /\ UNCHANGED <<registry, disk, runtime, created, cleanedOnce>>

\* A queued task that already has an active lane is only marked running; the
\* record written is the one of the snapshot.
MarkActive(k, t) ==
  /\ IsNext(k, t)
  /\ t \in tick[k].active
  /\ TaskUpdatable(t)
  /\ tasks' = [tasks EXCEPT ![t] = [tick[k].records[t] EXCEPT !.status = "running"]]
  /\ tick' = [tick EXCEPT ![k].todo = @ \ {t}]
  /\ UNCHANGED <<projects, lanes, disk, runtime, created, cleanedOnce>>

Launch(k, t) ==
  /\ IsNext(k, t)
  /\ Admissible(k, t) /\ LaneBudgetLeft(t)
  /\ tick' = [tick EXCEPT ![k].lane = <<t, NextLaneNo(t)>>,
                          ![k].pc = IF tick[k].adapters THEN "worktree" ELSE "create"]
  /\ UNCHANGED <<registry, disk, runtime, created, cleanedOnce>>

\* Mutant: a worktree that is there already is used again.
ReuseWorktree(k) ==
  LET l == tick[k].lane IN
  /\ tick[k].pc = "worktree"
  /\ worktrees' = worktrees \cup {l}
  /\ tick' = [tick EXCEPT ![k].pc = "lease"]
  /\ UNCHANGED <<registry, leases, runtime, created, cleanedOnce>>

\* create_lease, first half: git worktree add.
CreateWorktree(k) ==
  LET l == tick[k].lane IN
  /\ tick[k].pc = "worktree"
  /\ l \notin leases /\ l \notin worktrees
  /\ worktrees' = worktrees \cup {l}
  /\ tick' = [tick EXCEPT ![k].pc = "lease"]
  /\ UNCHANGED <<registry, leases, runtime, created, cleanedOnce>>

\* create_lease, second half: the lease record.
RecordLease(k) ==
  /\ tick[k].pc = "lease"
  /\ leases' = leases \cup {tick[k].lane}
  /\ tick' = [tick EXCEPT ![k].pc = "create"]
  /\ UNCHANGED <<registry, worktrees, runtime, created, cleanedOnce>>

\* FleetRegistry.create_lane: the lane record and the task's lane_ids.
CreateLane(k) ==
  LET l == tick[k].lane IN
  /\ tick[k].pc = "create"
  /\ LaneRegistrable(l) /\ created < MaxLanes
  /\ created' = created + 1
  /\ lanes' = [lanes EXCEPT ![l] = [status |-> "allocated", stamp |-> created + 1,
                                    worktree |-> tick[k].adapters, session |-> FALSE]]
  /\ tasks' = [tasks EXCEPT ![TaskOf(l)].lane_ids = @ \cup {l}]
  /\ tick' = [tick EXCEPT ![k].stamp = created + 1,
                          ![k].pc = IF tick[k].adapters THEN "spawn" ELSE "finish"]
  /\ UNCHANGED <<projects, disk, runtime, cleanedOnce>>

\* AgentAdapter.start: the process outlives the tick (start_new_session).
SpawnAdapter(k) ==
  LET l == tick[k].lane IN
  /\ tick[k].pc = "spawn"
  /\ l \in worktrees
  /\ runs' = [runs EXCEPT ![tick[k].stamp] =
                [lane |-> l, alive |-> TRUE, status |-> "none"]]
  /\ tick' = [tick EXCEPT ![k].pc = "record"]
  /\ UNCHANGED <<registry, disk, newer, created, cleanedOnce>>

\* write_session, and update_lane with the record create_lane was given.
RecordStart(k) ==
  LET l == tick[k].lane IN
  /\ tick[k].pc = "record"
  /\ LaneExists(l) /\ TaskExists(TaskOf(l)) /\ ProjectOfLane(l) \in projects
  /\ lanes' = [lanes EXCEPT ![l] = [status |-> "running", stamp |-> tick[k].stamp,
                                    worktree |-> TRUE, session |-> TRUE]]
  /\ tick' = [tick EXCEPT ![k].pc = "finish"]
  /\ UNCHANGED <<projects, tasks, disk, runtime, created, cleanedOnce>>

\* The launched lane joins the local lists, and update_task writes the task
\* record of the snapshot with status "running".
FinishLaunch(k) ==
  LET l == tick[k].lane
      t == TaskOf(l) IN
  /\ tick[k].pc = "finish"
  /\ TaskUpdatable(t)
  /\ tasks' = [tasks EXCEPT ![t] = [tick[k].records[t] EXCEPT !.status = "running"]]
  /\ tick' = [tick EXCEPT ![k].pc = "decide", ![k].todo = @ \ {t}, ![k].stamp = 0,
                          ![k].running = @ \cup {l}, ![k].lane = NoLane]
  /\ UNCHANGED <<projects, lanes, disk, runtime, created, cleanedOnce>>

EndTick(k) ==
  /\ tick[k].pc = "decide" /\ tick[k].todo = {}
  /\ tick' = [tick EXCEPT ![k] = NoTick]
  /\ UNCHANGED <<registry, disk, runtime, created, cleanedOnce>>

\* The call the tick is about to make raises; nothing catches it in tick.
CallRaises(k) ==
  LET l == tick[k].lane IN
  CASE tick[k].pc = "decide" -> \E t \in tick[k].active : IsNext(k, t) /\ ~TaskUpdatable(t)
    [] tick[k].pc = "worktree" -> l \in leases \cup worktrees
    [] tick[k].pc = "create" -> ~LaneRegistrable(l) \/ created = MaxLanes
    [] tick[k].pc = "spawn" -> l \notin worktrees
    [] tick[k].pc = "record" ->
         ~(LaneExists(l) /\ TaskExists(TaskOf(l)) /\ ProjectOfLane(l) \in projects)
    [] tick[k].pc = "finish" -> ~TaskUpdatable(TaskOf(l))
    [] OTHER -> FALSE

\* An exception ends the tick where it stands; so do git, the adapter's Popen
\* or the host failing under Faults.
TickDies(k) ==
  /\ ~Idle(k)
  /\ CallRaises(k) \/ Faults
  /\ tick' = [tick EXCEPT ![k] = NoTick]
  /\ UNCHANGED <<registry, disk, runtime, created, cleanedOnce>>

-----------------------------------------------------------------------------
(* The runs: run-hoca-task.sh in an adapter process, seen from the control   *)
(* plane as the writer of status.json and final-state.json.                  *)

\* The status file of a run: the write makes it the latest of all artifacts.
RunWrites(s, status, alive) ==
  /\ runs[s].alive
  /\ runs' = [runs EXCEPT ![s].status = status, ![s].alive = alive]
  /\ newer' = (newer \ (Stamps \X {s}))
                \cup ({s} \X {r \in Stamps \ {s} : runs[r].status # "none"})
  /\ UNCHANGED <<registry, disk, created, tick, cleanedOnce>>

\* A run under way.  "none" stands for a status the fleet does not map (staged,
\* committed); "failed" is also what the ERR trap writes when a test or review
\* command fails, although the run then goes on with a repair.
RunReports(s, status) ==
  /\ status \in ActiveLaneStatuses \cup {"failed", "none"}
  /\ RunWrites(s, status, TRUE)

\* pr_created, blocked and failed runs, and, as "none", runs that end with no
\* changes, with a local commit or before init-status.
RunEnds(s, status) ==
  /\ status \in FinalLaneStatuses \cup {"none"}
  /\ RunWrites(s, status, FALSE)

\* A run that is killed leaves the status it wrote last.
RunKilled(s) ==
  /\ Faults
  /\ runs[s].alive
  /\ runs' = [runs EXCEPT ![s].alive = FALSE]
  /\ UNCHANGED <<registry, disk, newer, created, tick, cleanedOnce>>

-----------------------------------------------------------------------------
(* fleet_reconcile.py *)

\* Run directories are matched by lane id or task id in their name, and one
\* that started before the lane was created is skipped.
CandidateRuns(l) ==
  {s \in Stamps : /\ runs[s].status # "none"
                  /\ TaskOf(runs[s].lane) = TaskOf(l)
                  /\ s >= lanes[l].stamp}

\* Run directories are tried from the latest modification time on.
LatestRuns(l) ==
  {s \in CandidateRuns(l) : \A r \in CandidateRuns(l) : <<r, s>> \notin newer}

StaleSession(l) ==
  /\ Active(l)
  /\ lanes[l].session
  /\ ~runs[lanes[l].stamp].alive

\* sync_lane_from_artifacts: an artifact wins over the process check, and the
\* status the lane has now is not looked at.
SyncedLane(l) ==
  IF ~LaneExists(l) THEN lanes[l]
  ELSE IF LatestRuns(l) # {}
       THEN [lanes[l] EXCEPT !.status = runs[CHOOSE s \in LatestRuns(l) : TRUE].status]
       ELSE IF StaleSession(l) THEN [lanes[l] EXCEPT !.status = "blocked"] ELSE lanes[l]

SyncedLanes == [l \in LaneIds |-> SyncedLane(l)]

\* sync_task_from_lanes: a successful lane is preferred over failed ones.
SyncedTask(t, synced) ==
  LET final == {synced[l].status : l \in LanesOfTask(t)} \cap FinalLaneStatuses IN
  IF ~TaskExists(t) \/ final = {} THEN tasks[t]
  ELSE [tasks[t] EXCEPT !.status =
          IF final \cap {"pr_created", "ready_for_human"} # {} THEN "completed"
                                                              ELSE "blocked"]

\* The task index after one pass: every task in line with its lanes, or, when
\* update_task raises for one of them, only some of those it accepts.
SyncedTasks(synced) ==
  LET changed == {t \in Tasks : SyncedTask(t, synced) # tasks[t]}
      accepted == {t \in changed : TaskUpdatable(t)}
      written == IF changed = accepted THEN {accepted} ELSE SUBSET accepted IN
  {[t \in Tasks |-> IF t \in w THEN SyncedTask(t, synced) ELSE tasks[t]] : w \in written}

\* sync_registry_from_run_artifacts, run by fleet status, fleet reconcile, task
\* list, lane list and scheduler status.
Reconcile ==
  /\ Quiet
  /\ lanes' = SyncedLanes
  /\ tasks' \in SyncedTasks(SyncedLanes)
  /\ UNCHANGED <<projects, disk, runtime, created, tick, cleanedOnce>>

-----------------------------------------------------------------------------
(* Operator commands (cli.py) *)

CanRun(command) == command \in Commands /\ Quiet

ProjectAdd(p) ==
  /\ CanRun("project add") /\ p \notin projects
  /\ projects' = projects \cup {p}
  /\ UNCHANGED <<tasks, lanes, disk, runtime, created, tick, cleanedOnce>>

\* delete_project drops the tasks and lanes of the project; leases, worktrees
\* and running adapters stay.
ProjectRemove(p) ==
  /\ CanRun("project remove") /\ p \in projects
  /\ projects' = projects \ {p}
  /\ tasks' = [t \in Tasks |-> IF ProjectOf[t] = p THEN NoTask ELSE tasks[t]]
  /\ lanes' = [l \in LaneIds |-> IF ProjectOfLane(l) = p THEN NoRecord ELSE lanes[l]]
  /\ UNCHANGED <<disk, runtime, created, tick, cleanedOnce>>

TaskCreate(t, status) ==
  /\ CanRun("task create")
  /\ ProjectOf[t] \in projects /\ ~TaskExists(t)
  /\ \A d \in Dependencies[t] : TaskExists(d)
  /\ tasks' = [tasks EXCEPT ![t] = [status |-> status, lane_ids |-> {}]]
  /\ UNCHANGED <<projects, lanes, disk, runtime, created, tick, cleanedOnce>>

\* task cancel and task block.
TaskSetStatus(t, status) ==
  /\ TaskUpdatable(t)
  /\ tasks' = [tasks EXCEPT ![t].status = status]
  /\ UNCHANGED <<projects, lanes, disk, runtime, created, tick, cleanedOnce>>

TaskCancel(t) == CanRun("task cancel") /\ TaskSetStatus(t, "cancelled")

TaskBlock(t) == CanRun("task block") /\ TaskSetStatus(t, "blocked")

\* lane stop only rewrites the status; the adapter process is left alone.
LaneStop(l) ==
  /\ CanRun("lane stop") /\ LaneExists(l)
  /\ lanes' = [lanes EXCEPT ![l].status = "cleaned"]
  /\ cleanedOnce' = cleanedOnce \cup {TaskOf(l)}
  /\ UNCHANGED <<projects, tasks, disk, runtime, created, tick>>

\* _remove_lane_record and _cleanup_cleaned_lanes drop lane records with every
\* reference to them in a task's lane_ids.
WithoutLanes(taskIndex, gone) ==
  [t \in Tasks |-> [taskIndex[t] EXCEPT !.lane_ids = @ \ gone]]

\* Reconcile, release the lane's lease by force, drop the lane record, requeue
\* the task and run a tick; the tick is this process's next step.
LaneRerun(k, l, a, force, clean) ==
  LET t == TaskOf(l) IN
  /\ CanRun("lane rerun") /\ Idle(k)
  /\ LaneExists(l)
  /\ SyncedLane(l).status \in {"pr_created", "ready_for_human"} => force
  /\ \E synced \in SyncedTasks(SyncedLanes) :
       LET kept == WithoutLanes(synced, {l}) IN
       IF TaskUpdatable(t)
       THEN /\ tasks' = [kept EXCEPT ![t].status = "queued"]
            /\ tick' = [tick EXCEPT ![k].pc = "requeued", ![k].adapters = a]
       ELSE tasks' = kept /\ UNCHANGED tick
  /\ lanes' = [SyncedLanes EXCEPT ![l] = NoRecord]
  /\ leases' = leases \ {l}
  /\ worktrees' = IF l \in leases \/ (clean /\ lanes[l].worktree)
                  THEN worktrees \ {l} ELSE worktrees
  /\ UNCHANGED <<projects, runtime, created, cleanedOnce>>

\* Mutant: leases are released while the lane records stay.
CleanupOfLeases ==
  LET cleaned == {l \in LaneIds : lanes[l].status = "cleaned"}
      released == {l \in leases \cap cleaned : ProjectOfLane(l) \in projects} IN
  /\ CanRun("fleet cleanup") /\ cleaned # {}
  /\ leases' = leases \ released
  /\ worktrees' = worktrees \ released
  /\ UNCHANGED <<registry, runtime, created, tick, cleanedOnce>>

\* _cleanup_cleaned_lanes.
Cleanup ==
  LET cleaned == {l \in LaneIds : lanes[l].status = "cleaned"}
      released == {l \in leases \cap cleaned : ProjectOfLane(l) \in projects} IN
  /\ CanRun("fleet cleanup") /\ cleaned # {}
  /\ leases' = leases \ released
  /\ worktrees' = worktrees \ released
  /\ lanes' = [l \in LaneIds |-> IF l \in cleaned THEN NoRecord ELSE lanes[l]]
  /\ tasks' = WithoutLanes(tasks, cleaned)
  /\ UNCHANGED <<projects, runtime, created, tick, cleanedOnce>>

-----------------------------------------------------------------------------
TickStep(k) ==
  \/ \E a \in StartAdapters : BeginTick(k, a)
  \/ BeginRerunTick(k)
  \/ \E t \in Tasks : KeepWaiting(k, t) \/ MarkActive(k, t) \/ Launch(k, t)
  \/ CreateWorktree(k) \/ RecordLease(k) \/ CreateLane(k)
  \/ SpawnAdapter(k) \/ RecordStart(k) \/ FinishLaunch(k)
  \/ EndTick(k) \/ TickDies(k)

RunStep(s) ==
  \/ \E status \in RunStatuses \cup {"none"} : RunReports(s, status) \/ RunEnds(s, status)
  \/ RunKilled(s)

Operator ==
  \/ \E p \in Projects : ProjectAdd(p) \/ ProjectRemove(p)
  \/ \E t \in Tasks : \/ \E status \in InitialStatuses : TaskCreate(t, status)
                      \/ TaskCancel(t)
                      \/ TaskBlock(t)
  \/ \E l \in LaneIds : LaneStop(l)
  \/ \E k \in Tickers, l \in LaneIds, a \in StartAdapters, force, clean \in BOOLEAN :
       LaneRerun(k, l, a, force, clean)
  \/ Cleanup

Next ==
  \/ \E k \in Tickers : TickStep(k)
  \/ \E s \in Stamps : RunStep(s)
  \/ Reconcile
  \/ Operator

Spec == Init /\ [][Next]_vars

-----------------------------------------------------------------------------
(* Properties *)

\* Every record keeps its shape: in particular the lane numbers handed out stay
\* within the bound, and no status outside the contract is ever written.
TypeOK ==
  /\ projects \subseteq Projects
  /\ tasks \in [Tasks -> TaskRecords]
  /\ lanes \in [LaneIds -> LaneRecords]
  /\ leases \subseteq LaneIds /\ worktrees \subseteq LaneIds
  /\ runs \in [Stamps -> Runs]
  /\ newer \subseteq Stamps \X Stamps
  /\ created \in 0 .. MaxLanes
  /\ tick \in [Tickers -> TickRecords]
  /\ cleanedOnce \subseteq Tasks

\* Nothing keeps t back: its prerequisites have each had a cleaned lane.
Prepared(t) == After[t] \subseteq cleanedOnce /\ t \notin RequiresPR

\* A lane only ever exists for a task whose prerequisites had been cleaned,
\* whatever ticks, commands and crashes interleave: the tick decides from a
\* snapshot of the lanes, and takes a task that has a cleaned lane of its own
\* without looking at its prerequisites again.
PrerequisitesRespected == \A l \in LaneIds : LaneExists(l) => Prepared(TaskOf(l))

Starts(l) == ~LaneExists(l) /\ lanes'[l].status # "absent"

\* The lane that starts fits the fleet cap and the cap of its project,
\* counting every lane that is active at that moment and not only the ones
\* the tick has in its list.
FitsCaps(l) ==
  LET running == {m \in LaneIds : lanes'[m].status \in ActiveLaneStatuses} IN
  /\ Cardinality(running) <= MaxParallelLanes
  /\ Cardinality({m \in running : ProjectOfLane(m) = ProjectOfLane(l)})
       <= ProjectCap[ProjectOfLane(l)]

LaunchWithinCaps == [][\A l \in LaneIds : Starts(l) => FitsCaps(l)]_vars

\* A tick never starts a second lane of a task that still has an active one,
\* also when an earlier tick died before it marked the task running.
OnlyIdleTasksLaunch ==
  [][\A l \in LaneIds : Starts(l) => \A m \in LanesOfTask(TaskOf(l)) : ~Active(m)]_vars

\* A lane never starts next to an active lane whose task claims an overlapping
\* area of the same project.
ConflictingLanesNeverStart ==
  [][\A l \in LaneIds : Starts(l) => \A m \in ActiveLanes : ~Conflict(TaskOf(l), TaskOf(m))]_vars

\* Neither queued nor running, and no tick under way has the task before it.
Settled(t) ==
  /\ tasks[t].status \notin {"queued", "running", "absent"}
  /\ \A k \in Tickers : t \notin tick[k].todo

\* What an operator or a reconciliation decided about a task stands, however
\* many ticks interleave, until somebody queues the task again or removes it:
\* it neither turns to running nor gets a lane.  The code keeps this promise
\* only once no tick under way has the task left to handle: such a tick writes
\* back the record it read at its start, as running, over a cancel or a block
\* made since.
DecisionsStand ==
  [][/\ \A t \in Tasks : Settled(t) =>
          Settled(t)' \/ tasks'[t].status \in {"queued", "absent"}
     /\ \A l \in LaneIds : Starts(l) => ~Settled(TaskOf(l))]_vars

\* A lane record that names a worktree is backed by its lease and directory.
LaneKeepsWorktree ==
  \A l \in LaneIds :
    LaneExists(l) /\ lanes[l].worktree => l \in leases /\ l \in worktrees

\* Two live adapter processes never work in the worktree of one lane.
OneProcessPerLane ==
  \A s, r \in Stamps :
    runs[s].alive /\ runs[r].alive /\ runs[s].lane = runs[r].lane => s = r

-----------------------------------------------------------------------------
(* Liveness *)

\* The scheduler loop keeps ticking and a started tick keeps going; every run
\* ends (rounds, commands and monitors are bounded); somebody keeps looking at
\* the fleet, and each look reconciles.
Fairness ==
  /\ \A k \in Tickers : WF_vars(TickStep(k))
  /\ \A s \in Stamps :
       WF_vars(\E status \in RunStatuses \cup {"none"} : RunEnds(s, status))
  /\ WF_vars(Reconcile)

FairSpec == Spec /\ Fairness

\* A queued task does not wait for ever: it is launched once lanes, caps and
\* conflicts make room, or an operator takes it off the queue.
QueuedTasksLeaveTheQueue ==
  \A t \in Tasks : tasks[t].status = "queued" ~> tasks[t].status # "queued"
=============================================================================
