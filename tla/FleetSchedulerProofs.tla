------------------------ MODULE FleetSchedulerProofs ------------------------
(***************************************************************************)
(* Theorems about FleetScheduler for every choice of tasks, projects, lane *)
(* bounds, policies and tickers.                                           *)
(*                                                                         *)
(* TypeCorrect: the typing of the registry, the disk, the runs and the     *)
(* ticks, strengthened by Busy: a tick that is past its decision names the *)
(* lane it is creating.                                                    *)
(* Prerequisites: a lane only exists for a task whose prerequisites have   *)
(* been cleaned, strengthened over the snapshots and decisions of ticks.   *)
(* NoConflictStarts, OneActiveLanePerLaunch, CapsHoldAtLaunch,             *)
(* WorktreeKept: what a tick does when nothing interleaves with it, from   *)
(* one invariant, SoleInv, on what its snapshot still says of the registry.*)
(* DecisionStands: what ticks leave alone, also when they interleave.      *)
(* OneProcess: one live process in a worktree, also when ticks interleave. *)
(***************************************************************************)
EXTENDS FleetScheduler, FiniteSetTheorems, TLAPS

LaunchSteps == {"worktree", "lease", "create", "spawn", "record", "finish"}

\* A tick past Launch holds the identifier of its lane, and past CreateLane
\* the lane's stamp.
Busy ==
  \A k \in Tickers :
    /\ tick[k].pc \in LaunchSteps => tick[k].lane \in LaneIds
    /\ tick[k].pc \in {"spawn", "record"} => tick[k].stamp \in Stamps

TypeInv == TypeOK /\ Busy

-----------------------------------------------------------------------------
\* The lane number _next_lane_id derives from the lane count is a number.
LEMMA NextLaneNoIsNat == ASSUME NEW t \in Tasks PROVE NextLaneNo(t) \in Nat \ {0}
<1>1. IsFiniteSet({t} \X (1 .. MaxLaneNo))
  <2>1. IsFiniteSet(1 .. MaxLaneNo)
    BY FS_Interval, SchedulerAssumption
  <2>2. IsFiniteSet({t})
    BY FS_Singleton
  <2> QED
    BY <2>1, <2>2, FS_Product
<1>2. LanesOfTask(t) \subseteq {t} \X (1 .. MaxLaneNo)
  BY DEF LanesOfTask, LaneIds, TaskOf
<1>3. Cardinality(LanesOfTask(t)) \in Nat
  BY <1>1, <1>2, FS_Subset, FS_CardinalityType
<1> QED
  BY <1>3 DEF NextLaneNo

\* Reconciliation keeps lane records well-formed, and neither creates, removes
\* nor cleans a lane.
LEMMA SyncedLaneType ==
  ASSUME TypeOK, NEW l \in LaneIds
  PROVE  /\ SyncedLane(l) \in LaneRecords
         /\ SyncedLane(l).status = "absent" <=> lanes[l].status = "absent"
         /\ SyncedLane(l).status = "cleaned" => lanes[l].status = "cleaned"
<1>1. lanes[l] \in LaneRecords
  BY DEF TypeOK
<1>2. CASE ~LaneExists(l)
  BY <1>1, <1>2 DEF SyncedLane, LaneExists
<1>3. CASE LaneExists(l) /\ LatestRuns(l) # {}
  <2> DEFINE s == CHOOSE r \in LatestRuns(l) : TRUE
  <2>1. s \in LatestRuns(l)
    BY <1>3
  <2>2. s \in Stamps /\ runs[s].status # "none"
    BY <2>1 DEF LatestRuns, CandidateRuns
  <2>3. runs[s].status \in RunStatuses
    BY <2>2 DEF TypeOK, Runs
  <2>4. runs[s].status \in LaneStatuses \ {"cleaned", "absent"}
    BY <2>3, SchedulerAssumption
       DEF LaneStatuses, ActiveLaneStatuses, FinalLaneStatuses
  <2>5. SyncedLane(l) = [lanes[l] EXCEPT !.status = runs[s].status]
    BY <1>3 DEF SyncedLane
  <2> QED
    BY <1>1, <1>3, <2>4, <2>5 DEF LaneRecords, LaneExists
<1>4. CASE LaneExists(l) /\ LatestRuns(l) = {}
  BY <1>1, <1>4 DEF SyncedLane, LaneExists, LaneRecords, LaneStatuses, FinalLaneStatuses
<1> QED
  BY <1>2, <1>3, <1>4

\* So does it keep the task index well-formed.
LEMMA SyncedTasksType ==
  ASSUME TypeOK, NEW index \in SyncedTasks(SyncedLanes)
  PROVE  index \in [Tasks -> TaskRecords]
<1>1. ASSUME NEW t \in Tasks PROVE SyncedTask(t, SyncedLanes) \in TaskRecords
  BY <1>1 DEF SyncedTask, TypeOK, TaskRecords, TaskStatuses
<1>2. PICK w \in SUBSET Tasks :
        index = [t \in Tasks |-> IF t \in w THEN SyncedTask(t, SyncedLanes) ELSE tasks[t]]
  BY DEF SyncedTasks
<1> QED
  BY <1>1, <1>2 DEF TypeOK

-----------------------------------------------------------------------------
\* The initial states are well-typed.
LEMMA TypeInit == Init => TypeInv
<1> SUFFICES ASSUME Init PROVE TypeInv
  OBVIOUS
<1>1. NoTask \in TaskRecords
  BY DEF NoTask, TaskRecords
<1>2. NoRecord \in LaneRecords
  BY SchedulerAssumption DEF NoRecord, LaneRecords
<1>3. NoRun \in Runs
  BY DEF NoRun, Runs
<1>4. NoTick \in TickRecords
  BY <1>1, SchedulerAssumption DEF NoTick, TickRecords
<1> QED
  BY <1>1, <1>2, <1>3, <1>4, SchedulerAssumption
     DEF Init, TypeInv, TypeOK, Busy, NoTick, LaunchSteps

\* Replacing the local variables of one tick by a well-formed record.
LEMMA TickUpdate ==
  ASSUME TypeInv, NEW k \in Tickers, NEW r \in TickRecords,
         r.pc \in LaunchSteps => r.lane \in LaneIds,
         r.pc \in {"spawn", "record"} => r.stamp \in Stamps,
         tick' = [tick EXCEPT ![k] = r]
  PROVE  tick' \in [Tickers -> TickRecords] /\ Busy'
  BY DEF TypeInv, TypeOK, Busy

\* The record a tick writes back for a task.
LEMMA RunningRecord ==
  ASSUME NEW r \in TickRecords, NEW t \in Tasks
  PROVE  [r.records[t] EXCEPT !.status = "running"] \in TaskRecords
<1>1. r.records[t] \in TaskRecords
  BY DEF TickRecords
<1> QED
  BY <1>1 DEF TaskRecords, TaskStatuses

\* The steps of a tick keep the typing.
LEMMA TypeTick ==
  ASSUME TypeInv, NEW k \in Tickers, TickStep(k)
  PROVE  TypeInv'
<1> USE DEF TypeInv, registry, disk, runtime
<1> DEFINE me == tick[k]
<1>0. me \in TickRecords /\ tick \in [Tickers -> TickRecords]
  BY DEF TypeOK
<1>1. NoTick \in TickRecords /\ NoTick.pc = "idle"
  BY SchedulerAssumption DEF NoTick, TickRecords, NoTask, TaskRecords
<1>2. ASSUME NEW a \in BOOLEAN PROVE Snapshot(a) \in TickRecords /\ Snapshot(a).pc = "decide"
  BY <1>2, SchedulerAssumption
     DEF Snapshot, TickRecords, Queued, ActiveLanes, LaneIds, TaskOf, TypeOK
<1>3. ASSUME NEW a \in StartAdapters, BeginTick(k, a) PROVE TypeInv'
  <2>1. Snapshot(a) \in TickRecords /\ Snapshot(a).pc = "decide"
    BY <1>2, SchedulerAssumption
  <2> QED
    BY <1>3, <2>1, TickUpdate DEF BeginTick, TypeOK, LaunchSteps
<1>4. CASE BeginRerunTick(k)
  <2>1. tick[k].adapters \in BOOLEAN
    BY <1>0 DEF TickRecords
  <2> QED
    BY <1>1, <1>2, <1>4, <2>1, TickUpdate DEF BeginRerunTick, TypeOK, LaunchSteps
<1>5. ASSUME NEW t \in Tasks, KeepWaiting(k, t) PROVE TypeInv'
  <2> DEFINE r == [me EXCEPT !.todo = @ \ {t}]
  <2>1. r \in TickRecords /\ r.pc = "decide"
    BY <1>0, <1>5 DEF TickRecords, KeepWaiting, IsNext
  <2>2. tick' = [tick EXCEPT ![k] = r]
    BY <1>5 DEF KeepWaiting
  <2> QED
    BY <1>5, <2>1, <2>2, TickUpdate DEF KeepWaiting, TypeOK, LaunchSteps
<1>6. ASSUME NEW t \in Tasks, MarkActive(k, t) PROVE TypeInv'
  <2> DEFINE r == [me EXCEPT !.todo = @ \ {t}]
  <2>1. r \in TickRecords /\ r.pc = "decide"
    BY <1>0, <1>6 DEF TickRecords, MarkActive, IsNext
  <2>2. tick' = [tick EXCEPT ![k] = r]
    BY <1>6 DEF MarkActive
  <2>3. tasks' \in [Tasks -> TaskRecords]
    BY <1>0, <1>6, RunningRecord DEF MarkActive, TypeOK
  <2> QED
    BY <1>6, <2>1, <2>2, <2>3, TickUpdate DEF MarkActive, TypeOK, LaunchSteps
<1>7. ASSUME NEW t \in Tasks, Launch(k, t) PROVE TypeInv'
  <2> DEFINE r == [me EXCEPT !.lane = <<t, NextLaneNo(t)>>,
                             !.pc = IF me.adapters THEN "worktree" ELSE "create"]
  <2>1. <<t, NextLaneNo(t)>> \in LaneIds
    BY <1>7, NextLaneNoIsNat, SchedulerAssumption DEF Launch, LaneBudgetLeft, LaneIds
  <2>2. r \in TickRecords /\ r.pc \in {"worktree", "create"} /\ r.lane \in LaneIds
    BY <1>0, <2>1 DEF TickRecords
  <2>3. tick' = [tick EXCEPT ![k] = r]
    BY <1>7 DEF Launch
  <2> QED
    BY <1>7, <2>2, <2>3, TickUpdate DEF Launch, TypeOK
<1>8. CASE CreateWorktree(k)
  <2> DEFINE r == [me EXCEPT !.pc = "lease"]
  <2>1. me.lane \in LaneIds
    BY <1>8 DEF CreateWorktree, Busy, LaunchSteps
  <2>2. r \in TickRecords /\ r.pc = "lease" /\ r.lane = me.lane
    BY <1>0 DEF TickRecords
  <2>3. tick' = [tick EXCEPT ![k] = r]
    BY <1>8 DEF CreateWorktree
  <2> QED
    BY <1>8, <2>1, <2>2, <2>3, TickUpdate DEF CreateWorktree, TypeOK
<1>9. CASE RecordLease(k)
  <2> DEFINE r == [me EXCEPT !.pc = "create"]
  <2>1. me.lane \in LaneIds
    BY <1>9 DEF RecordLease, Busy, LaunchSteps
  <2>2. r \in TickRecords /\ r.pc = "create" /\ r.lane = me.lane
    BY <1>0 DEF TickRecords
  <2>3. tick' = [tick EXCEPT ![k] = r]
    BY <1>9 DEF RecordLease
  <2> QED
    BY <1>9, <2>1, <2>2, <2>3, TickUpdate DEF RecordLease, TypeOK
<1>10. CASE CreateLane(k)
  <2> DEFINE r == [me EXCEPT !.stamp = created + 1,
                             !.pc = IF me.adapters THEN "spawn" ELSE "finish"]
  <2>1. me.lane \in LaneIds /\ TaskOf(me.lane) \in Tasks
    BY <1>10 DEF CreateLane, Busy, LaunchSteps, LaneIds, TaskOf
  <2>2. created + 1 \in Stamps /\ created + 1 \in 0 .. MaxLanes
    BY <1>10, SchedulerAssumption DEF CreateLane, TypeOK, Stamps
  <2>3. /\ r \in TickRecords /\ r.pc \in {"spawn", "finish"}
        /\ r.lane = me.lane /\ r.stamp = created + 1
    BY <1>0, <2>2 DEF TickRecords
  <2>4. tick' = [tick EXCEPT ![k] = r]
    BY <1>10 DEF CreateLane
  <2>5. me.adapters \in BOOLEAN
    BY <1>0 DEF TickRecords
  <2>6. lanes' \in [LaneIds -> LaneRecords]
    BY <1>10, <2>2, <2>5
       DEF CreateLane, TypeOK, LaneRecords, LaneStatuses, ActiveLaneStatuses
  <2>7. tasks' \in [Tasks -> TaskRecords]
    BY <1>10, <2>1 DEF CreateLane, TypeOK, TaskRecords
  <2>8. tick' \in [Tickers -> TickRecords] /\ Busy'
    BY <2>1, <2>2, <2>3, <2>4, TickUpdate
  <2> QED
    BY <1>10, <2>2, <2>6, <2>7, <2>8 DEF CreateLane, TypeOK
<1>11. CASE SpawnAdapter(k)
  <2> DEFINE r == [me EXCEPT !.pc = "record"]
  <2>1. me.lane \in LaneIds /\ me.stamp \in Stamps
    BY <1>11 DEF SpawnAdapter, Busy, LaunchSteps
  <2>2. r \in TickRecords /\ r.lane = me.lane /\ r.stamp = me.stamp
    BY <1>0 DEF TickRecords
  <2>3. tick' = [tick EXCEPT ![k] = r]
    BY <1>11 DEF SpawnAdapter
  <2>4. runs' \in [Stamps -> Runs]
    BY <1>11, <2>1 DEF SpawnAdapter, TypeOK, Runs
  <2> QED
    BY <1>11, <2>1, <2>2, <2>3, <2>4, TickUpdate DEF SpawnAdapter, TypeOK
<1>12. CASE RecordStart(k)
  <2> DEFINE r == [me EXCEPT !.pc = "finish"]
  <2>1. me.lane \in LaneIds /\ me.stamp \in Stamps /\ me.stamp \in 0 .. MaxLanes
    BY <1>0, <1>12 DEF RecordStart, Busy, LaunchSteps, TickRecords
  <2>2. r \in TickRecords /\ r.pc = "finish" /\ r.lane = me.lane
    BY <1>0 DEF TickRecords
  <2>3. tick' = [tick EXCEPT ![k] = r]
    BY <1>12 DEF RecordStart
  <2>4. lanes' \in [LaneIds -> LaneRecords]
    BY <1>12, <2>1 DEF RecordStart, TypeOK, LaneRecords, LaneStatuses, ActiveLaneStatuses
  <2> QED
    BY <1>12, <2>1, <2>2, <2>3, <2>4, TickUpdate DEF RecordStart, TypeOK
<1>13. CASE FinishLaunch(k)
  <2> DEFINE t == TaskOf(me.lane)
             r == [me EXCEPT !.pc = "decide", !.todo = @ \ {t}, !.stamp = 0,
                             !.running = @ \cup {me.lane}, !.lane = NoLane]
  <2>1. me.lane \in LaneIds /\ t \in Tasks
    BY <1>13 DEF FinishLaunch, Busy, LaunchSteps, LaneIds, TaskOf
  <2>2. r \in TickRecords /\ r.pc = "decide"
    <3>1. me.todo \ {t} \in SUBSET Tasks /\ me.running \cup {me.lane} \in SUBSET LaneIds
      BY <1>0, <2>1 DEF TickRecords
    <3>2. 0 \in 0 .. MaxLanes
      BY SchedulerAssumption
    <3> QED
      BY <1>0, <3>1, <3>2 DEF TickRecords
  <2>3. tick' = [tick EXCEPT ![k] = r]
    BY <1>13 DEF FinishLaunch
  <2>4. tasks' \in [Tasks -> TaskRecords]
    BY <1>0, <1>13, <2>1, RunningRecord DEF FinishLaunch, TypeOK
  <2> QED
    BY <1>13, <2>2, <2>3, <2>4, TickUpdate DEF FinishLaunch, TypeOK, LaunchSteps
<1>14. CASE EndTick(k)
  BY <1>1, <1>14, TickUpdate DEF EndTick, TypeOK, LaunchSteps
<1>15. CASE TickDies(k)
  BY <1>1, <1>15, TickUpdate DEF TickDies, TypeOK, LaunchSteps
<1> QED
  BY <1>3, <1>4, <1>5, <1>6, <1>7, <1>8, <1>9, <1>10, <1>11, <1>12, <1>13,
     <1>14, <1>15 DEF TickStep

\* An absent lane is a well-formed record.
LEMMA NoRecordType == NoRecord \in LaneRecords
  BY SchedulerAssumption DEF NoRecord, LaneRecords

\* Removing lane references keeps the task index well-formed.
LEMMA WithoutLanesType ==
  ASSUME NEW index \in [Tasks -> TaskRecords], NEW gone
  PROVE  WithoutLanes(index, gone) \in [Tasks -> TaskRecords]
  BY DEF WithoutLanes, TaskRecords

\* The steps of the runs keep the typing.
LEMMA TypeRun ==
  ASSUME TypeInv, NEW s \in Stamps, RunStep(s)
  PROVE  TypeInv'
<1> USE DEF TypeInv, TypeOK, Busy, registry, disk
<1>1. ASSUME NEW status \in RunStatuses \cup {"none"}, NEW alive \in BOOLEAN,
             RunWrites(s, status, alive)
      PROVE  TypeInv'
  <2>1. runs' \in [Stamps -> Runs]
    <3>1. [runs[s] EXCEPT !.status = status, !.alive = alive] \in Runs
      BY DEF Runs
    <3> QED
      BY <1>1, <3>1 DEF RunWrites
  <2>2. newer' \subseteq Stamps \X Stamps
    BY <1>1 DEF RunWrites
  <2> QED
    BY <1>1, <2>1, <2>2 DEF RunWrites
<1>2. CASE RunKilled(s)
  BY <1>2 DEF RunKilled, Runs
<1> QED
  BY <1>1, <1>2 DEF RunStep, RunReports, RunEnds

\* Reconciliation keeps the typing.
LEMMA TypeReconcile == ASSUME TypeInv, Reconcile PROVE TypeInv'
<1>1. SyncedLanes \in [LaneIds -> LaneRecords]
  BY SyncedLaneType DEF SyncedLanes, TypeInv
<1>2. tasks' \in [Tasks -> TaskRecords]
  BY SyncedTasksType DEF Reconcile, TypeInv
<1> QED
  BY <1>1, <1>2 DEF Reconcile, TypeInv, TypeOK, Busy, disk, runtime

\* The operator commands keep the typing.
LEMMA TypeOperator == ASSUME TypeInv, Operator PROVE TypeInv'
<1> USE DEF TypeInv, Busy, disk, runtime
<1>1. ASSUME NEW p \in Projects, ProjectAdd(p) PROVE TypeInv'
  BY <1>1 DEF ProjectAdd, TypeOK
<1>2. ASSUME NEW p \in Projects, ProjectRemove(p) PROVE TypeInv'
  <2>1. tasks' \in [Tasks -> TaskRecords]
    BY <1>2 DEF ProjectRemove, TypeOK, NoTask, TaskRecords
  <2>2. lanes' \in [LaneIds -> LaneRecords]
    BY <1>2, NoRecordType DEF ProjectRemove, TypeOK
  <2> QED
    BY <1>2, <2>1, <2>2 DEF ProjectRemove, TypeOK
<1>3. ASSUME NEW t \in Tasks, NEW status \in InitialStatuses, TaskCreate(t, status)
      PROVE  TypeInv'
  BY <1>3, SchedulerAssumption DEF TaskCreate, TypeOK, TaskRecords
<1>4. ASSUME NEW t \in Tasks, TaskCancel(t) \/ TaskBlock(t) PROVE TypeInv'
  BY <1>4 DEF TaskCancel, TaskBlock, TaskSetStatus, TypeOK, TaskRecords, TaskStatuses
<1>5. ASSUME NEW l \in LaneIds, LaneStop(l) PROVE TypeInv'
  <2>1. TaskOf(l) \in Tasks
    BY DEF LaneIds, TaskOf
  <2>2. lanes' \in [LaneIds -> LaneRecords]
    BY <1>5 DEF LaneStop, TypeOK, LaneRecords, LaneStatuses
  <2> QED
    BY <1>5, <2>1, <2>2 DEF LaneStop, TypeOK
<1>6. ASSUME NEW k \in Tickers, NEW l \in LaneIds, NEW a \in StartAdapters,
             NEW force \in BOOLEAN, NEW clean \in BOOLEAN,
             LaneRerun(k, l, a, force, clean)
      PROVE  TypeInv'
  <2>1. TaskOf(l) \in Tasks
    BY DEF LaneIds, TaskOf
  <2>2. lanes' \in [LaneIds -> LaneRecords]
    <3>1. SyncedLanes \in [LaneIds -> LaneRecords]
      BY SyncedLaneType DEF SyncedLanes
    <3> QED
      BY <1>6, <3>1, NoRecordType DEF LaneRerun
  <2>3. leases' \subseteq LaneIds /\ worktrees' \subseteq LaneIds
    BY <1>6 DEF LaneRerun, TypeOK
  <2>4. PICK synced \in SyncedTasks(SyncedLanes) :
          LET kept == WithoutLanes(synced, {l}) IN
          \/ /\ tasks' = [kept EXCEPT ![TaskOf(l)].status = "queued"]
             /\ tick' = [tick EXCEPT ![k].pc = "requeued", ![k].adapters = a]
          \/ tasks' = kept /\ tick' = tick
    BY <1>6 DEF LaneRerun
  <2> DEFINE kept == WithoutLanes(synced, {l})
             r == [tick[k] EXCEPT !.pc = "requeued", !.adapters = a]
  <2>5. kept \in [Tasks -> TaskRecords]
    BY SyncedTasksType, WithoutLanesType
  <2>6. [kept EXCEPT ![TaskOf(l)].status = "queued"] \in [Tasks -> TaskRecords]
    BY <2>1, <2>5 DEF TaskRecords, TaskStatuses
  <2>7. r \in TickRecords /\ r.pc = "requeued"
    <3>1. tick[k] \in TickRecords /\ a \in BOOLEAN
      BY SchedulerAssumption DEF TypeOK
    <3> QED
      BY <3>1 DEF TickRecords
  <2>8. tick' = [tick EXCEPT ![k] = r] \/ tick' = tick
    BY <2>4
  <2>9. tick' \in [Tickers -> TickRecords] /\ Busy'
    BY <2>7, <2>8, TickUpdate DEF TypeOK, LaunchSteps
  <2>10. tasks' \in [Tasks -> TaskRecords]
    BY <2>4, <2>5, <2>6
  <2> QED
    BY <1>6, <2>2, <2>3, <2>9, <2>10 DEF LaneRerun, TypeOK
<1>7. CASE Cleanup
  <2>1. lanes' \in [LaneIds -> LaneRecords]
    BY <1>7, NoRecordType DEF Cleanup, TypeOK
  <2>2. tasks' \in [Tasks -> TaskRecords]
    BY <1>7, WithoutLanesType DEF Cleanup, TypeOK
  <2> QED
    BY <1>7, <2>1, <2>2 DEF Cleanup, TypeOK
<1> QED
  BY <1>1, <1>2, <1>3, <1>4, <1>5, <1>6, <1>7 DEF Operator

\* The registry, the disk, the runs and the ticks keep their types: whatever
\* ticks, runs, commands and crashes interleave, every record on disk is one
\* the code can read back, and a tick in the middle of a launch names its lane.
THEOREM TypeCorrect == Spec => []TypeOK
<1>1. Init => TypeInv
  BY TypeInit
<1>2. TypeInv /\ [Next]_vars => TypeInv'
  <2> SUFFICES ASSUME TypeInv, [Next]_vars PROVE TypeInv'
    OBVIOUS
  <2>1. CASE UNCHANGED vars
    BY <2>1 DEF vars, TypeInv, TypeOK, Busy
  <2>2. CASE Next
    BY <2>2, TypeTick, TypeRun, TypeReconcile, TypeOperator DEF Next
  <2> QED
    BY <2>1, <2>2
<1>3. TypeInv => TypeOK
  BY DEF TypeInv
<1> QED
  BY <1>1, <1>2, <1>3, PTL DEF Spec

-----------------------------------------------------------------------------
(* A lane exists only for a prepared task.  The lanes alone do not say why:  *)
(* a tick trusts its snapshot of the cleaned lanes, it launches a task that  *)
(* has a cleaned lane of its own unseen, and a lane it decided on appears    *)
(* several steps later.  So the invariant also speaks of the tasks that were *)
(* ever cleaned, of every snapshot, and of every launch under way.           *)

CleanedPrepared == \A t \in cleanedOnce : Prepared(t)
CleanedRemembered == \A l \in LaneIds : lanes[l].status = "cleaned" => TaskOf(l) \in cleanedOnce
SnapshotsRemembered == \A k \in Tickers : tick[k].completed \subseteq cleanedOnce
LaunchesPrepared ==
  \A k \in Tickers : tick[k].pc \in LaunchSteps => Prepared(TaskOf(tick[k].lane))

PreparedInv ==
  /\ PrerequisitesRespected
  /\ CleanedPrepared
  /\ CleanedRemembered
  /\ SnapshotsRemembered
  /\ LaunchesPrepared

\* What the policy admits from a snapshot of cleaned lanes is prepared.
LEMMA LaunchablePrepared ==
  ASSUME CleanedPrepared, NEW t \in Tasks, NEW completed \in SUBSET cleanedOnce,
         DependencyLaunchable(t, completed)
  PROVE  Prepared(t)
  BY DEF CleanedPrepared, DependencyLaunchable, Prepared

\* The steps of a tick keep the invariant: its snapshot only holds cleaned lanes.
LEMMA PreparedTick ==
  ASSUME TypeInv, PreparedInv, NEW k \in Tickers, TickStep(k)
  PROVE  PreparedInv'
<1> USE DEF PreparedInv, CleanedPrepared, registry, disk, runtime
<1>0. tick \in [Tickers -> TickRecords]
  BY DEF TypeInv, TypeOK
<1>1. cleanedOnce' = cleanedOnce /\ \A t : Prepared(t)' <=> Prepared(t)
  BY DEF TickStep, BeginTick, BeginRerunTick, KeepWaiting, MarkActive, Launch,
         CreateWorktree, RecordLease, CreateLane, SpawnAdapter, RecordStart,
         FinishLaunch, EndTick, TickDies, Prepared
<1>2. ASSUME NEW a PROVE /\ Snapshot(a).completed \subseteq cleanedOnce
                         /\ Snapshot(a).pc = "decide"
  BY DEF Snapshot, CleanedRemembered
<1>3. NoTick.completed = {} /\ NoTick.pc = "idle"
  BY DEF NoTick
<1>4. CASE lanes' = lanes /\ tick' = [tick EXCEPT ![k] = NoTick]
  BY <1>0, <1>1, <1>3, <1>4
     DEF PrerequisitesRespected, CleanedRemembered, SnapshotsRemembered,
         LaunchesPrepared, LaunchSteps, LaneExists
<1>5. ASSUME NEW a, lanes' = lanes, tick' = [tick EXCEPT ![k] = Snapshot(a)]
      PROVE  PreparedInv'
  BY <1>0, <1>1, <1>2, <1>5
     DEF PrerequisitesRespected, CleanedRemembered, SnapshotsRemembered,
         LaunchesPrepared, LaunchSteps, LaneExists
<1>6. ASSUME NEW t \in Tasks, Launch(k, t) PROVE PreparedInv'
  <2>1. Prepared(t)
    BY <1>6, LaunchablePrepared DEF Launch, Admissible, SnapshotsRemembered
  <2>2. TaskOf(<<t, NextLaneNo(t)>>) = t
    BY DEF TaskOf
  <2>3. tick'[k].lane = <<t, NextLaneNo(t)>> /\ tick'[k].completed = tick[k].completed
    BY <1>0, <1>6 DEF Launch, TickRecords
  <2> QED
    BY <1>0, <1>1, <1>6, <2>1, <2>2, <2>3
       DEF Launch, PrerequisitesRespected, CleanedRemembered, SnapshotsRemembered,
           LaunchesPrepared, LaneExists
<1>7. ASSUME lanes' = lanes, NEW r, tick' = [tick EXCEPT ![k] = r],
             r.lane = tick[k].lane, r.completed = tick[k].completed,
             r.pc \in LaunchSteps => tick[k].pc \in LaunchSteps
      PROVE  PreparedInv'
  BY <1>0, <1>1, <1>7
     DEF PrerequisitesRespected, CleanedRemembered, SnapshotsRemembered,
         LaunchesPrepared, LaneExists
<1>8. CASE CreateLane(k) \/ RecordStart(k)
  <2> DEFINE l == tick[k].lane
  <2>1. Prepared(TaskOf(l))
    BY <1>8 DEF CreateLane, RecordStart, LaunchesPrepared, LaunchSteps
  <2>2. lanes \in [LaneIds -> LaneRecords]
    BY DEF TypeInv, TypeOK
  <2>3. \A m \in LaneIds : m = l \/ lanes'[m] = lanes[m]
    BY <1>8, <2>2 DEF CreateLane, RecordStart
  <2>4. l \in LaneIds => lanes'[l].status \in {"allocated", "running"}
    BY <1>8, <2>2 DEF CreateLane, RecordStart
  <2>5. /\ tick' \in [Tickers -> TickRecords]
        /\ \A j \in Tickers : /\ tick'[j].lane = tick[j].lane
                              /\ tick'[j].completed = tick[j].completed
                              /\ j # k => tick'[j].pc = tick[j].pc
    <3>1. TypeInv'
      BY TypeTick
    <3> QED
      BY <1>0, <1>8, <3>1 DEF CreateLane, RecordStart, TickRecords, TypeInv, TypeOK
  <2>6. PrerequisitesRespected' /\ CleanedRemembered'
    BY <1>1, <2>1, <2>3, <2>4 DEF PrerequisitesRespected, CleanedRemembered, LaneExists
  <2>7. SnapshotsRemembered'
    BY <1>1, <2>5 DEF SnapshotsRemembered
  <2>8. LaunchesPrepared'
    BY <1>1, <2>1, <2>5 DEF LaunchesPrepared
  <2> QED
    BY <1>1, <2>6, <2>7, <2>8
<1>9. ASSUME NEW a \in StartAdapters, BeginTick(k, a) PROVE PreparedInv'
  BY <1>5, <1>9 DEF BeginTick
<1>10. CASE BeginRerunTick(k)
  BY <1>4, <1>5, <1>10 DEF BeginRerunTick
<1>11. ASSUME NEW t \in Tasks, KeepWaiting(k, t) \/ MarkActive(k, t) PROVE PreparedInv'
  <2> DEFINE r == [tick[k] EXCEPT !.todo = @ \ {t}]
  <2>1. r.lane = tick[k].lane /\ r.completed = tick[k].completed /\ r.pc = tick[k].pc
    BY <1>0 DEF TickRecords
  <2> QED
    BY <1>7, <1>11, <2>1 DEF KeepWaiting, MarkActive
<1>12. CASE CreateWorktree(k)
  <2> DEFINE r == [tick[k] EXCEPT !.pc = "lease"]
  <2>1. r.lane = tick[k].lane /\ r.completed = tick[k].completed
    BY <1>0 DEF TickRecords
  <2> QED
    BY <1>7, <1>12, <2>1 DEF CreateWorktree, LaunchSteps
<1>13. CASE RecordLease(k)
  <2> DEFINE r == [tick[k] EXCEPT !.pc = "create"]
  <2>1. r.lane = tick[k].lane /\ r.completed = tick[k].completed
    BY <1>0 DEF TickRecords
  <2> QED
    BY <1>7, <1>13, <2>1 DEF RecordLease, LaunchSteps
<1>14. CASE SpawnAdapter(k)
  <2> DEFINE r == [tick[k] EXCEPT !.pc = "record"]
  <2>1. r.lane = tick[k].lane /\ r.completed = tick[k].completed
    BY <1>0 DEF TickRecords
  <2> QED
    BY <1>7, <1>14, <2>1 DEF SpawnAdapter, LaunchSteps
<1>15. CASE FinishLaunch(k)
  <2>1. /\ tick'[k].pc = "decide" /\ tick'[k].completed = tick[k].completed
        /\ \A j \in Tickers : j # k => tick'[j] = tick[j]
    BY <1>0, <1>15 DEF FinishLaunch, TickRecords
  <2>2. lanes' = lanes
    BY <1>15 DEF FinishLaunch
  <2> QED
    BY <1>1, <2>1, <2>2 DEF PrerequisitesRespected, CleanedRemembered, SnapshotsRemembered,
                        LaunchesPrepared, LaunchSteps, LaneExists
<1>16. CASE EndTick(k) \/ TickDies(k)
  BY <1>4, <1>16 DEF EndTick, TickDies
<1> QED
  BY <1>6, <1>8, <1>9, <1>10, <1>11, <1>12, <1>13, <1>14, <1>15, <1>16 DEF TickStep

\* Outside the ticks: a step that adds no lane, cleans no lane without
\* remembering it, and disturbs no launch.
LEMMA PreparedElsewhere ==
  ASSUME TypeInv, PreparedInv,
         \A l \in LaneIds : /\ LaneExists(l)' => LaneExists(l)
                            /\ lanes'[l].status = "cleaned" =>
                                 lanes[l].status = "cleaned" \/ TaskOf(l) \in cleanedOnce',
         \A k \in Tickers : /\ tick'[k].pc \in LaunchSteps =>
                                 tick[k].pc \in LaunchSteps /\ tick'[k].lane = tick[k].lane
                            /\ tick'[k].completed = tick[k].completed,
         cleanedOnce \subseteq cleanedOnce',
         \A t \in cleanedOnce' : t \in cleanedOnce \/ \E l \in LaneIds : LaneExists(l) /\ t = TaskOf(l)
  PROVE  PreparedInv'
<1>1. \A t : Prepared(t) => Prepared(t)'
  BY DEF Prepared
<1>2. PrerequisitesRespected'
  BY <1>1 DEF PreparedInv, PrerequisitesRespected
<1>3. CleanedPrepared'
  BY <1>1 DEF PreparedInv, PrerequisitesRespected, CleanedPrepared
<1>4. CleanedRemembered'
  BY DEF PreparedInv, CleanedRemembered
<1>5. SnapshotsRemembered' /\ LaunchesPrepared'
  BY <1>1 DEF PreparedInv, SnapshotsRemembered, LaunchesPrepared
<1> QED
  BY <1>2, <1>3, <1>4, <1>5 DEF PreparedInv

\* The operator commands keep the invariant: only lane stop cleans a lane.
LEMMA PreparedOperator ==
  ASSUME TypeInv, PreparedInv, Reconcile \/ Operator \/ \E s \in Stamps : RunStep(s)
  PROVE  PreparedInv'
<1> USE DEF disk, runtime, registry
<1>1. TypeOK
  BY DEF TypeInv
<1>2. \A l \in LaneIds : /\ SyncedLanes[l].status # "absent" => LaneExists(l)
                         /\ SyncedLanes[l].status = "cleaned" => lanes[l].status = "cleaned"
  BY <1>1, SyncedLaneType DEF SyncedLanes, LaneExists
<1>3. NoRecord.status = "absent"
  BY DEF NoRecord
<1>4. CASE Reconcile
  BY <1>2, <1>4, PreparedElsewhere DEF Reconcile, LaneExists
<1>5. CASE \E s \in Stamps : RunStep(s)
  BY <1>5, PreparedElsewhere DEF RunStep, RunReports, RunEnds, RunWrites, RunKilled, LaneExists
<1>6. ASSUME NEW p, ProjectAdd(p) \/ ProjectRemove(p) PROVE PreparedInv'
  BY <1>3, <1>6, PreparedElsewhere DEF ProjectAdd, ProjectRemove, LaneExists
<1>7. ASSUME NEW t, NEW status, TaskCreate(t, status) \/ TaskSetStatus(t, status)
      PROVE  PreparedInv'
  BY <1>7, PreparedElsewhere DEF TaskCreate, TaskSetStatus, LaneExists
<1>8. ASSUME NEW l \in LaneIds, LaneStop(l) PROVE PreparedInv'
  <2>1. \A m \in LaneIds : m # l => lanes'[m] = lanes[m]
    BY <1>1, <1>8 DEF LaneStop, TypeOK
  <2> QED
    BY <1>8, <2>1, PreparedElsewhere DEF LaneStop, LaneExists
<1>9. ASSUME NEW k \in Tickers, NEW l \in LaneIds, NEW a, NEW force, NEW clean,
             LaneRerun(k, l, a, force, clean)
      PROVE  PreparedInv'
  <2>1. \A m \in LaneIds : lanes'[m] = SyncedLanes[m] \/ lanes'[m] = NoRecord
    BY <1>9 DEF LaneRerun, SyncedLanes
  <2>2. /\ tick \in [Tickers -> TickRecords] /\ cleanedOnce' = cleanedOnce
        /\ \/ tick' = [tick EXCEPT ![k].pc = "requeued", ![k].adapters = a]
           \/ tick' = tick
    BY <1>1, <1>9 DEF LaneRerun, TypeOK
  <2>3. \A j \in Tickers :
          /\ tick'[j].pc \in LaunchSteps =>
               tick[j].pc \in LaunchSteps /\ tick'[j].lane = tick[j].lane
          /\ tick'[j].completed = tick[j].completed
    BY <2>2 DEF TickRecords, LaunchSteps
  <2> QED
    BY <1>2, <1>3, <2>1, <2>2, <2>3, PreparedElsewhere DEF LaneExists
<1>10. CASE Cleanup
  <2>1. \A m \in LaneIds : lanes'[m] = lanes[m] \/ lanes'[m] = NoRecord
    BY <1>10 DEF Cleanup
  <2> QED
    BY <1>3, <1>10, <2>1, PreparedElsewhere DEF Cleanup, LaneExists
<1> QED
  BY <1>4, <1>5, <1>6, <1>7, <1>8, <1>9, <1>10 DEF Operator, TaskCancel, TaskBlock

\* A lane never exists for a task with an uncleaned prerequisite or with
\* requires_ready_pr, for every number of tasks, ticks and lanes, with and
\* without crashes, and also when ticks and commands interleave.
THEOREM Prerequisites == Spec => []PrerequisitesRespected
<1>1. Init => TypeInv /\ PreparedInv
  <2> SUFFICES ASSUME Init PROVE PreparedInv
    BY TypeInit
  <2>1. \A l \in LaneIds : lanes[l].status = "absent"
    BY DEF Init, NoRecord
  <2>2. \A k \in Tickers : tick[k].pc = "idle" /\ tick[k].completed = {}
    BY DEF Init, NoTick
  <2>3. cleanedOnce = {}
    BY DEF Init
  <2> QED
    BY <2>1, <2>2, <2>3
       DEF PreparedInv, PrerequisitesRespected, CleanedPrepared, CleanedRemembered,
           SnapshotsRemembered, LaunchesPrepared, LaunchSteps, LaneExists
<1>2. TypeInv /\ PreparedInv /\ [Next]_vars => (TypeInv /\ PreparedInv)'
  <2> SUFFICES ASSUME TypeInv, PreparedInv, [Next]_vars PROVE (TypeInv /\ PreparedInv)'
    OBVIOUS
  <2>1. CASE UNCHANGED vars
    BY <2>1 DEF vars, TypeInv, TypeOK, Busy, PreparedInv, PrerequisitesRespected,
                CleanedPrepared, CleanedRemembered, SnapshotsRemembered,
                LaunchesPrepared, LaneExists, Prepared
  <2>2. CASE Next
    BY <2>2, TypeTick, TypeRun, TypeReconcile, TypeOperator, PreparedTick,
       PreparedOperator DEF Next
  <2> QED
    BY <2>1, <2>2
<1>3. PreparedInv => PrerequisitesRespected
  BY DEF PreparedInv
<1> QED
  BY <1>1, <1>2, <1>3, PTL DEF Spec

-----------------------------------------------------------------------------
(* One tick at a time.  Under Exclusive no command, reconciliation or second *)
(* tick falls between the steps of a tick, but the runs go on, the tick may  *)
(* die anywhere and the next one finds what it left.  Then the snapshot the  *)
(* tick decides from stays true up to the lanes it starts itself.            *)

Working == {"decide"} \cup LaunchSteps

OneTick == \A j, k \in Tickers : ~Idle(j) /\ ~Idle(k) => j = k

Existing == {l \in LaneIds : LaneExists(l)}

\* The lane the tick has created and not yet counted.
Own(k, l) == tick[k].pc \in {"spawn", "record", "finish"} /\ l = tick[k].lane

\* Every active lane but its own is in the tick's list, no task it still has to
\* decide on got one since, and all of those are queued.
SnapshotHolds(k) ==
  tick[k].pc \in Working =>
    /\ IsFiniteSet(tick[k].running)
    /\ \A l \in ActiveLanes :
         \/ Own(k, l)
         \/ /\ l \in tick[k].running
            /\ TaskOf(l) \in tick[k].active \/ TaskOf(l) \notin tick[k].todo
    /\ \A t \in tick[k].todo : tasks[t].status = "queued"

\* What the decision to launch t rests on.
Fits(k, t) ==
  /\ t \notin tick[k].active
  /\ \A l \in tick[k].running : ~Conflict(t, TaskOf(l))
  /\ Cardinality(tick[k].running) < MaxParallelLanes
  /\ Cardinality(RunningInProject(k, ProjectOf[t])) < ProjectCap[ProjectOf[t]]

Provided(l) == l \in worktrees /\ l \in leases

\* A launch under way is of a task to decide on; until its lane is there the
\* decision still stands, and with an adapter the lane has its worktree.
LaunchHolds(k) ==
  /\ tick[k].pc \in LaunchSteps => TaskOf(tick[k].lane) \in tick[k].todo
  /\ tick[k].pc \in {"worktree", "lease", "create"} => Fits(k, TaskOf(tick[k].lane))
  /\ tick[k].pc = "lease" => tick[k].lane \in worktrees
  /\ tick[k].pc \in {"worktree", "lease", "spawn", "record"} => tick[k].adapters
  /\ tick[k].pc \in {"create", "spawn", "record"} /\ tick[k].adapters => Provided(tick[k].lane)

SoleInv ==
  /\ OneTick
  /\ IsFiniteSet(Existing)
  /\ LaneKeepsWorktree
  /\ \A k \in Tickers : SnapshotHolds(k) /\ LaunchHolds(k)

\* The local variables a step of a launch leaves alone.
Keeps(k) ==
  /\ tick'[k].adapters = tick[k].adapters /\ tick'[k].todo = tick[k].todo
  /\ tick'[k].active = tick[k].active /\ tick'[k].running = tick[k].running

\* The effect of the steps of a launch on the tick.
LEMMA LaunchEffect ==
  ASSUME TypeInv, NEW k \in Tickers
  PROVE  /\ \A t : Launch(k, t) =>
              /\ Keeps(k) /\ tick'[k].lane = <<t, NextLaneNo(t)>>
              /\ tick'[k].pc = IF tick[k].adapters THEN "worktree" ELSE "create"
         /\ CreateWorktree(k) =>
              Keeps(k) /\ tick'[k].lane = tick[k].lane /\ tick'[k].pc = "lease"
         /\ RecordLease(k) =>
              Keeps(k) /\ tick'[k].lane = tick[k].lane /\ tick'[k].pc = "create"
         /\ CreateLane(k) =>
              /\ Keeps(k) /\ tick'[k].lane = tick[k].lane
              /\ tick'[k].pc = IF tick[k].adapters THEN "spawn" ELSE "finish"
         /\ SpawnAdapter(k) =>
              Keeps(k) /\ tick'[k].lane = tick[k].lane /\ tick'[k].pc = "record"
         /\ RecordStart(k) =>
              Keeps(k) /\ tick'[k].lane = tick[k].lane /\ tick'[k].pc = "finish"
<1>0. tick \in [Tickers -> TickRecords] /\ tick[k] \in TickRecords
  BY DEF TypeInv, TypeOK
<1> USE DEF Keeps, TickRecords
<1>1. ASSUME NEW t, Launch(k, t)
      PROVE  /\ Keeps(k) /\ tick'[k].lane = <<t, NextLaneNo(t)>>
             /\ tick'[k].pc = IF tick[k].adapters THEN "worktree" ELSE "create"
  BY <1>0, <1>1 DEF Launch
<1>2. CreateWorktree(k) => Keeps(k) /\ tick'[k].lane = tick[k].lane /\ tick'[k].pc = "lease"
  BY <1>0 DEF CreateWorktree
<1>3. RecordLease(k) => Keeps(k) /\ tick'[k].lane = tick[k].lane /\ tick'[k].pc = "create"
  BY <1>0 DEF RecordLease
<1>4. CreateLane(k) => /\ Keeps(k) /\ tick'[k].lane = tick[k].lane
                       /\ tick'[k].pc = IF tick[k].adapters THEN "spawn" ELSE "finish"
  BY <1>0 DEF CreateLane
<1>5. SpawnAdapter(k) => Keeps(k) /\ tick'[k].lane = tick[k].lane /\ tick'[k].pc = "record"
  BY <1>0 DEF SpawnAdapter
<1>6. RecordStart(k) => Keeps(k) /\ tick'[k].lane = tick[k].lane /\ tick'[k].pc = "finish"
  BY <1>0 DEF RecordStart
<1> QED BY <1>1, <1>2, <1>3, <1>4, <1>5, <1>6

\* Deciding on a task takes it off the list, and a launch that is finished has
\* its lane counted.
LEMMA DecisionEffect ==
  ASSUME TypeInv, NEW k \in Tickers
  PROVE  /\ \A t : KeepWaiting(k, t) \/ MarkActive(k, t) =>
              /\ tick'[k].todo = tick[k].todo \ {t} /\ tick'[k].pc = "decide"
              /\ tick'[k].active = tick[k].active /\ tick'[k].running = tick[k].running
         /\ FinishLaunch(k) =>
              /\ tick'[k].todo = tick[k].todo \ {TaskOf(tick[k].lane)} /\ tick'[k].pc = "decide"
              /\ tick'[k].active = tick[k].active
              /\ tick'[k].running = tick[k].running \cup {tick[k].lane}
<1>0. tick \in [Tickers -> TickRecords] /\ tick[k] \in TickRecords
  BY DEF TypeInv, TypeOK
<1> USE DEF TickRecords
<1>1. ASSUME NEW t, KeepWaiting(k, t) \/ MarkActive(k, t)
      PROVE  /\ tick'[k].todo = tick[k].todo \ {t} /\ tick'[k].pc = "decide"
             /\ tick'[k].active = tick[k].active /\ tick'[k].running = tick[k].running
  BY <1>0, <1>1 DEF KeepWaiting, MarkActive, IsNext
<1>2. FinishLaunch(k) =>
        /\ tick'[k].todo = tick[k].todo \ {TaskOf(tick[k].lane)} /\ tick'[k].pc = "decide"
        /\ tick'[k].active = tick[k].active
        /\ tick'[k].running = tick[k].running \cup {tick[k].lane}
  BY <1>0 DEF FinishLaunch
<1> QED BY <1>1, <1>2

\* While a tick takes a step, every other one is idle and stays so.
LEMMA OthersIdle ==
  ASSUME Exclusive, TypeInv, OneTick, NEW k \in Tickers, TickStep(k)
  PROVE  \A j \in Tickers : j # k => tick'[j] = tick[j] /\ tick'[j].pc = "idle"
<1>0. tick \in [Tickers -> TickRecords]
  BY DEF TypeInv, TypeOK
<1>1. \A j \in Tickers : j # k => tick'[j] = tick[j]
  BY <1>0
  DEF TickStep, BeginTick, BeginRerunTick, KeepWaiting, MarkActive, Launch, CreateWorktree,
      RecordLease, CreateLane, SpawnAdapter, RecordStart, FinishLaunch, EndTick, TickDies
<1>2. ~Idle(k) \/ \A j \in Tickers : Idle(j)
  BY DEF TickStep, BeginTick, BeginRerunTick, KeepWaiting, MarkActive, Launch, CreateWorktree,
         RecordLease, CreateLane, SpawnAdapter, RecordStart, FinishLaunch, EndTick, TickDies,
         IsNext, Idle, Quiet
<1> QED BY <1>1, <1>2 DEF OneTick, Idle

\* A tick that has just read the registry, or that ends, meets the invariant.
LEMMA SoleFresh ==
  ASSUME TypeInv, SoleInv, NEW k \in Tickers, UNCHANGED <<tasks, lanes>>,
         \/ \E a \in BOOLEAN : tick' = [tick EXCEPT ![k] = Snapshot(a)]
         \/ tick' = [tick EXCEPT ![k] = NoTick]
  PROVE  SnapshotHolds(k)' /\ LaunchHolds(k)'
<1>0. tick \in [Tickers -> TickRecords]
  BY DEF TypeInv, TypeOK
<1>1. CASE tick' = [tick EXCEPT ![k] = NoTick]
  <2>1. tick'[k].pc = "idle"
    BY <1>0, <1>1 DEF NoTick
  <2> QED BY <2>1 DEF SnapshotHolds, LaunchHolds, Working, LaunchSteps
<1>2. ASSUME NEW a \in BOOLEAN, tick' = [tick EXCEPT ![k] = Snapshot(a)]
      PROVE  SnapshotHolds(k)' /\ LaunchHolds(k)'
  <2>1. /\ tick'[k].pc = "decide" /\ tick'[k].running = ActiveLanes /\ tick'[k].todo = Queued
        /\ tick'[k].active = {TaskOf(l) : l \in ActiveLanes}
    BY <1>0, <1>2 DEF Snapshot
  <2>2. ActiveLanes' = ActiveLanes
    BY DEF ActiveLanes, Active
  <2>3. IsFiniteSet(ActiveLanes)
    <3>1. ActiveLanes \in SUBSET Existing
      BY DEF ActiveLanes, Active, Existing, LaneExists, ActiveLaneStatuses
    <3> QED BY <3>1, FS_Subset DEF SoleInv
  <2>4. LaunchHolds(k)'
    BY <2>1 DEF LaunchHolds, LaunchSteps
  <2>5. \A l \in ActiveLanes : TaskOf(l) \in tick'[k].active
    BY <2>1
  <2>6. \A t \in Queued : tasks[t].status = "queued"
    BY DEF Queued
  <2> QED BY <2>1, <2>2, <2>3, <2>4, <2>5, <2>6 DEF SnapshotHolds
<1> QED BY <1>1, <1>2

\* A step of a launch that writes no record keeps the snapshot true.
LEMMA SnapshotKept ==
  ASSUME NEW k \in Tickers, SnapshotHolds(k), Keeps(k), tick[k].pc \in Working,
         tick'[k].lane = tick[k].lane \/ tick[k].pc = "decide",
         tick[k].pc \in {"spawn", "record", "finish"} =>
           tick'[k].pc \in {"spawn", "record", "finish"},
         \A l \in ActiveLanes' : l \in ActiveLanes \/ Own(k, l)',
         \A t \in tick[k].todo : tasks'[t].status = tasks[t].status
  PROVE  SnapshotHolds(k)'
<1>1. \A l \in LaneIds : Own(k, l) => Own(k, l)'
  BY DEF Own
<1>2. ActiveLanes' \subseteq LaneIds
  BY DEF ActiveLanes
<1>3. \A l \in ActiveLanes' :
        \/ Own(k, l)'
        \/ /\ l \in tick[k].running
           /\ TaskOf(l) \in tick[k].active \/ TaskOf(l) \notin tick[k].todo
  BY <1>1, <1>2 DEF SnapshotHolds
<1>4. \A t \in tick[k].todo : tasks'[t].status = "queued"
  BY DEF SnapshotHolds
<1>5. IsFiniteSet(tick'[k].running)
  BY DEF SnapshotHolds, Keeps
<1> QED BY <1>3, <1>4, <1>5 DEF SnapshotHolds, Keeps

\* A task is decided on: it keeps waiting, or it is marked running and taken off.
LEMMA SoleDecided ==
  ASSUME TypeInv, SoleInv, NEW k \in Tickers, NEW t \in Tasks,
         KeepWaiting(k, t) \/ MarkActive(k, t)
  PROVE  SnapshotHolds(k)' /\ LaunchHolds(k)'
<1>1. /\ tick'[k].todo = tick[k].todo \ {t} /\ tick'[k].pc = "decide" /\ tick[k].pc = "decide"
      /\ tick'[k].active = tick[k].active /\ tick'[k].running = tick[k].running
      /\ lanes' = lanes
  BY DecisionEffect DEF KeepWaiting, MarkActive, IsNext, registry
<1>2. \A u \in Tasks : u # t => tasks'[u] = tasks[u]
  BY DEF KeepWaiting, MarkActive, registry, TypeInv, TypeOK
<1>3. tick[k].todo \subseteq Tasks
  BY DEF TypeInv, TypeOK, TickRecords
<1>4. ActiveLanes' = ActiveLanes
  BY <1>1 DEF ActiveLanes, Active
<1>5. SnapshotHolds(k) /\ \A l : ~Own(k, l)
  BY <1>1 DEF SoleInv, Own
<1>6. SnapshotHolds(k)'
  BY <1>1, <1>2, <1>3, <1>4, <1>5 DEF SnapshotHolds, Working
<1> QED BY <1>1, <1>6 DEF LaunchHolds, LaunchSteps

\* What makes a lane fit depends on the tick's own lists only.
LEMMA FitsKept ==
  ASSUME NEW k \in Tickers, Keeps(k), NEW t, Fits(k, t)
  PROVE  Fits(k, t)'
  BY DEF Fits, Keeps, RunningInProject

\* The policy admits what fits.
LEMMA AdmissibleFits ==
  ASSUME NEW k \in Tickers, NEW t \in Tasks, Admissible(k, t)
  PROVE  Fits(k, t)
  BY DEF Admissible, CapacityAvailable, Fits

\* The decision to launch: the task fits what the tick has in its lists.
LEMMA SoleLaunch ==
  ASSUME TypeInv, SoleInv, NEW k \in Tickers, NEW t \in Tasks, Launch(k, t)
  PROVE  SnapshotHolds(k)' /\ LaunchHolds(k)'
<1>1. /\ Keeps(k) /\ tick'[k].lane = <<t, NextLaneNo(t)>> /\ tick[k].pc = "decide"
      /\ tick'[k].pc = IF tick[k].adapters THEN "worktree" ELSE "create"
      /\ UNCHANGED <<lanes, tasks>> /\ t \in tick[k].todo
  BY LaunchEffect DEF Launch, IsNext, registry
<1>2. TaskOf(tick'[k].lane) = t
  BY <1>1 DEF TaskOf
<1>3. Fits(k, t)'
  BY <1>1, AdmissibleFits, FitsKept DEF Launch
<1>4. SnapshotHolds(k)'
  BY <1>1, SnapshotKept DEF SoleInv, Working, ActiveLanes, Active
<1>5. LaunchHolds(k)'
  BY <1>1, <1>2, <1>3 DEF LaunchHolds, LaunchSteps, Keeps
<1> QED BY <1>4, <1>5

\* Worktree, lease and adapter process: the registry is not touched.
LEMMA SolePrepare ==
  ASSUME TypeInv, SoleInv, NEW k \in Tickers,
         CreateWorktree(k) \/ RecordLease(k) \/ SpawnAdapter(k)
  PROVE  SnapshotHolds(k)' /\ LaunchHolds(k)'
<1> DEFINE l == tick[k].lane
<1>0. LaunchHolds(k) /\ SnapshotHolds(k)
  BY DEF SoleInv
<1>1. Keeps(k) /\ tick'[k].lane = l /\ UNCHANGED <<lanes, tasks>>
  BY LaunchEffect DEF CreateWorktree, RecordLease, SpawnAdapter, registry
<1>2. \/ tick[k].pc = "worktree" /\ tick'[k].pc = "lease" /\ worktrees' = worktrees \cup {l}
      \/ /\ tick[k].pc = "lease" /\ tick'[k].pc = "create"
         /\ leases' = leases \cup {l} /\ worktrees' = worktrees
      \/ /\ tick[k].pc = "spawn" /\ tick'[k].pc = "record"
         /\ leases' = leases /\ worktrees' = worktrees
  BY LaunchEffect DEF CreateWorktree, RecordLease, SpawnAdapter, disk
<1>3. SnapshotHolds(k)'
  BY <1>0, <1>1, <1>2, SnapshotKept DEF Working, LaunchSteps, ActiveLanes, Active
<1>4. tick[k].pc \in {"worktree", "lease"} => Fits(k, TaskOf(tick[k].lane))'
  <2>1. ASSUME NEW t, t = TaskOf(l), tick[k].pc \in {"worktree", "lease"}
        PROVE  Fits(k, t)'
    BY <1>0, <1>1, <2>1, FitsKept DEF LaunchHolds
  <2>2. ASSUME NEW t, t = TaskOf(tick'[k].lane), Fits(k, t)'
        PROVE  Fits(k, TaskOf(tick[k].lane))'
    BY <2>2
  <2> QED BY <1>1, <2>1, <2>2
<1>5. LaunchHolds(k)'
  BY <1>0, <1>1, <1>2, <1>4 DEF LaunchHolds, LaunchSteps, Keeps, Provided
<1> QED BY <1>3, <1>5

\* The lane appears next to active lanes that are all in the tick's list.
LEMMA SoleCreate ==
  ASSUME TypeInv, SoleInv, NEW k \in Tickers, CreateLane(k)
  PROVE  SnapshotHolds(k)' /\ LaunchHolds(k)'
<1> DEFINE l == tick[k].lane
<1>0. LaunchHolds(k) /\ SnapshotHolds(k)
  BY DEF SoleInv
<1>1. /\ Keeps(k) /\ tick'[k].lane = l /\ tick[k].pc = "create"
      /\ tick'[k].pc = (IF tick[k].adapters THEN "spawn" ELSE "finish")
      /\ UNCHANGED <<leases, worktrees>>
  BY LaunchEffect DEF CreateLane, disk
<1>2. \A m \in LaneIds : m # l => lanes'[m] = lanes[m]
  BY DEF CreateLane, TypeInv, TypeOK
<1>3. \A t \in Tasks : tasks'[t].status = tasks[t].status
  BY DEF CreateLane, TypeInv, TypeOK, TaskRecords
<1>4. tick[k].todo \subseteq Tasks
  BY DEF TypeInv, TypeOK, TickRecords
<1>5. tick'[k].pc \in {"spawn", "finish"}
  BY <1>1
<1>6. \A m \in ActiveLanes' : m \in ActiveLanes \/ Own(k, m)'
  BY <1>1, <1>2, <1>5 DEF ActiveLanes, Active, Own
<1>7. SnapshotHolds(k)'
  BY <1>0, <1>1, <1>3, <1>4, <1>5, <1>6, SnapshotKept DEF Working, LaunchSteps
<1>8. LaunchHolds(k)'
  BY <1>0, <1>1, <1>5 DEF LaunchHolds, LaunchSteps, Keeps, Provided
<1> QED BY <1>7, <1>8

\* The record of the started lane is written.
LEMMA SoleRecord ==
  ASSUME TypeInv, SoleInv, NEW k \in Tickers, RecordStart(k)
  PROVE  SnapshotHolds(k)' /\ LaunchHolds(k)'
<1> DEFINE l == tick[k].lane
<1>0. LaunchHolds(k) /\ SnapshotHolds(k)
  BY DEF SoleInv
<1>1. /\ Keeps(k) /\ tick'[k].lane = l /\ tick[k].pc = "record" /\ tick'[k].pc = "finish"
      /\ tasks' = tasks
  BY LaunchEffect DEF RecordStart
<1>2. \A m \in LaneIds : m # l => lanes'[m] = lanes[m]
  BY DEF RecordStart, TypeInv, TypeOK
<1>3. \A m \in ActiveLanes' : m \in ActiveLanes \/ Own(k, m)'
  BY <1>1, <1>2 DEF ActiveLanes, Active, Own
<1>4. SnapshotHolds(k)'
  BY <1>0, <1>1, <1>3, SnapshotKept DEF Working, LaunchSteps
<1>5. LaunchHolds(k)'
  BY <1>0, <1>1 DEF LaunchHolds, LaunchSteps, Keeps
<1> QED BY <1>4, <1>5

\* The lane joins the list, and its task is no longer to be decided on.
LEMMA SoleFinish ==
  ASSUME TypeInv, SoleInv, NEW k \in Tickers, FinishLaunch(k)
  PROVE  SnapshotHolds(k)' /\ LaunchHolds(k)'
<1> DEFINE l == tick[k].lane
<1>0. SnapshotHolds(k)
  BY DEF SoleInv
<1>1. /\ tick'[k].todo = tick[k].todo \ {TaskOf(l)} /\ tick'[k].pc = "decide"
      /\ tick'[k].active = tick[k].active /\ tick'[k].running = tick[k].running \cup {l}
      /\ tick[k].pc = "finish" /\ lanes' = lanes
  BY DecisionEffect DEF FinishLaunch
<1>2. \A u \in Tasks : u # TaskOf(l) => tasks'[u] = tasks[u]
  BY DEF FinishLaunch, TypeInv, TypeOK
<1>3. tick[k].todo \subseteq Tasks
  BY DEF TypeInv, TypeOK, TickRecords
<1>4. ActiveLanes' = ActiveLanes
  BY <1>1 DEF ActiveLanes, Active
<1>5. IsFiniteSet(tick'[k].running)
  BY <1>0, <1>1, FS_AddElement DEF SnapshotHolds, Working, LaunchSteps
<1>6. \A m \in ActiveLanes' :
        /\ m \in tick'[k].running
        /\ TaskOf(m) \in tick'[k].active \/ TaskOf(m) \notin tick'[k].todo
  BY <1>0, <1>1, <1>4 DEF SnapshotHolds, Working, LaunchSteps, Own
<1>7. \A t \in tick'[k].todo : tasks'[t].status = "queued"
  BY <1>0, <1>1, <1>2, <1>3 DEF SnapshotHolds, Working, LaunchSteps
<1> QED BY <1>1, <1>5, <1>6, <1>7 DEF SnapshotHolds, LaunchHolds, LaunchSteps

\* A step of a tick adds at most its own lane to the registry, and only when the
\* lane is created; the record of a lane with a worktree follows its lease.
LEMMA TickLanes ==
  ASSUME TypeInv, SoleInv, NEW k \in Tickers, TickStep(k)
  PROVE  IsFiniteSet(Existing)' /\ LaneKeepsWorktree'
<1>0. LaunchHolds(k) /\ LaneKeepsWorktree /\ IsFiniteSet(Existing)
  BY DEF SoleInv
<1>1. leases \subseteq leases' /\ worktrees \subseteq worktrees'
  BY DEF TickStep, BeginTick, BeginRerunTick, KeepWaiting, MarkActive, Launch, CreateWorktree,
         RecordLease, CreateLane, SpawnAdapter, RecordStart, FinishLaunch, EndTick, TickDies,
         disk
<1>2. CASE lanes' = lanes
  BY <1>0, <1>1, <1>2 DEF Existing, LaneExists, LaneKeepsWorktree
<1>3. CASE CreateLane(k) \/ RecordStart(k)
  <2> DEFINE l == tick[k].lane
  <2>1. \A m \in LaneIds : m # l => lanes'[m] = lanes[m]
    BY <1>3 DEF CreateLane, RecordStart, TypeInv, TypeOK
  <2>2. l \in LaneIds
    BY <1>3 DEF CreateLane, RecordStart, TypeInv, Busy, LaunchSteps
  <2>3. lanes'[l].worktree => Provided(l)
    BY <1>0, <1>3, <2>2 DEF CreateLane, RecordStart, LaunchHolds, TypeInv, TypeOK
  <2>4. LaneKeepsWorktree'
    BY <1>0, <1>1, <2>1, <2>3 DEF LaneKeepsWorktree, LaneExists, Provided
  <2>5. Existing' \in SUBSET (Existing \cup {l})
    BY <2>1 DEF Existing, LaneExists
  <2>6. IsFiniteSet(Existing')
    BY <1>0, <2>5, FS_AddElement, FS_Subset
  <2> QED BY <2>4, <2>6
<1>4. lanes' = lanes \/ CreateLane(k) \/ RecordStart(k)
  BY DEF TickStep, BeginTick, BeginRerunTick, KeepWaiting, MarkActive, Launch, CreateWorktree,
         RecordLease, SpawnAdapter, FinishLaunch, EndTick, TickDies, registry
<1> QED BY <1>2, <1>3, <1>4

\* The steps of a tick keep the invariant.
LEMMA SoleTick ==
  ASSUME Exclusive, TypeInv, SoleInv, NEW k \in Tickers, TickStep(k)
  PROVE  SoleInv'
<1>1. \A j \in Tickers : j # k => tick'[j].pc = "idle"
  BY OthersIdle DEF SoleInv
<1>2. SnapshotHolds(k)' /\ LaunchHolds(k)'
  <2>1. ASSUME NEW a \in StartAdapters, BeginTick(k, a) PROVE SnapshotHolds(k)' /\ LaunchHolds(k)'
    BY <2>1, SoleFresh, SchedulerAssumption DEF BeginTick, registry
  <2>2. CASE BeginRerunTick(k)
    <3>1. tick[k].adapters \in BOOLEAN
      BY DEF TypeInv, TypeOK, TickRecords
    <3> QED BY <2>2, <3>1, SoleFresh DEF BeginRerunTick, registry
  <2>3. CASE EndTick(k) \/ TickDies(k)
    BY <2>3, SoleFresh DEF EndTick, TickDies, registry
  <2> QED BY <2>1, <2>2, <2>3, SoleDecided, SoleLaunch, SolePrepare, SoleCreate, SoleRecord,
             SoleFinish DEF TickStep
<1>3. \A j \in Tickers : j # k => SnapshotHolds(j)' /\ LaunchHolds(j)'
  BY <1>1 DEF SnapshotHolds, LaunchHolds, Working, LaunchSteps
<1>4. OneTick'
  BY <1>1 DEF OneTick, Idle
<1> QED BY <1>2, <1>3, <1>4, TickLanes DEF SoleInv

\* Reconciliation leaves the worktree of a lane record alone.
LEMMA SyncedLaneWorktree ==
  ASSUME TypeOK, NEW l \in LaneIds
  PROVE  SyncedLane(l).worktree = lanes[l].worktree
<1>1. lanes[l] \in LaneRecords
  BY DEF TypeOK
<1> QED BY <1>1 DEF SyncedLane, LaneRecords

\* A step between ticks that adds no lane and releases the lease of no lane
\* whose record stays.
LEMMA SoleBetween ==
  ASSUME TypeInv, SoleInv, \A j \in Tickers : Idle(j),
         \A l \in LaneIds : LaneExists(l)' =>
           /\ LaneExists(l) /\ lanes'[l].worktree = lanes[l].worktree
           /\ Provided(l) => Provided(l)',
         \A j \in Tickers : tick'[j].pc \in {"idle", "requeued"},
         \A i, j \in Tickers : tick'[i].pc # "idle" /\ tick'[j].pc # "idle" => i = j
  PROVE  SoleInv'
<1>1. Existing' \in SUBSET Existing
  BY DEF Existing
<1>2. IsFiniteSet(Existing')
  BY <1>1, FS_Subset DEF SoleInv
<1>3. LaneKeepsWorktree'
  BY DEF SoleInv, LaneKeepsWorktree, Provided
<1>4. \A j \in Tickers : SnapshotHolds(j)' /\ LaunchHolds(j)'
  BY DEF SnapshotHolds, LaunchHolds, Working, LaunchSteps
<1>5. OneTick'
  BY DEF OneTick, Idle
<1> QED BY <1>2, <1>3, <1>4, <1>5 DEF SoleInv

\* Runs, reconciliation and commands keep the invariant.
LEMMA SoleElsewhere ==
  ASSUME Exclusive, TypeInv, SoleInv, Reconcile \/ Operator \/ \E s \in Stamps : RunStep(s)
  PROVE  SoleInv'
<1> USE DEF disk, runtime, registry
<1>1. TypeOK
  BY DEF TypeInv
<1>2. \A l \in LaneIds : /\ SyncedLanes[l].status # "absent" => LaneExists(l)
                         /\ SyncedLanes[l].worktree = lanes[l].worktree
  BY <1>1, SyncedLaneType, SyncedLaneWorktree DEF SyncedLanes, LaneExists
<1>3. NoRecord.status = "absent"
  BY DEF NoRecord
<1>4. CASE \E s \in Stamps : RunStep(s)
  <2>1. UNCHANGED <<tasks, lanes, leases, worktrees, tick>>
    BY <1>4 DEF RunStep, RunReports, RunEnds, RunWrites, RunKilled
  <2> QED
    BY <2>1 DEF SoleInv, OneTick, Idle, Existing, LaneExists, LaneKeepsWorktree, SnapshotHolds,
                LaunchHolds, Own, Fits, RunningInProject, Provided, ActiveLanes, Active
<1>5. ASSUME Quiet, tick' = tick,
             \A l \in LaneIds : LaneExists(l)' =>
               /\ LaneExists(l) /\ lanes'[l].worktree = lanes[l].worktree
               /\ Provided(l) => Provided(l)'
      PROVE  SoleInv'
  <2>1. \A j \in Tickers : Idle(j) /\ tick'[j].pc = "idle"
    BY <1>5 DEF Quiet, Idle
  <2> QED BY <1>5, <2>1, SoleBetween
<1>6. CASE Reconcile
  BY <1>2, <1>5, <1>6 DEF Reconcile, LaneExists, Provided
<1>7. ASSUME NEW p, ProjectAdd(p) \/ ProjectRemove(p) PROVE SoleInv'
  BY <1>3, <1>5, <1>7 DEF ProjectAdd, ProjectRemove, CanRun, LaneExists, Provided
<1>8. ASSUME NEW t, NEW status, CanRun(status), NEW to, TaskCreate(t, to) \/ TaskSetStatus(t, to)
      PROVE  SoleInv'
  BY <1>5, <1>8 DEF TaskCreate, TaskSetStatus, CanRun, LaneExists, Provided
<1>9. ASSUME NEW l \in LaneIds, LaneStop(l) PROVE SoleInv'
  <2>1. \A m \in LaneIds : m # l => lanes'[m] = lanes[m]
    BY <1>1, <1>9 DEF LaneStop, TypeOK
  <2>2. lanes'[l].worktree = lanes[l].worktree
    BY <1>1, <1>9 DEF LaneStop, TypeOK, LaneRecords
  <2> QED BY <1>5, <1>9, <2>1, <2>2 DEF LaneStop, CanRun, LaneExists, Provided
<1>10. ASSUME NEW k \in Tickers, NEW l \in LaneIds, NEW a, NEW force, NEW clean,
              LaneRerun(k, l, a, force, clean)
       PROVE  SoleInv'
  <2>1. \A m \in LaneIds : lanes'[m] = IF m = l THEN NoRecord ELSE SyncedLanes[m]
    BY <1>10 DEF LaneRerun, SyncedLanes
  <2>2. \A j \in Tickers : Idle(j)
    BY <1>10 DEF LaneRerun, CanRun, Quiet
  <2>3. /\ tick \in [Tickers -> TickRecords]
        /\ \/ tick' = [tick EXCEPT ![k].pc = "requeued", ![k].adapters = a]
           \/ tick' = tick
    BY <1>1, <1>10 DEF LaneRerun, TypeOK
  <2>4. \A j \in Tickers : /\ j # k => tick'[j].pc = "idle"
                           /\ tick'[j].pc \in {"idle", "requeued"}
    BY <2>2, <2>3 DEF TickRecords, Idle
  <2>5. \A m \in LaneIds : LaneExists(m)' =>
          /\ LaneExists(m) /\ lanes'[m].worktree = lanes[m].worktree
          /\ Provided(m) => Provided(m)'
    BY <1>2, <1>3, <1>10, <2>1 DEF LaneRerun, LaneExists, Provided
  <2> QED BY <2>2, <2>4, <2>5, SoleBetween
<1>11. CASE Cleanup
  <2>1. \A m \in LaneIds :
          /\ lanes[m].status = "cleaned" => lanes'[m] = NoRecord
          /\ lanes[m].status # "cleaned" => lanes'[m] = lanes[m]
    BY <1>11 DEF Cleanup
  <2>2. \A m \in LaneIds : LaneExists(m)' => LaneExists(m) /\ lanes'[m].worktree = lanes[m].worktree
                                              /\ (Provided(m) => Provided(m)')
    BY <1>3, <1>11, <2>1 DEF Cleanup, LaneExists, Provided
  <2> QED BY <1>5, <1>11, <2>2 DEF Cleanup, CanRun
<1> QED
  BY <1>4, <1>6, <1>7, <1>8, <1>9, <1>10, <1>11 DEF Operator, TaskCancel, TaskBlock, TaskCreate

\* The invariant of ticks that are alone, from the empty fleet on.
LEMMA SoleInvHolds ==
  ASSUME Exclusive
  PROVE  Spec => [](TypeInv /\ SoleInv)
<1>1. Init => TypeInv /\ SoleInv
  <2> SUFFICES ASSUME Init PROVE SoleInv
    BY TypeInit
  <2>1. \A l \in LaneIds : ~LaneExists(l)
    BY DEF Init, NoRecord, LaneExists
  <2>2. \A k \in Tickers : tick[k].pc = "idle"
    BY DEF Init, NoTick
  <2>3. Existing = {}
    BY <2>1 DEF Existing
  <2> QED
    BY <2>1, <2>2, <2>3, FS_EmptySet
    DEF SoleInv, OneTick, Idle, LaneKeepsWorktree, SnapshotHolds, LaunchHolds, Working,
        LaunchSteps
<1>2. TypeInv /\ SoleInv /\ [Next]_vars => (TypeInv /\ SoleInv)'
  <2> SUFFICES ASSUME TypeInv, SoleInv, [Next]_vars PROVE (TypeInv /\ SoleInv)'
    OBVIOUS
  <2>1. CASE UNCHANGED vars
    BY <2>1
    DEF vars, TypeInv, TypeOK, Busy, SoleInv, OneTick, Idle, Existing, LaneExists,
        LaneKeepsWorktree, SnapshotHolds, LaunchHolds, Own, Fits, RunningInProject, Provided,
        ActiveLanes, Active
  <2>2. CASE Next
    BY <2>2, TypeTick, TypeRun, TypeReconcile, TypeOperator, SoleTick, SoleElsewhere DEF Next
  <2> QED BY <2>1, <2>2
<1> QED BY <1>1, <1>2, PTL DEF Spec

\* Only create_lane makes a lane exist that did not.
LEMMA StartsByCreateLane ==
  ASSUME TypeInv, [Next]_vars, NEW l \in LaneIds, Starts(l)
  PROVE  \E k \in Tickers : CreateLane(k) /\ l = tick[k].lane
<1> USE DEF Starts, LaneExists
<1>1. TypeOK
  BY DEF TypeInv
<1>2. lanes'[l] # lanes[l] /\ lanes'[l] # NoRecord
  BY DEF NoRecord
<1>3. SyncedLanes[l].status = "absent"
  BY <1>1, SyncedLaneType DEF SyncedLanes
<1>4. \E k \in Tickers : TickStep(k)
  <2>1. ~Reconcile
    BY <1>3 DEF Reconcile
  <2>2. ASSUME NEW s \in Stamps, RunStep(s) PROVE FALSE
    BY <1>2, <2>2 DEF RunStep, RunReports, RunEnds, RunWrites, RunKilled, registry
  <2>3. ASSUME NEW p, ProjectAdd(p) \/ ProjectRemove(p) PROVE FALSE
    BY <1>2, <2>3 DEF ProjectAdd, ProjectRemove
  <2>4. ASSUME NEW t, NEW status, TaskCreate(t, status) \/ TaskSetStatus(t, status) PROVE FALSE
    BY <1>2, <2>4 DEF TaskCreate, TaskSetStatus
  <2>5. ASSUME NEW m \in LaneIds, LaneStop(m) PROVE FALSE
    BY <1>1, <1>2, <2>5 DEF LaneStop, TypeOK
  <2>6. ASSUME NEW k, NEW m \in LaneIds, NEW a, NEW force, NEW clean,
               LaneRerun(k, m, a, force, clean)
        PROVE  FALSE
    <3>1. lanes'[l] \in {NoRecord, SyncedLanes[l]}
      BY <2>6 DEF LaneRerun, SyncedLanes
    <3> QED BY <1>2, <1>3, <3>1
  <2>7. ~Cleanup
    BY <1>2 DEF Cleanup
  <2>8. ~UNCHANGED vars
    BY <1>2 DEF vars
  <2> QED BY <2>1, <2>2, <2>3, <2>4, <2>5, <2>6, <2>7, <2>8 DEF Next, Operator, TaskCancel,
  TaskBlock
<1>5. PICK k \in Tickers : TickStep(k)
  BY <1>4
<1>6. CreateLane(k) \/ RecordStart(k)
  BY <1>2, <1>5
  DEF TickStep, BeginTick, BeginRerunTick, KeepWaiting, MarkActive, Launch, CreateWorktree,
      RecordLease, SpawnAdapter, FinishLaunch, EndTick, TickDies, registry
<1>7. l = tick[k].lane
  BY <1>1, <1>2, <1>6 DEF CreateLane, RecordStart, TypeOK
<1>8. ~RecordStart(k)
  BY <1>7 DEF RecordStart
<1> QED BY <1>6, <1>7, <1>8

\* When a lane starts, the decision that led to it still stands and every lane
\* active at that moment is one the decision has seen.
LEMMA StartSeen ==
  ASSUME TypeInv, SoleInv, [Next]_vars, NEW l \in LaneIds, Starts(l)
  PROVE  \E k \in Tickers :
           /\ CreateLane(k) /\ l = tick[k].lane /\ Fits(k, TaskOf(l))
           /\ IsFiniteSet(tick[k].running) /\ TaskOf(l) \in tick[k].todo
           /\ \A m \in ActiveLanes :
                m \in tick[k].running /\ (TaskOf(m) \in tick[k].active \/ TaskOf(m) \notin tick[k].todo)
<1>1. PICK k \in Tickers : CreateLane(k) /\ l = tick[k].lane
  BY StartsByCreateLane
<1>2. tick[k].pc = "create"
  BY <1>1 DEF CreateLane
<1>3. SnapshotHolds(k) /\ LaunchHolds(k)
  BY DEF SoleInv
<1>4. Fits(k, TaskOf(l)) /\ TaskOf(l) \in tick[k].todo
  BY <1>1, <1>2, <1>3 DEF LaunchHolds, LaunchSteps
<1>5. /\ IsFiniteSet(tick[k].running)
      /\ \A m \in ActiveLanes :
           m \in tick[k].running /\ (TaskOf(m) \in tick[k].active \/ TaskOf(m) \notin tick[k].todo)
  BY <1>2, <1>3 DEF SnapshotHolds, Working, LaunchSteps, Own
<1> QED BY <1>1, <1>4, <1>5

\* Whatever a crashed tick has left behind, the runs report or an operator
\* undoes between ticks: a lane never starts next to an active lane whose task
\* conflicts with its own, provided nothing interleaves with a tick.
THEOREM NoConflictStarts ==
  ASSUME Exclusive
  PROVE  Spec => ConflictingLanesNeverStart
<1>1. TypeInv /\ SoleInv /\ [Next]_vars =>
        [\A l \in LaneIds : Starts(l) => \A m \in ActiveLanes : ~Conflict(TaskOf(l),
        TaskOf(m))]_vars
  BY StartSeen DEF Fits
<1> QED BY <1>1, SoleInvHolds, PTL DEF Spec, ConflictingLanesNeverStart

\* Under the same proviso a task never has two active lanes by a launch.
THEOREM OneActiveLanePerLaunch ==
  ASSUME Exclusive
  PROVE  Spec => OnlyIdleTasksLaunch
<1>1. TypeInv /\ SoleInv /\ [Next]_vars =>
        [\A l \in LaneIds : Starts(l) => \A m \in LanesOfTask(TaskOf(l)) : ~Active(m)]_vars
  <2> SUFFICES ASSUME TypeInv, SoleInv, [Next]_vars, NEW l \in LaneIds, Starts(l),
                      NEW m \in LanesOfTask(TaskOf(l)), Active(m)
               PROVE  FALSE
    OBVIOUS
  <2>1. m \in ActiveLanes /\ TaskOf(m) = TaskOf(l)
    BY DEF LanesOfTask, ActiveLanes
  <2> QED BY <2>1, StartSeen DEF Fits
<1> QED BY <1>1, SoleInvHolds, PTL DEF Spec, OnlyIdleTasksLaunch

\* And a lane that starts fits the caps, counted over the lanes that are active
\* at that very moment.
THEOREM CapsHoldAtLaunch ==
  ASSUME Exclusive
  PROVE  Spec => LaunchWithinCaps
<1>1. TypeInv /\ SoleInv /\ [Next]_vars => [\A l \in LaneIds : Starts(l) => FitsCaps(l)]_vars
  <2> SUFFICES ASSUME TypeInv, SoleInv, [Next]_vars, NEW l \in LaneIds, Starts(l)
               PROVE  FitsCaps(l)
    OBVIOUS
  <2>1. PICK k \in Tickers :
          /\ CreateLane(k) /\ l = tick[k].lane /\ Fits(k, TaskOf(l))
          /\ IsFiniteSet(tick[k].running)
          /\ \A m \in ActiveLanes : m \in tick[k].running
    BY StartSeen
  <2> DEFINE active == {m \in LaneIds : lanes'[m].status \in ActiveLaneStatuses}
             mine == {m \in active : ProjectOfLane(m) = ProjectOfLane(l)}
             seen == tick[k].running
             seenMine == RunningInProject(k, ProjectOfLane(l))
  <2>2. \A m \in LaneIds : m # l => lanes'[m] = lanes[m]
    BY <2>1 DEF CreateLane, TypeInv, TypeOK
  <2>3. active \subseteq seen \cup {l}
    BY <2>1, <2>2 DEF ActiveLanes, Active
  <2>4. mine \subseteq seenMine \cup {l}
    BY <2>3 DEF RunningInProject
  <2>5. IsFiniteSet(seenMine)
    BY <2>1, FS_Subset DEF RunningInProject
  <2>6. ASSUME NEW S, NEW T, IsFiniteSet(T), S \subseteq T \cup {l}, NEW max \in Nat,
               Cardinality(T) < max
        PROVE  Cardinality(S) <= max
    <3>1. IsFiniteSet(T \cup {l}) /\ Cardinality(T \cup {l}) <= Cardinality(T) + 1
          /\ Cardinality(T) \in Nat
      BY <2>6, FS_AddElement, FS_CardinalityType
    <3>2. Cardinality(S) <= Cardinality(T \cup {l}) /\ Cardinality(S) \in Nat
          /\ Cardinality(T \cup {l}) \in Nat
      BY <2>6, <3>1, FS_Subset, FS_CardinalityType
    <3> QED BY <2>6, <3>1, <3>2
  <2>7. MaxParallelLanes \in Nat /\ ProjectCap[ProjectOfLane(l)] \in Nat
    BY PolicyAssumption DEF ProjectOfLane, TaskOf, LaneIds
  <2>8. Cardinality(seen) < MaxParallelLanes
        /\ Cardinality(seenMine) < ProjectCap[ProjectOfLane(l)]
    BY <2>1 DEF Fits, ProjectOfLane
  <2>9. Cardinality(active) <= MaxParallelLanes
    BY <2>1, <2>3, <2>6, <2>7, <2>8
  <2>10. Cardinality(mine) <= ProjectCap[ProjectOfLane(l)]
    BY <2>4, <2>5, <2>6, <2>7, <2>8
  <2> QED BY <2>9, <2>10 DEF FitsCaps
<1> QED BY <1>1, SoleInvHolds, PTL DEF Spec, LaunchWithinCaps

\* Reconciliation marks no task running.
LEMMA SyncedTaskStatus ==
  ASSUME TypeOK, NEW index \in SyncedTasks(SyncedLanes), NEW t \in Tasks
  PROVE  index[t].status \in {tasks[t].status, "completed", "blocked"}
<1>1. tasks[t] \in TaskRecords
  BY DEF TypeOK
<1>2. SyncedTask(t, SyncedLanes).status \in {tasks[t].status, "completed", "blocked"}
  BY <1>1 DEF SyncedTask, TaskRecords
<1>3. PICK w \in SUBSET Tasks :
        index = [u \in Tasks |-> IF u \in w THEN SyncedTask(u, SyncedLanes) ELSE tasks[u]]
  BY DEF SyncedTasks
<1> QED BY <1>2, <1>3

\* Dropping lanes from the records leaves the statuses alone.
LEMMA WithoutLanesStatus ==
  ASSUME NEW index \in [Tasks -> TaskRecords], NEW gone, NEW t \in Tasks
  PROVE  WithoutLanes(index, gone)[t].status = index[t].status
  BY DEF WithoutLanes, TaskRecords

\* A launch under way is of a task the tick still has to handle.
LaunchesHeld ==
  \A k \in Tickers : tick[k].pc \in LaunchSteps => TaskOf(tick[k].lane) \in tick[k].todo

\* A tick takes tasks up only while they are queued, and its launch stays with
\* a task it has taken up.
LEMMA HeldTick ==
  ASSUME TypeInv, LaunchesHeld, NEW k \in Tickers, TickStep(k)
  PROVE  /\ tick'[k].todo \subseteq tick[k].todo \cup Queued
         /\ tick'[k].pc \in LaunchSteps => TaskOf(tick'[k].lane) \in tick'[k].todo
<1>0. tick \in [Tickers -> TickRecords]
  BY DEF TypeInv, TypeOK
<1>1. ASSUME NEW t \in Tasks, Launch(k, t)
      PROVE  tick'[k].todo = tick[k].todo /\ TaskOf(tick'[k].lane) \in tick'[k].todo
  <2>1. tick'[k].todo = tick[k].todo /\ tick'[k].lane = <<t, NextLaneNo(t)>>
    BY <1>1, LaunchEffect DEF Keeps
  <2>2. t \in tick[k].todo
    BY <1>1 DEF Launch, IsNext
  <2> QED BY <2>1, <2>2 DEF TaskOf
<1>2. CASE \/ CreateWorktree(k) \/ RecordLease(k) \/ CreateLane(k)
           \/ SpawnAdapter(k) \/ RecordStart(k)
  <2>1. tick'[k].todo = tick[k].todo /\ tick'[k].lane = tick[k].lane
    BY <1>2, LaunchEffect DEF Keeps
  <2>2. tick[k].pc \in LaunchSteps
    BY <1>2
    DEF CreateWorktree, RecordLease, CreateLane, SpawnAdapter, RecordStart, LaunchSteps
  <2> QED BY <2>1, <2>2 DEF LaunchesHeld
<1>3. CASE FinishLaunch(k) \/ \E t \in Tasks : KeepWaiting(k, t) \/ MarkActive(k, t)
  <2>1. tick'[k].todo \subseteq tick[k].todo /\ tick'[k].pc = "decide"
    BY <1>3, DecisionEffect
  <2> QED BY <2>1 DEF LaunchSteps
<1>4. CASE \/ \E a \in StartAdapters : BeginTick(k, a)
           \/ BeginRerunTick(k) \/ EndTick(k) \/ TickDies(k)
  <2>1. tick'[k] = NoTick \/ \E a : tick'[k] = Snapshot(a)
    BY <1>0, <1>4 DEF BeginTick, BeginRerunTick, EndTick, TickDies
  <2>2. NoTick.todo = {} /\ NoTick.pc = "idle"
    BY DEF NoTick
  <2>3. \A a : Snapshot(a).todo = Queued /\ Snapshot(a).pc = "decide"
    BY DEF Snapshot
  <2>4. tick'[k].todo \subseteq Queued /\ tick'[k].pc \in {"idle", "decide"}
    BY <2>1, <2>2, <2>3
  <2> QED BY <2>4 DEF LaunchSteps
<1> QED BY <1>1, <1>2, <1>3, <1>4 DEF TickStep

\* A step leaves the other ticks alone, and a step outside the ticks leaves
\* their lists and their launches alone.
LEMMA HeldElsewhere ==
  ASSUME TypeInv, [Next]_vars, NEW k \in Tickers, ~TickStep(k)
  PROVE  /\ tick'[k].todo = tick[k].todo /\ tick'[k].lane = tick[k].lane
         /\ tick'[k].pc \in LaunchSteps => tick'[k].pc = tick[k].pc
<1>0. tick \in [Tickers -> TickRecords]
  BY DEF TypeInv, TypeOK
<1>1. ASSUME NEW j \in Tickers, TickStep(j) PROVE tick'[k] = tick[k]
  <2>1. j # k
    BY <1>1
  <2> QED
    BY <1>0, <1>1, <2>1
    DEF TickStep, BeginTick, BeginRerunTick, KeepWaiting, MarkActive, Launch, CreateWorktree,
        RecordLease, CreateLane, SpawnAdapter, RecordStart, FinishLaunch, EndTick, TickDies
<1>2. ASSUME NEW j \in Tickers, NEW l \in LaneIds, NEW a, NEW force, NEW clean,
             LaneRerun(j, l, a, force, clean)
      PROVE  /\ tick'[k].todo = tick[k].todo /\ tick'[k].lane = tick[k].lane
             /\ tick'[k].pc \in LaunchSteps => tick'[k].pc = tick[k].pc
  <2>1. tick' = [tick EXCEPT ![j].pc = "requeued", ![j].adapters = a] \/ tick' = tick
    BY <1>2 DEF LaneRerun
  <2> QED BY <1>0, <2>1 DEF TickRecords, LaunchSteps
<1>3. CASE tick' = tick
  BY <1>3
<1> QED
  BY <1>1, <1>2, <1>3
  DEF Next, RunStep, RunReports, RunEnds, RunWrites, RunKilled, Reconcile, Operator,
      ProjectAdd, ProjectRemove, TaskCreate, TaskCancel, TaskBlock, TaskSetStatus, LaneStop,
      Cleanup, vars

\* A tick writes the record of no task but those it still has to handle.
LEMMA TickLeavesSettled ==
  ASSUME TypeInv, LaunchesHeld, NEW k \in Tickers, TickStep(k), NEW t \in Tasks,
         t \notin tick[k].todo
  PROVE  tasks'[t].status = tasks[t].status
<1>0. tasks \in [Tasks -> TaskRecords]
  BY DEF TypeInv, TypeOK
<1>1. ASSUME NEW u \in Tasks, MarkActive(k, u) PROVE tasks'[t].status = tasks[t].status
  <2>1. u # t
    BY <1>1 DEF MarkActive, IsNext
  <2> QED BY <1>0, <1>1, <2>1 DEF MarkActive
<1>2. CASE FinishLaunch(k)
  <2>1. TaskOf(tick[k].lane) # t
    BY <1>2 DEF FinishLaunch, LaunchesHeld, LaunchSteps
  <2> QED BY <1>0, <1>2, <2>1 DEF FinishLaunch
<1>3. CASE CreateLane(k)
  BY <1>0, <1>3 DEF CreateLane, TaskRecords
<1>4. CASE tasks' = tasks
  BY <1>4
<1> QED
  BY <1>1, <1>2, <1>3, <1>4
  DEF TickStep, BeginTick, BeginRerunTick, KeepWaiting, Launch, CreateWorktree, RecordLease,
      SpawnAdapter, RecordStart, EndTick, TickDies, registry

\* Nothing else marks a task running that exists.
LEMMA OthersRunNothing ==
  ASSUME TypeInv, NEW t \in Tasks, TaskExists(t),
         Reconcile \/ Operator \/ \E s \in Stamps : RunStep(s),
         tasks'[t].status = "running"
  PROVE  tasks[t].status = "running"
<1>0. TypeOK /\ tasks \in [Tasks -> TaskRecords]
  BY DEF TypeInv, TypeOK
<1>1. CASE Reconcile
  BY <1>0, <1>1, SyncedTaskStatus DEF Reconcile
<1>2. CASE \E s \in Stamps : RunStep(s)
  BY <1>2 DEF RunStep, RunReports, RunEnds, RunWrites, RunKilled, registry
<1>3. ASSUME NEW p, ProjectAdd(p) \/ ProjectRemove(p) PROVE tasks[t].status = "running"
  <2>1. tasks'[t] = tasks[t] \/ tasks'[t] = NoTask
    BY <1>0, <1>3 DEF ProjectAdd, ProjectRemove
  <2>2. NoTask.status # "running"
    BY DEF NoTask
  <2> QED BY <2>1, <2>2
<1>4. ASSUME NEW u \in Tasks, NEW status \in InitialStatuses, TaskCreate(u, status)
      PROVE  tasks[t].status = "running"
  <2>1. tasks' = [tasks EXCEPT ![u] = [status |-> status, lane_ids |-> {}]]
    BY <1>4 DEF TaskCreate
  <2>2. u # t
    BY <1>4 DEF TaskCreate
  <2> QED BY <1>0, <2>1, <2>2
<1>5. ASSUME NEW u \in Tasks, TaskCancel(u) \/ TaskBlock(u) PROVE tasks[t].status = "running"
  BY <1>0, <1>5 DEF TaskCancel, TaskBlock, TaskSetStatus, TaskRecords
<1>6. ASSUME NEW l \in LaneIds, LaneStop(l) PROVE tasks[t].status = "running"
  BY <1>6 DEF LaneStop
<1>7. ASSUME NEW k \in Tickers, NEW l \in LaneIds, NEW a, NEW force, NEW clean,
             LaneRerun(k, l, a, force, clean)
      PROVE  tasks[t].status = "running"
  <2>1. PICK synced \in SyncedTasks(SyncedLanes) :
          \/ tasks' = [WithoutLanes(synced, {l}) EXCEPT ![TaskOf(l)].status = "queued"]
          \/ tasks' = WithoutLanes(synced, {l})
    BY <1>7 DEF LaneRerun
  <2>2. synced \in [Tasks -> TaskRecords]
    BY <1>0, SyncedTasksType
  <2> DEFINE kept == WithoutLanes(synced, {l})
  <2>3. kept \in [Tasks -> TaskRecords] /\ kept[t].status = synced[t].status
    BY <2>2, WithoutLanesType, WithoutLanesStatus
  <2>4. synced[t].status \in {tasks[t].status, "completed", "blocked"}
    BY <1>0, SyncedTaskStatus
  <2> HIDE DEF kept
  <2>5. tasks' = [kept EXCEPT ![TaskOf(l)].status = "queued"] \/ tasks' = kept
    BY <2>1 DEF kept
  <2> QED BY <2>3, <2>4, <2>5 DEF TaskRecords
<1>8. CASE Cleanup
  BY <1>0, <1>8, WithoutLanesStatus DEF Cleanup
<1> QED BY <1>1, <1>2, <1>3, <1>4, <1>5, <1>6, <1>7, <1>8 DEF Operator

\* A settled task stays settled until it is queued or removed, and gets no lane.
LEMMA SettledStep ==
  ASSUME TypeInv, LaunchesHeld, [Next]_vars
  PROVE  /\ \A t \in Tasks : Settled(t) =>
              Settled(t)' \/ tasks'[t].status \in {"queued", "absent"}
         /\ \A l \in LaneIds : Starts(l) => ~Settled(TaskOf(l))
<1>1. ASSUME NEW t \in Tasks, Settled(t)
      PROVE  Settled(t)' \/ tasks'[t].status \in {"queued", "absent"}
  <2>1. tasks'[t].status # "running"
    <3>1. ASSUME NEW k \in Tickers, TickStep(k) PROVE tasks'[t].status # "running"
      BY <1>1, <3>1, TickLeavesSettled DEF Settled
    <3>2. CASE Reconcile \/ Operator \/ \E s \in Stamps : RunStep(s)
      BY <1>1, <3>2, OthersRunNothing DEF Settled, TaskExists
    <3>3. CASE UNCHANGED vars
      BY <1>1, <3>3 DEF Settled, vars
    <3> QED BY <3>1, <3>2, <3>3 DEF Next
  <2>2. ASSUME NEW k \in Tickers PROVE t \notin tick'[k].todo
    <3>1. t \notin tick[k].todo /\ t \notin Queued
      BY <1>1 DEF Settled, Queued
    <3>2. CASE TickStep(k)
      BY <3>1, <3>2, HeldTick
    <3>3. CASE ~TickStep(k)
      BY <3>1, <3>3, HeldElsewhere
    <3> QED BY <3>2, <3>3
  <2> QED BY <2>1, <2>2 DEF Settled
<1>2. ASSUME NEW l \in LaneIds, Starts(l) PROVE ~Settled(TaskOf(l))
  <2>1. PICK k \in Tickers : CreateLane(k) /\ l = tick[k].lane
    BY <1>2, StartsByCreateLane
  <2>2. TaskOf(l) \in tick[k].todo
    BY <2>1 DEF CreateLane, LaunchesHeld, LaunchSteps
  <2> QED BY <2>2 DEF Settled
<1> QED BY <1>1, <1>2

\* A decision about a task stands, whatever ticks, runs, reconciliations and
\* commands interleave, from the moment no tick under way has the task left to
\* handle: no tick that starts later runs it or gives it a lane before somebody
\* has queued it again.  Nothing is assumed about ticks being alone.
THEOREM DecisionStands == Spec => DecisionsStand
<1>1. Init => TypeInv /\ LaunchesHeld
  BY TypeInit DEF Init, NoTick, LaunchesHeld, LaunchSteps
<1>2. TypeInv /\ LaunchesHeld /\ [Next]_vars => (TypeInv /\ LaunchesHeld)'
  <2> SUFFICES ASSUME TypeInv, LaunchesHeld, [Next]_vars PROVE (TypeInv /\ LaunchesHeld)'
    OBVIOUS
  <2>1. TypeInv'
    <3>1. CASE UNCHANGED vars
      BY <3>1 DEF vars, TypeInv, TypeOK, Busy
    <3>2. CASE Next
      BY <3>2, TypeTick, TypeRun, TypeReconcile, TypeOperator DEF Next
    <3> QED BY <3>1, <3>2
  <2>2. ASSUME NEW k \in Tickers, tick'[k].pc \in LaunchSteps
        PROVE  TaskOf(tick'[k].lane) \in tick'[k].todo
    <3>1. CASE TickStep(k)
      BY <2>2, <3>1, HeldTick
    <3>2. CASE ~TickStep(k)
      BY <2>2, <3>2, HeldElsewhere DEF LaunchesHeld
    <3> QED BY <3>1, <3>2
  <2> QED BY <2>1, <2>2 DEF LaunchesHeld
<1>3. TypeInv /\ LaunchesHeld /\ [Next]_vars =>
        [/\ \A t \in Tasks : Settled(t) =>
              Settled(t)' \/ tasks'[t].status \in {"queued", "absent"}
         /\ \A l \in LaneIds : Starts(l) => ~Settled(TaskOf(l))]_vars
  BY SettledStep
<1> QED BY <1>1, <1>2, <1>3, PTL DEF Spec, DecisionsStand

\* A lane record that names a worktree is backed by its lease and its directory
\* wherever a tick died and whatever was cleaned up or run again in between.
THEOREM WorktreeKept ==
  ASSUME Exclusive
  PROVE  Spec => []LaneKeepsWorktree
<1>1. SoleInv => LaneKeepsWorktree BY DEF SoleInv
<1> QED BY <1>1, SoleInvHolds, PTL

-----------------------------------------------------------------------------
(* One process in a worktree.  This one does not need the ticks to be alone: *)
(* git refuses a worktree that exists, and without lane rerun and fleet      *)
(* cleanup no command removes one.                                           *)

WorktreesStay == {"lane rerun", "fleet cleanup"} \cap Commands = {}

\* The tick has made the worktree of its lane and not yet started the adapter.
Claims(k) ==
  \/ tick[k].pc \in {"lease", "spawn"}
  \/ tick[k].pc = "create" /\ tick[k].adapters

\* A worktree has at most one owner: the tick that made it, or one process.
ProcessInv ==
  /\ \A k \in Tickers : tick[k].pc \in {"worktree", "lease", "spawn"} => tick[k].adapters
  /\ \A k \in Tickers : Claims(k) =>
       /\ tick[k].lane \in worktrees
       /\ \A s \in Stamps : runs[s].lane # tick[k].lane
       /\ \A j \in Tickers : Claims(j) /\ tick[j].lane = tick[k].lane => j = k
  /\ \A s \in Stamps : runs[s].lane # NoLane => runs[s].lane \in worktrees
  /\ \A s, r \in Stamps : runs[s].lane # NoLane /\ runs[s].lane = runs[r].lane => s = r
  /\ \A s \in Stamps : runs[s].alive => runs[s].lane # NoLane

\* A step that makes no worktree and starts no process: claims may be dropped.
LEMMA ProcessKept ==
  ASSUME ProcessInv, worktrees' = worktrees,
         \A s \in Stamps : runs'[s].lane = runs[s].lane /\ (runs'[s].alive => runs[s].alive),
         \A k \in Tickers :
           /\ tick'[k].pc \in {"worktree", "lease", "spawn"} => tick'[k].adapters
           /\ Claims(k)' => Claims(k) /\ tick'[k].lane = tick[k].lane
  PROVE  ProcessInv'
<1>1. \A k \in Tickers : Claims(k)' =>
        /\ tick'[k].lane \in worktrees'
        /\ \A s \in Stamps : runs'[s].lane # tick'[k].lane
        /\ \A j \in Tickers : Claims(j)' /\ tick'[j].lane = tick'[k].lane => j = k
  BY DEF ProcessInv
<1>2. /\ \A s \in Stamps : runs'[s].lane # NoLane => runs'[s].lane \in worktrees'
      /\ \A s, r \in Stamps : runs'[s].lane # NoLane /\ runs'[s].lane = runs'[r].lane => s = r
      /\ \A s \in Stamps : runs'[s].alive => runs'[s].lane # NoLane
  BY DEF ProcessInv
<1> QED BY <1>1, <1>2 DEF ProcessInv

\* git worktree add: the lane was nobody's.
LEMMA ProcessWorktree ==
  ASSUME TypeInv, ProcessInv, NEW k \in Tickers, CreateWorktree(k)
  PROVE  ProcessInv'
<1> DEFINE l == tick[k].lane
<1>1. /\ Keeps(k) /\ tick'[k].lane = l /\ tick'[k].pc = "lease" /\ tick[k].pc = "worktree"
      /\ l \notin worktrees /\ worktrees' = worktrees \cup {l} /\ runs' = runs
  BY LaunchEffect DEF CreateWorktree, runtime
<1>2. \A j \in Tickers : j # k => tick'[j] = tick[j]
  BY DEF CreateWorktree, TypeInv, TypeOK
<1>3. \A j \in Tickers : j # k => (Claims(j)' <=> Claims(j))
  BY <1>2 DEF Claims
<1>4. l \in LaneIds /\ l # NoLane
  BY <1>1, SchedulerAssumption DEF TypeInv, Busy, LaunchSteps, LaneIds
<1>5. /\ \A j \in Tickers : j # k /\ Claims(j) => tick[j].lane # l
      /\ \A s \in Stamps : runs[s].lane # l
  BY <1>1, <1>4 DEF ProcessInv
<1>6. \A j \in Tickers : Claims(j)' =>
        /\ tick'[j].lane \in worktrees'
        /\ \A s \in Stamps : runs'[s].lane # tick'[j].lane
        /\ \A i \in Tickers : Claims(i)' /\ tick'[i].lane = tick'[j].lane => i = j
  BY <1>1, <1>2, <1>3, <1>5 DEF ProcessInv
<1>7. \A j \in Tickers : tick'[j].pc \in {"worktree", "lease", "spawn"} => tick'[j].adapters
  BY <1>1, <1>2 DEF ProcessInv, Keeps
<1> QED BY <1>1, <1>6, <1>7 DEF ProcessInv

\* The adapter starts: the claim passes from the tick to the process.
LEMMA ProcessSpawn ==
  ASSUME TypeInv, ProcessInv, NEW k \in Tickers, SpawnAdapter(k)
  PROVE  ProcessInv'
<1> DEFINE l == tick[k].lane
           n == tick[k].stamp
<1>1. /\ tick'[k].pc = "record" /\ tick[k].pc = "spawn" /\ worktrees' = worktrees
      /\ l \in worktrees /\ n \in Stamps
  BY LaunchEffect DEF SpawnAdapter, disk, TypeInv, Busy
<1>2. \A j \in Tickers : j # k => tick'[j] = tick[j]
  BY DEF SpawnAdapter, TypeInv, TypeOK
<1>3. /\ \A s \in Stamps : s # n => runs'[s] = runs[s]
      /\ runs'[n].lane = l /\ l \in LaneIds /\ l # NoLane
  BY <1>1, SchedulerAssumption
  DEF SpawnAdapter, TypeInv, TypeOK, Busy, LaunchSteps, LaneIds
<1>4. Claims(k) /\ ~Claims(k)' /\ \A j \in Tickers : j # k => (Claims(j)' <=> Claims(j))
  BY <1>1, <1>2 DEF Claims
<1>5. \A s \in Stamps : runs[s].lane # l
  BY <1>4 DEF ProcessInv
<1>6. \A j \in Tickers : Claims(j)' =>
        /\ tick'[j].lane \in worktrees'
        /\ \A s \in Stamps : runs'[s].lane # tick'[j].lane
        /\ \A i \in Tickers : Claims(i)' /\ tick'[i].lane = tick'[j].lane => i = j
  <2>1. \A j \in Tickers : j # k /\ Claims(j) => tick[j].lane # l
    BY <1>4 DEF ProcessInv
  <2> QED BY <1>1, <1>2, <1>3, <1>4, <2>1 DEF ProcessInv
<1>7. \A j \in Tickers : tick'[j].pc \in {"worktree", "lease", "spawn"} => tick'[j].adapters
  BY <1>1, <1>2 DEF ProcessInv
<1>8. /\ \A s \in Stamps : runs'[s].lane # NoLane => runs'[s].lane \in worktrees'
      /\ \A s, r \in Stamps : runs'[s].lane # NoLane /\ runs'[s].lane = runs'[r].lane => s = r
      /\ \A s \in Stamps : runs'[s].alive => runs'[s].lane # NoLane
  BY <1>1, <1>3, <1>5 DEF ProcessInv
<1> QED BY <1>6, <1>7, <1>8 DEF ProcessInv

\* The other steps of a tick keep its claim or drop it.
LEMMA ProcessTick ==
  ASSUME TypeInv, ProcessInv, NEW k \in Tickers, TickStep(k)
  PROVE  ProcessInv'
<1>0. tick \in [Tickers -> TickRecords] /\ tick[k] \in TickRecords
  BY DEF TypeInv, TypeOK
<1>1. CASE CreateWorktree(k) BY <1>1, ProcessWorktree
<1>2. CASE SpawnAdapter(k) BY <1>2, ProcessSpawn
<1>3. CASE ~CreateWorktree(k) /\ ~SpawnAdapter(k)
  <2>1. /\ runs' = runs /\ worktrees' = worktrees
        /\ \A j \in Tickers : j # k => tick'[j] = tick[j]
    BY <1>0, <1>3
    DEF TickStep, BeginTick, BeginRerunTick, KeepWaiting, MarkActive, Launch, RecordLease,
        CreateLane, RecordStart, FinishLaunch, EndTick, TickDies, disk, runtime
  <2>2. CASE \E t \in Tasks : Launch(k, t)
    BY <2>2, LaunchEffect, <1>0, <2>1, ProcessKept DEF Keeps, Claims, ProcessInv, TickRecords
  <2>3. CASE RecordLease(k) \/ CreateLane(k)
    <3>1. /\ Keeps(k) /\ tick'[k].lane = tick[k].lane
          /\ \/ tick[k].pc = "lease" /\ tick'[k].pc = "create"
             \/ /\ tick[k].pc = "create"
                /\ tick'[k].pc = IF tick[k].adapters THEN "spawn" ELSE "finish"
      BY <2>3, LaunchEffect DEF RecordLease, CreateLane
    <3> QED BY <2>1, <3>1, ProcessKept DEF Keeps, Claims, ProcessInv
  <2>4. CASE tick'[k].pc \in {"idle", "decide", "finish"}
    BY <2>1, <2>4, ProcessKept DEF Claims, ProcessInv
  <2>5. NoTick.pc = "idle" /\ \A a : Snapshot(a).pc = "decide"
    BY DEF NoTick, Snapshot
  <2>6. (\E a \in StartAdapters : BeginTick(k, a)) \/ BeginRerunTick(k) \/ EndTick(k) \/ TickDies(k)
          => tick'[k].pc \in {"idle", "decide", "finish"}
    BY <1>0, <2>5 DEF BeginTick, BeginRerunTick, EndTick, TickDies
  <2> QED
    BY <1>3, <2>2, <2>3, <2>4, <2>6, LaunchEffect, DecisionEffect DEF TickStep
<1> QED BY <1>1, <1>2, <1>3

\* Runs, reconciliation and the commands start no process and, without lane
\* rerun and fleet cleanup, remove no worktree.
LEMMA ProcessElsewhere ==
  ASSUME WorktreesStay, TypeInv, ProcessInv,
         Reconcile \/ Operator \/ (\E s \in Stamps : RunStep(s)) \/ UNCHANGED vars
  PROVE  ProcessInv'
<1>1. worktrees' = worktrees /\ tick' = tick
  BY DEF WorktreesStay, Reconcile, Operator, ProjectAdd, ProjectRemove, TaskCreate, TaskCancel,
         TaskBlock, TaskSetStatus, LaneStop, LaneRerun, Cleanup, CanRun, RunStep, RunReports,
         RunEnds, RunWrites, RunKilled, vars, disk, registry
<1>2. \A s \in Stamps : runs'[s].lane = runs[s].lane /\ (runs'[s].alive => runs[s].alive)
  <2>1. CASE \E s \in Stamps : RunStep(s)
    <3>1. runs \in [Stamps -> Runs]
      BY DEF TypeInv, TypeOK
    <3>2. PICK s \in Stamps : RunStep(s)
      BY <2>1
    <3>3. \/ \E status \in RunStatuses \cup {"none"}, alive \in BOOLEAN : RunWrites(s, status, alive)
          \/ RunKilled(s)
      BY <3>2 DEF RunStep, RunReports, RunEnds
    <3>4. CASE RunKilled(s)
      BY <3>1, <3>4 DEF RunKilled, Runs
    <3>5. ASSUME NEW status \in RunStatuses \cup {"none"}, NEW alive \in BOOLEAN,
                 RunWrites(s, status, alive)
          PROVE  \A r \in Stamps : runs'[r].lane = runs[r].lane /\ (runs'[r].alive => runs[r].alive)
      BY <3>1, <3>5 DEF RunWrites, Runs
    <3> QED BY <3>3, <3>4, <3>5
  <2>2. runs' = runs \/ \E s \in Stamps : RunStep(s)
    BY DEF WorktreesStay, Reconcile, Operator, ProjectAdd, ProjectRemove, TaskCreate,
       TaskCancel,
           TaskBlock, TaskSetStatus, LaneStop, LaneRerun, Cleanup, CanRun, vars, runtime
  <2> QED BY <2>1, <2>2
<1>3. \A k \in Tickers : Claims(k)' <=> Claims(k)
  BY <1>1 DEF Claims
<1> QED BY <1>1, <1>2, <1>3, ProcessKept DEF ProcessInv

\* Two live adapter processes never share the worktree of a lane, also when
\* several ticks and commands interleave, ticks die and runs are killed.  The two
\* commands that break this free a worktree whose process may still be alive.
THEOREM OneProcess ==
  ASSUME WorktreesStay
  PROVE  Spec => []OneProcessPerLane
<1>1. Init => TypeInv /\ ProcessInv
  <2> SUFFICES ASSUME Init PROVE ProcessInv
    BY TypeInit
  <2>1. \A s \in Stamps : runs[s].lane = NoLane /\ ~runs[s].alive
    BY DEF Init, NoRun
  <2>2. \A k \in Tickers : tick[k].pc = "idle"
    BY DEF Init, NoTick
  <2> QED BY <2>1, <2>2 DEF ProcessInv, Claims
<1>2. TypeInv /\ ProcessInv /\ [Next]_vars => (TypeInv /\ ProcessInv)'
  <2> SUFFICES ASSUME TypeInv, ProcessInv, [Next]_vars PROVE (TypeInv /\ ProcessInv)'
    OBVIOUS
  <2>1. TypeInv'
    <3>1. CASE UNCHANGED vars
      BY <3>1 DEF vars, TypeInv, TypeOK, Busy
    <3>2. CASE Next
      BY <3>2, TypeTick, TypeRun, TypeReconcile, TypeOperator DEF Next
    <3> QED BY <3>1, <3>2
  <2>2. ProcessInv'
    BY ProcessTick, ProcessElsewhere DEF Next
  <2> QED BY <2>1, <2>2
<1>3. ProcessInv => OneProcessPerLane
  BY DEF ProcessInv, OneProcessPerLane
<1> QED BY <1>1, <1>2, <1>3, PTL DEF Spec
=============================================================================
