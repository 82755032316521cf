# HOCA in TLA+

HOCA orchestrates coding agents. A *fleet control plane* (`hoca/scheduler.py`,
`hoca/cli.py` and the registry files) turns queued tasks into *lanes*; each lane
starts an adapter process that runs `scripts/run-hoca-task.sh`, the *run*: a
bounded loop of worker, tests, review and arbitration that ends in staging, a
commit and a pull request. The specifications here follow the code of the
repository, `src/`; `PROJECT.json` maps every definition to its lines.

## Inventory

| Component | State | Operations | Hard behaviour | What makes it correct | Module |
|---|---|---|---|---|---|
| Fleet registry (`fleet_registry.py`, `fleet_contracts.py`) | `projects.json`, `tasks.json`, `lanes.json` | create, update, delete of projects, tasks, lanes | whole-file load and write without a lock, several files per operation | no lane without task and project, no lost updates | `FleetScheduler`, `ControlFiles` |
| Scheduler (`scheduler.py`) | local snapshot of the registry during a tick | `tick`, `run_scheduler_loop` | stale snapshot, crash between effects, two ticks at once | caps, conflicts and prerequisites hold for what is launched; one lane per task at a time | `FleetScheduler` |
| Scheduler lock (`scheduler.py`) | pid in `scheduler.lock` | acquire, release | test and write in separate steps, stale and half-written files | one scheduler loop, and a dead one does not block the next | `ControlFiles` |
| Conflict planner, resource governor | none (budget only) | pure decisions | the meaning of "active", "completed", "running models" | decisions bound what runs at the same time | `FleetPolicy` |
| Worktree leases (`worktree_pool.py`, `worktree.py`) | `lane-leases.json`, git worktrees | create, renew, release, clean up, prune | lease and worktree are separate effects; one temporary file for every writer | a lane with a worktree holds its lease | `FleetScheduler`, `ControlFiles` |
| Adapters, sessions (`agent_adapters.py`, `agent_sessions.py`) | a process, a session file | start, status, stop, collect | the process outlives the scheduler | one process per lane | `FleetScheduler` |
| Reconciliation (`fleet_reconcile.py`) | none | copies run statuses to lanes and tasks | matches artifacts by name and time, races with runs | finished runs free their lane, live ones keep it | `FleetScheduler` |
| Operator commands (`cli.py`) | none | task create, cancel, block; lane stop, rerun; fleet cleanup; project add, remove | run at any time next to ticks | leave the registry consistent | `FleetScheduler`, `ControlFiles` |
| Run lifecycle (`run-hoca-task.sh`), webhook listener | lock file, `.hoca-runtime`, run directory, branch, worktree | start, lock, phases from intake to pull request, clean-up on exit and signals; event, dispatch | traps, a clean-up that removes what others use, lock creation in two steps | one run of an issue at work; it works from its own specification | `IssueRuns`, `RunLoop` |
| Task intake, risk, budget (`definition_of_ready.py`, `task_spec.py`, `risk.py`, `validation_assessment.py`, `run_budget.py`) | specification, risk files, exported limits | assess, derive, clamp, override | derived anew in every round from files others may change | an auto-merge has a reason that can be named; limits do not drift | `RiskPolicy`, `IssueIntake` |
| Round loop and arbitration (`round_loop.py`, `arbitration.py`, `hard_blockers.py`, `downgrade_rules.py`, `review_gate.py`) | round, reports and decisions on disk | decide after validation and after review | stale reports, the last round | bounded rounds; hard blockers never proceed | `Arbitration`, `RunLoop` |
| Runners (`worker_direct.py`, `worker_hermes.py`, `cli_worker_adapters.py`, `reviewer_*.py`) | attempt reports, logs | run an attempt or a review, infer its status | killed or silent agents, statuses recovered from logs | an attempt that was stopped is not taken for done, but for the stalls `worker_direct.py` forgives | `RunLoop`, `ProcessMonitor` |
| Process monitor (`monitor.py`) | output lines, two threads, timers | watch, stop | timeout racing completion, a policy stop racing the clock | an attempt is recorded as completed for a cause only; the agent ends | `ProcessMonitor` |
| Publishing gates (`safe-stage-after-review.sh`, `commit-after-staging.sh`, `create-pr.sh`, `auto-merge-guards.sh`) | git index, lists of intended and staged files | stage, commit, push, merge | index changes between gate and use | exactly the reviewed files are committed | `RunLoop`, `RiskPolicy` |
| Project checkout (`run-lane-agent.sh`, branch and staging scripts) | one HEAD, working tree and index for all runs of a project; branches, pull requests | switch, branch, apply, stage, commit, push, restore, delete | checks and uses of the checkout by several runs at once; what earlier runs left in it | a commit is one run's; a run delivers its own work on its own branch | `ProjectCheckout` |
| Review fan-out and readiness (`review_fanout.py`, `pr_readiness.py`, `merge_readiness.py`) | one report, the repair brief | load sources, merge signals, classify, plan a repair | answers in any order; reads of GitHub and git at different moments | no verdict lost; what is reported ready was ready | `ReviewSignals`, `LaneReadiness` |
| Everything else (model selection, reports, kanban, sandbox, installation) | configuration and text | lookups, rendering, delivery | little | not protocol: see `PROJECT.json` | |

Interaction: the scheduler calls planner, governor, lease pool and adapters, and
shares the registry files with the operator commands. The adapter process and
the control plane share only files: the run writes `status.json` and
`final-state.json`, reconciliation reads them later. Runs of one issue, and the
webhook listener that starts them, share the lock file, the run directory and
`.hoca-runtime`. All runs of a project, in whichever lane, share its checkout: the
leased worktree of a lane is only named in the environment of its run. Nothing
notifies anybody.

## Modules

The fleet:

* `FleetPolicy`: the pure decisions of `conflict_planner.py` and
  `resource_governor.py`, over *areas* in place of file paths. All constants of
  the policy and their assumptions are here.
* `FleetScheduler`: the control plane. One variable per file or directory
  (`projects`, `tasks`, `lanes`, `leases`, `worktrees`), the adapter processes
  with the status each has written (`runs`, and `newer` for the order of
  modification times), the local variables of every tick (`tick`), a clock of
  lane creations (`created`), and the history variable `cleanedOnce`.
  A tick is a sequence of steps, one per effect: `BeginTick` (the reads),
  `KeepWaiting` / `MarkActive` / `Launch` (the decision about the next task),
  `CreateWorktree`, `RecordLease`, `CreateLane`, `SpawnAdapter`, `RecordStart`,
  `FinishLaunch`, `EndTick`. `TickDies` ends it anywhere: an exception of the
  registry or lease pool, which `tick` does not catch, or a crash.
  The commands of `cli.py` and `Reconcile` are single steps, except that the
  tick inside `lane rerun` is a tick like any other.
* `ControlFiles`: the files under those variables, one file system call at a time.
  `name` is the directory and `data` the contents of each inode, so that a process
  that has a file open writes into it whatever its name has become. A scheduler
  loop looks for the pid file, reads it, unlinks a stale one, opens and fills its
  own (`Start` to `FillLock`) and gives it back (`Release`, `RemoveLock`). Loops and
  commands update the registry and the lease index by `LoadIndex`, `OpenTemp`,
  `WriteTemp` and `Replace`; any of them may be killed between two calls. `raced`
  and `clash` are history: whether two loops met while they acquired the lock, and
  which index two processes were updating at once.

The run:

* `Arbitration`: the decision rules a run applies to a review report and to its
  validation signals (`arbitration.py`, `hard_blockers.py`, `downgrade_rules.py` and
  the two decisions of `round_loop.py`), as operators on findings of a severity and a
  category.
* `RunLoop`: one run of `run-hoca-task.sh`, and its repetition. Every file of the run
  directory the loop reads back is a variable (`attempts`, `stop`, `testsExit`,
  `secretSeen`, `listed`, `reports`, `log`, `decision`, `draftFlag`, `intended`,
  `stagedList`, `status`, `final`); `tree`, `index`, `commits` are the unstaged and
  staged changes of the worktree and the commits of the branch; `checkout`, `cached`
  those of the project checkout; `published` and `pr` the remote. The actions are the
  phases: `WorkerAttempt`, `CheckAttempt`, `CheckChanges`, `RunTests`, `Review`,
  `ArbitrateRound`, then `ApplyWorktree` or `ApplyFails`, `Stage`, `Commit`, `Push`,
  `CreatePR`, `RecordPR`. `Interrupt` is a signal anywhere, `Rerun` the next run of the
  same task, `HumanCleans` a person who clears the checkout a run left dirty.
  A change is an *item*, one for each round's attempt and one for a tracked file that
  the tests themselves rewrite: enough to tell what the tests, the reviewer, the
  staging gate and the branch each cover. `Runners` says who runs an attempt:
  OpenHands alone (`DirectEnds`), OpenHands under Hermes (`ProfileEnds`), or
  another command line agent (`CliEnds`); each records its status, exit code and
  stop reason in a way of its own.
* `ApprovedRelease`: what a run promises: the branch it pushes holds exactly what
  was approved, the approval was of work that existed, and any later change of the
  work ends it. `RunLoop` implements it with the approval mapped to the manager's
  decision to proceed and what it approves to what the report's reviewer saw.
* `ProcessMonitor`: one agent under `monitor.py`. The main thread takes and judges
  lines (`TakeLine`, `JudgeLine`, `EndOfOutput`), settles its reason, kills, waits
  and returns; the watchdog wakes, flags and kills, each a step of its own; the agent
  prints, exits, or closes its output, and a grandchild may keep that open.
  `variant` selects the monitor of a child process or that of a container's output.
  A line is its source and the traits the five policy checks look for. `Report` is
  the runner of a worker attempt, `engine` which one: `worker_direct.py`, which takes
  an agent that stalled with changes in the project for finished, or
  `cli_worker_adapters.py`, which does not.
* `RiskPolicy`, `IssueIntake`: the pure part of the intake. Files are sets of the
  kinds the path patterns put them in, tasks the traits the text patterns find. The
  patterns of `risk.py` and those of `auto-merge-guards.sh` are not the same, so some
  kinds (`"risk pattern"`, `"gate pattern"`) are known to one of them only;
  from them come the definition of ready, the specification, the limits of rounds
  and seconds with overrides and express mode, risk levels, required
  justifications, scope and staging risk, and the gate before auto-merge.
* `IssueRuns`: the runs of one issue. The shared state is `runtime` (the
  directory), `lock` (by whom created, with whose token) and `dir` (lock metadata,
  specification, justification, changed files and risk). A run makes the directory
  and writes its metadata (`Prepare`), creates and fills the lock (`TakeLock`,
  `FillLock`), derives specification and limits (`Generate`), goes through rounds
  (`Validate`, `Repair`), lists its changes and publishes (`Accept`, `Publish`),
  and cleans up (`Release`, `Wipe`, twice after a signal). The listener takes the
  lock and starts a run (`Webhook`). `displaced` is history: the runs that lost
  their lock to the cleanup of another.

* `ProjectCheckout`: the runs of one project in its one checkout, a step for every git
  command and for every check between them. `head`, `dirty` and `staged` are the branch
  that is checked out, the working tree and the index; `local`, `remote` and `prs`
  the commits of each branch here and at origin and the open pull requests. A run
  begins on a clean tree (`Begin`, `SwitchToDev`, `Sync`), creates its branch from the
  development branch of origin (`CreateBranch`), works in a disposable worktree
  (`Work`), and brings its change into the checkout (`CheckoutBranch`, `ApplyPatch`).
  Staging, commit and pull request follow gate by gate (`CheckChanged` to `RecordUrl`),
  then the way back (`CheckRestore`, `Restore`) and the removal of an unpublished branch
  (`CompareBranch`, `DeleteBranch`). `GiveUp` is a failure or a signal anywhere, `Kill`
  a process that goes without its trap. `commit`, `landed`, `opened` and `url` say where
  the work of each run went; `overlapped` and `clashed` are history: the runs that
  were live together with another, and those that applied their patch to a file with
  another run's change in it.

The lane:

* `ReviewSignals`: a reviewer's text to signals. The parser of structured reports,
  the three shapes of other payloads, sources and adapters, the merge by key and
  the aggregation by verdict.
* `LaneReadiness`: four jobs on a lane, one at a time: collecting signals with a
  bounded number of loads in flight, the two reads of a pull request (`ReadChecks`,
  `ReadView`) with GitHub moving between them (`PrMoves`), the checks of the checkout
  one by one with the checkout moving (`RepoMoves`), and the repair dispatch.

`RunLoop` EXTENDS `Arbitration`, `IssueRuns` EXTENDS `IssueIntake` EXTENDS
`RiskPolicy`, `LaneReadiness` EXTENDS `ReviewSignals`, `FleetScheduler` EXTENDS
`FleetPolicy`. `MC<module>` defines the constants of the instances, and
`<module>Proofs` the theorems. The fleet sees of a run only the statuses it writes:
`RunReports`, `RunWrites` and `RunEnds` of `FleetScheduler` allow every sequence of
them, so they stand for `RunLoop` and for the other programs an adapter may start.
`RunLoop` has of the monitor only the stop reasons and statuses `ProcessMonitor`
produces, and `IssueRuns` of the rounds only what they read and write in the
shared directory.

Definitions marked "Mutant" state a plausible mistake in the definition that
follows them. No specification uses them; `PROJECT.json` names the property
that rejects each one.

### What the abstraction leaves out

Paths, branch names, reasons and times are not modelled; a lane is the pair of
its task and its number. Two path lists overlap when the tasks share an area.
`created_at` of a lane and `started_at` of a run are the same clock, so that the
filter of old artifacts in `_candidate_run_dirs_for_lane` is kept. Free memory
and load may refuse any launch (`HostLimits`). In `FleetScheduler` writing an index
file is atomic, and so is a whole operator command; `ControlFiles` splits them and
keeps only the keys. Only the statuses that `fleet_reconcile.py` maps are
distinguished; `"none"` stands for all others.

In `ControlFiles` a process that writes into a file somebody else has filled leaves
its own contents or a mixture (`Torn`), because the longer of two texts shows behind
the shorter. The pid of a process that has ended may belong to another by now.
The lock metadata of `IssueRuns` is filled in one step; a run killed between
creating and filling leaves the lock empty.

Several reads or writes are one step where the module is about something else: the
reads of the registry at the start of a tick (`Snapshot`, `scheduler.py:192-200`), the
two files that `create_lane` writes (`CreateLane`; `ControlFiles` has the calls one by
one), the branch and the status a run reads when it starts (`Begin` of
`ProjectCheckout`, `run-hoca-task.sh:553` and `555`).

In `ProjectCheckout` a run makes at most one commit, known by its name, and a branch is
the set of commits its base has not. A run changes a set of files, which other runs may
change too: a rerun of a task, a run by hand, a file no task declares. The tree, the
index and a commit say of each file *whose* changes it has; the gates see its name only.
A file a run made anew is unpacked over what is there; that the other run's change is
then gone from the file is kept, that its author may do it again is not. `git checkout`
refuses when a file with uncommitted changes differs between the branches. The
development branch is the default branch of origin, and a task branch starts from
origin, as it does by default: with `HOCA_SYNC_DEV_BRANCH=false` or without an origin
(`run-hoca-task.sh:525-549`) it starts from the local development branch, and without a
development branch from HEAD (`run-hoca-task.sh:504-509`), with whatever an overlapped
run has committed there. `AloneDeliversItsWork` is not claimed for these settings; the
mutant `BranchFromHead` shows how it fails. Every command may fail instead (`GiveUp`),
which covers the gates of file policy and a busy `index.lock`. A signal during the last
cleanup of a run, which repeats it, is left out, and so are merges of pull requests.

In `RunLoop`, prompts, model calls, diffs and the text of reports are left out: a
worker leaves its item unstaged, staged, committed or reverted, a reviewer states one of
a set of opinions. `Hidden` items are on paths of `validation-side-effect-files.txt`;
untracked files created by the tests are dropped. The file policy of the staging
script may refuse any list. Not modelled there: the mode without a worktree,
changes that only delete files, and the second
"no changes" exit before staging, which the first makes unreachable; one run
of a task is active at a time, several are the subject of `IssueRuns`.

In `ProcessMonitor` the clock is two flags, over the limit or not; a signal is
answered, SIGKILL at the latest. The attempt under Hermes, whose status also comes from
words in its output, is in `RunLoop` (`ProfileEnds`). In `LaneReadiness` the state
GitHub computes for a pull request follows from the state at that moment, is `UNKNOWN`,
or is missing from the answer (`leftOut`), as the state of the pull request may be: that
part is a model of the service, taken from how `_classify_pr_view` reads it.
In `RunLoop` the risks of scope and staging do not reach arbitration
(`RecordedBlockers`): the list they need is not there yet.

## Runs

Twelve runs, nine that pass and three that show a disagreement.

The fleet instances use two tasks, one or two ticks, at most two lanes per
task and two lanes in a behaviour. Two lanes are what a race needs: one
running, one starting. `Exclusive` means the operator starts nothing during a tick
and there is one tick at a time; `Faults` lets ticks crash, git and adapters fail
and runs be killed.

| Run | Setting | Shows |
|---|---|---|
| `FleetCrash` | exclusive, faults, project, task and lane commands, both adapter modes, tasks that share an area | `TypeOK`; `LaneKeepsWorktree`, `OnlyIdleTasksLaunch`, `ConflictingLanesNeverStart`: a crash at any step leaves a registry from which the next tick, rerun or cleanup goes on correctly |
| `FleetTwoTicks` | two interleaved ticks, lane stop, project removal, a prerequisite, host limits | `OneProcessPerLane` without reruns and cleanups; `PrerequisitesRespected` |
| `FleetLoop` | one scheduler loop next to task commands, one lane and one resident model at a time, runs that end with a pull request, unmapped or not at all | `LaunchWithinCaps`; `DecisionsStand`: a cancel, a block or a reconciled status that no tick under way can still overwrite stands; `QueuedTasksLeaveTheQueue` |
| `FleetRerun` | violation | `OneProcessPerLane` with `lane rerun`, which stops no process |
| `ControlFiles` | two loops and a command, a tick of a lease and a record, the four sequences of updates the commands make, kills anywhere | `OneOwnerUnlessRaced`, `LockLeftOnlyByKill`, `UpdatesLostOnlyByOverlap`, `RegistryStaysReadable` |

In `ControlFiles` two loops and one other process are enough for each hazard: two to
race for the lock, one of them killed and the other meeting its file, and a third
writer of an index between the load and the replace of the other two.

| Run | Setting | Shows |
|---|---|---|
| `RunLoop` | two rounds, two runs, all three runners, fresh run directory for each run; first attempts may stage, commit or touch side effect files, repair attempts may also revert but not commit; no syntax errors | `TypeOK`; `DeliveredWasReviewed`; `DeliveredWasTested`; `ResidueOnlyInDraft`; `StoppedWorkStays`; `HonestStatus`; `RunsEnd`; `ReleasesWhatWasApproved`, the refinement of `ApprovedRelease` |
| `RunRepairCommit` | violation | `DeliveredWasReviewed` when the worker commits in a repair round: only the commits of first and retried attempts are moved back to the worktree |
| `Monitor` | both monitors, all roles, both engines, a line for each way through the policy | `CompletedForCause`; `NobodyLeftToKill`; `AgentIsBounded`; `MonitorReturns` |
| `Issue` | two runs of an issue next to the listener; a small, a risky and an unready task, an environment that keeps the runtime, one with overrides, express mode; changes of a guide, of a guide on a path only `risk.py` knows, of an infrastructure example | `TwoWorkOnlyAfterCleanup`; `LeftLockIsSwapped`; `SpecificationIsOwn`; `MergeRestsOnEarlierList`; `RoundLimitIsKept` |
| `IssueWebhook` | violation | `DispatchedRunWorks`: the listener holds the lock that the run it starts has to take |
| `Checkout` | three runs of a project, two with a file each and one that changes both files, every git command a step, failures, signals and kills anywhere | `CommitsAreOneRuns`; `AloneDeliversItsWork` |
| `Readiness` | four review sources, three at a time, a pull request with two checks, answers with and without its state and its merge state, every state of the checkout | `FirstSourceWins`; `NoVerdictLost`; `ReadyWasReadyAtOnce`; `FindingsStand` |

The run loop is checked with two rounds and two runs of the task (the code's default cap
is three rounds). Two rounds already have a first and a last round, a round before which
a report was left in the logs, and a round whose attempt meets the files of the one
before; the second run meets the checkout the first one left. The restrictions of
`RunLoop` are the boundary of what the code guarantees. With `Breaks = {TRUE, FALSE}`
one more path violates `DeliveredWasReviewed`: the syntax check of the review gate turns
an `LGTM` down, the original report stays in the logs, and a later reviewer that times
out has it recovered as its own.

`Issue` has two runs; every one of its properties speaks of one or two runs, and all of
them are proved for any number. `Monitor` is the whole system: one agent, two threads.
`Checkout` has three runs: two that overlap and leave the checkout in any state they
can, and a third that comes after them, alone. Two files are enough for runs that have a
file in common, have all of them in common or have none; the symmetry is the one that
swaps the two runs of one file together with their files. Its two properties are proved
for any number. `Readiness` checks one job at a time, as the code runs them, with what
lies outside chosen anew for each.

Deadlock checking is on for the fleet, where reconciliation can always run, and for
`Readiness`, where a new job can always start. It is off where the system stops:
after the last run the script has exited, the monitor has returned, the processes of
`ControlFiles`, `IssueRuns` and `ProjectCheckout` have ended.

### Fairness

`RunLoop` assumes weak fairness of its steps together: the script goes on when the
process it waits for ends. Worker and reviewer end because of the monitor's timeout
and the deadline in `reviewer_direct.py`; that the project's tests, git and gh end is
an assumption about them, `run-tests.sh` sets no limit. It needs no fairness of
signals, people or later runs. `RunsEnd` then rests on the counting of rounds alone.

`Monitor` assumes that both threads are scheduled and that the clock runs. Nothing
is assumed of the agent: it need not print, exit or close its output. `TakeLine` is
therefore without fairness, and `MonitorReturns` starts where the output has ended.

`FleetLoop` assumes weak fairness of the steps of a tick (the scheduler process
runs, and `run_scheduler_loop` calls `tick` again and again), of the end of every
run (worker and reviewer have time limits, tests are assumed to end, and rounds are
bounded by `max_total_rounds`), and of reconciliation (`fleet status`, `task list`,
`lane list` and `scheduler status` each reconcile; the loop itself does not).
There is no fairness on operator commands. Without the last assumption a finished
lane keeps its slot for ever. With a run that is killed after its first status the
property does not hold either: the status stays active and outweighs the check
that the process is gone (`fleet_reconcile.py:150`), so `FleetLoop` has no faults.

### Known divergences without a run of their own

These show in the models when a bound or a restriction is lifted.

* Two ticks without a common lock launch over a cap (`LaunchWithinCaps` with two
  tickers). `ControlFiles` says when two ticks can meet: `scheduler tick` and
  `lane rerun` take no lock, and two loops may race for it.
* More lanes are active than the caps allow when a run that reconciliation took for
  ended reports again: the ERR trap writes `failed` for a test command that fails
  inside the repair loop (`run-hoca-task.sh:826`), or an operator stopped the lane.
* The tick writes back the task record it read before the launch
  (`scheduler.py:370`) over the one to which `create_lane` has just added the lane
  (`fleet_registry.py:169`), so `lane_ids` of a task is empty. In the same way a tick
  that has a task still to handle writes `running` over a cancel or a block made since
  the tick began (`scheduler.py:221` and `370`): `DecisionsStand` without the second
  conjunct of `Settled`.
* No running lane counts for `max_resident_models` (`LaneModels` is always empty).
* A draft that arbitration decides for with the verdict `fix_required` is refused by
  the staging gate, which accepts `LGTM` only (`safe-stage-after-review.sh:28`).
* The latest worker attempt is the last in lexicographic order
  (`run-hoca-task.sh:1140`), which differs from the tenth round on.
* The lease index, with its single temporary file, can be torn by two writers, and a
  torn index is loaded as an empty one; `RegistryStaysReadable` holds of the registry
  files only.
* A pid file that is empty, because a loop was killed before it filled it, keeps
  every later loop from making ticks until someone removes it.
* An issue run that ends without `HOCA_KEEP_RUNTIME` removes `.hoca-runtime` with the
  locks and run directories of all others; `displaced` counts them.
* The seconds a first round derives become the override of every later one.
* The run directory of an issue is always the same one, and survives with
  `HOCA_KEEP_RUNTIME` and in fleet lanes (`run-hoca-task.sh:704`). Nothing removes the
  old reports, so the next run of the issue may deliver new work on the `LGTM` the one
  before was given for other work: `DeliveredWasReviewed` with `KeepRuntime = TRUE`.
  `hermes-skills/hoca-manager.md:552` counts "unreviewed changed files" among the hard
  blockers.
* Two runs that overlap in a project commit on whichever branch is checked out at that
  moment: that of another run, or the development branch; the pull request that a run
  pushes, opens and records may be that of another branch, and the branch of a run that
  holds the commit of another may be deleted. `hermes-skills/hoca-pr-publisher.md:59`
  asks for changes "on the task branch (not default branch)", and
  `docs/fleet-orchestration.md:13` gives each lane "its own worktree". By default a
  project has one task at a time (`max_parallel_tasks` of `fleet_contracts.py:206`), and
  then `AloneDeliversItsWork` is about every run; a raised cap, `lane rerun` or a second
  run by hand brings the overlap.
* Once a run applies its patch to a file in which another run's change is, commits mix:
  safe staging and the commit script compare file names
  (`safe-stage-after-review.sh:107-126` and `306`, `commit-after-staging.sh:59-66`), so
  another run's hunk in an intended file passes. After such a clash even a run that
  shares no file with any other may find its hunk in another's commit, because a tree
  with the names of one run no longer has the changes of one run.
* Auto-merge goes by a risk level that was taken before the run listed its changes
  (`run_artifacts.py:474`). In a fresh run directory it is `unknown` or that of the
  words, and the run is never merged; in a kept one it is that of the list an earlier
  run left. `README.md:446` ("Risk level must be low.") is not kept then, and neither is
  `README.md:451` ("**never** allowed for authentication, authorization, payment,
  database migration, infrastructure, or security-sensitive changes"): the gate knows
  fewer patterns than `risk.py:71-84` (no `permissions/` at the root, for instance), and
  lets infrastructure pass that the justification file names
  (`auto-merge-guards.sh:176-181`). `MergeRestsOnEarlierList` says what is left.
* An agent that closes its output while it works, and is then killed by the watchdog,
  is reported as completed by the monitor of a child process when it answers SIGINT
  with exit code 0 (the exception in `EndedWell`). One that the watchdog stopped for a
  stall is recorded as completed with exit code 0 by `worker_direct.py:223-227` when the
  project has changes (`worker_hermes.py:384-391`), although the work may be half done
  (`StalledAfterWork`).
* A pull request is called ready without a merge state when GitHub leaves it out
  (`pr_readiness.py:142`), conflicts or not: the exception in `ReadyWasReadyAtOnce`.
* A lane without a base reference is `not_ready` although an earlier check found it
  blocked (`merge_readiness.py:294`; the exception in `FindingsStand`). An adapter
  that runs into its timeout (`review_fanout.py:139`), and a `gh` call that does,
  raise and leave no report.

## Proofs

`FleetSchedulerProofs` proves for all constants that satisfy `PolicyAssumption`
and `SchedulerAssumption`:

* `TypeCorrect`: `Spec => []TypeOK`. `TypeOK` is not inductive alone: a tick in
  the middle of a launch uses its lane as an index, so `TypeInv` adds `Busy`:
  while the program counter is inside a launch the tick's lane is a lane, and
  from the creation of the record on its stamp is that of a created lane. Lane numbers are
  cardinalities, which `NextLaneNoIsNat` bounds with the library's theorems on
  finite sets.
* `Prerequisites`: `Spec => []PrerequisitesRespected`, from `PreparedInv`. The
  lanes do not say why they exist, so the invariant also says that every task that
  ever had a cleaned lane was prepared (`CleanedPrepared`), that the history
  variable remembers every cleaned lane, that the `completed` set of every tick's
  snapshot is part of it, and that a launch under way is prepared. It holds
  for interleaved ticks because `cleanedOnce` only grows: a stale snapshot is a
  smaller one.
* `OneProcess`: `OneProcessPerLane` for interleaved ticks and with crashes, under
  `WorktreesStay` (neither `lane rerun` nor `fleet cleanup` is used). In `ProcessInv` the
  worktree is the claim: `git worktree add` refuses one that exists, so a tick between
  that step and the start of its adapter, or one process, is its only owner. The
  hypothesis is where the code stops guaranteeing it: `FleetRerun` shows two processes
  with `lane rerun`.
* `NoConflictStarts`, `OneActiveLanePerLaunch`, `CapsHoldAtLaunch` and `WorktreeKept`,
  under `Exclusive`: no command and no second tick falls between the steps of a tick.
  The pid file gives that for the ticks of loops only (`OneOwner` below); commands take
  no lock, so an operator has to. Runs still report at any step, and under `Faults` the
  tick dies anywhere and the next one finds what it left. `SoleInv` says that the
  snapshot then stays true up to the tick's own lane (`SnapshotHolds`) and that the
  decision to launch stands until the record is there (`LaunchHolds`); the four
  properties are each a few steps from it.
* `DecisionStands`: `DecisionsStand` without `Exclusive`, for any number of interleaved
  ticks, with commands, reconciliation and crashes anywhere. Its invariant,
  `LaunchesHeld`, says that a tick in the middle of a launch still has the task among
  those to handle; a tick takes only queued tasks on, so no tick has a settled one until
  somebody queues it again.

`RunLoopProofs` proves for all constants that satisfy `RunAssumption`:

* `RunTypeCorrect`: `Spec => []TypeOK`. `TypeOK` is inductive. The interesting part
  is `round \in Rounds`: each of the three paths into a next round is shown to be
  guarded by the cap (`RepairHasRound`).
* `DeliveredReviewed`: `Tidy` implies `Spec => []DeliveredWasReviewed`. `Tidy` is the
  boundary that `RunRepairCommit` and the divergences above draw: fresh run directories,
  no commits in repair rounds, no syntax errors. The property speaks of the branch only;
  its invariant, `ReviewInv`, follows the work back to the review: the patch in the
  checkout (`CoversPatch`) is what the approved report saw, the report under decision
  (`CoversWork`) is one of the present work *or one that cannot be passed*. The latter
  is what makes reports recovered from the logs harmless: the loop only goes round again
  for a report with a material finding that states an early round (`AsksForRepair`), so
  that is all the logs can hold (`NothingStale`), and taken again it can only ask for a
  repair again (`DecisionMeaning`). The step uses `Validated`, because failing tests
  would be another reason to repair.
* `ResidueStaysInDraft` and `StoppedWorkIsKept`: `ResidueOnlyInDraft` and
  `StoppedWorkStays` hold without `Tidy`. Both come from `DecisionInv`, which says of
  every state after the decision what the decision was taken on (`PassedDecision`).

`RunReleaseProofs` goes on from there to what a run publishes:

* `StatusIsHonest`: `HonestStatus`, for run directories that are not kept
  (`~KeepRuntime`): otherwise the final state of the run before stands until this one ends.
  `StatusInv` says which status goes with what on the remote at each step; each
  step writes its status after the deed.
* `DeliveredTested`: `DeliveredWasTested`, for fresh directories and repairs that commit
  nothing (`FromScratch`). `TestedInv` follows the tested items from the working tree
  over the list of intended files and the staged list to the commit.
* `ReleaseRefines`: `Spec => ReleasesWhatWasApproved` under `Tidy`, the refinement of
  `ApprovedRelease`. The mapping shows an approval from `ApplyWorktree` to the push, so
  the decision maps to `Approve`, the push to `Release`, a new attempt to `Rework`, a new
  run to `StartOver` and everything else to a stutter. The hard part is `Approve`: the
  approval has to be of the work as it is, which is what `ReviewInv`, `TestedInv` and
  `SawInv` together say, and the push has to release exactly that.

`IssueRunsProofs` proves for all constants that satisfy `IssueAssumption`, with any
number of runs, one inductive invariant `IInv` and from it every property of the run
`Issue`. Its parts besides `IssueTypeOK`:

* `PhaseInv`: what a run remembers at each step of its program (its task from
  `Prepare`, its environment from `FillLock`, its limits and its work later).
* `LockInv`: a run that holds the lock is its creator or displaced, two holders
  include a displaced one, and the token in a lock its owner has filled is a run's;
  this carries `AloneButForCleanups` and `LeftLocks`. The induction is over who can
  remove a lock: the owner by its token, the second cleanup of a signalled run, and the
  removal of the whole directory, each of which enters its victims in `displaced`.
* `DataInv`: while nobody is displaced, the directory holds the specification and the
  changed files of the run that works in it (`WorksFromOwnSpecification`).
* `EvidenceInv`, beside `IInv`: the list in the directory is that of some run, a run has
  listed nothing before its last validation, and a low level in the directory of a run
  that was judged is backed by the list of *another* run (`Backed`).
  `MergesOnEarlierList` follows from it and from `DataInv`.
* `LimitOfRoundsStays` needs no more than that the limit of rounds of a specification
  and an environment is the same in every round (`RoundsOfEveryRound`): only the
  seconds are exported and read back.
* `ReleaseSparesOthers` (an action property) and `BudgetInRange` (a fact about the
  derivation with any floors and ceilings, from `ClampInRange`) stand beside it.

`ProjectCheckoutProofs` proves for all constants that satisfy `CheckoutAssumption`, with
any number of runs, one inductive invariant `IInv` and from it `CheckoutTypeCorrect`,
`CommitsStayApart` and `AloneDelivers`:

* `Exclusive` is why commits stay apart although there is no lock. As long as no run
  applied its patch to a file with another's change (`clashed = {}`), the tree itself is
  the lock. A file then has the change of one run at most, and nothing removes a change
  from the tree but the commit that has it. A run that passed `CheckChanged` saw exactly
  the names of its own files, all of which have its change; so nobody else has one in
  the tree, and every other run still has to apply its patch before the same check
  (`ByName`, `Patched`). Hence at most one run is between that check and its commit, and
  the index holds nothing but its change. The proviso is not stronger than needed: after
  one clash the property fails for any run (see the divergences).
* `History` says where a commit can be: on the branch it landed on, or, when that is the
  development branch, on those that started from it since.
* `AloneNow` says that a live run outside `overlapped` is the only live one, `AloneTree`
  that it finds the tree empty and then has its own changes alone there, clashes of
  earlier runs or not, and `AloneSteps` what it has reached at each of its steps: its
  own branch is checked out from `CheckoutBranch` on and has nothing but the base and
  its change, what is pushed is that branch, and the pull request is of it. Together
  they give `AloneDeliversItsWork`, which then has to survive the runs that come later:
  by `AloneNow` none of them has the branch of an earlier run checked out when it
  commits or pushes, unless they overlap.

`ControlFilesProofs` proves for all constants that satisfy `ControlAssumption`, with any
number of loops and other processes, one inductive invariant `IInv` and from it every
property of the run `ControlFiles`:

* Everything rests on which file a name stands for. `OpenFilesInv` says that a file a
  process is about to write is reached, if at all, by the name it was opened under or
  the index that name is to replace, so that a write lands nowhere else; that there is
  always a file to create is a matter of counting (`FreeFile`).
* `LockInv`: until two loops have been acquiring the pid file at once, a loop that
  acquires or owns it is alone, and its file names it (`OneOwner`). Taking over a stale
  file is the step that needs the second half.
* `LeftInv` gives `LockLeftByKill`: a pid file has somebody who will remove it, or a
  killed loop.
* `TempInv` and `UpdateInv` give `UpdatesSurvive`: as long as updates of an index do not
  overlap, one at a time goes from what the completed ones have made, and its temporary
  file has what it has put there. `RegistryReadable` needs no such proviso, because the
  temporary file of the registry has the process in its name.

`ProcessMonitorProofs` proves for all constants of `ProcessMonitor` the three safety
properties of the run `Monitor` from one invariant `IInv`: who can have killed the agent at
each step of the two threads (`EndInv`), what the main thread knows when it has nothing to
object (`SeenInv`), and that a reason once found stays (`ReasonInv`). `CompletedHasCause`
needs all three: the salvage of a stall must not be reached with the reason of a policy
stop, whichever of the two threads settled first.

`LaneReadinessProofs` proves for all constants that satisfy `ReadinessAssumption` the
properties of the run `Readiness`:

* `FirstOfSources` and `NothingLost` are about the merge of any number of signal files.
  That they can be put in the order of their sources at all is a lemma (`SortExists`: the
  position of a load is the number of loads before it), as is that the merge keeps the first
  signal of each key (`FirstWithKey`).
* `ReadyAtOnce` is an action property. The verdict is taken in one step, from the second
  read; that the checks passed is what `ChecksInv` carries over from the first.
* `NoFindingTakenBack` needs `LocalInv`, which says after each check of the checkout what
  was found so far; that a lane without a known base has an issue by then
  is the conjunct without which it is not inductive.

Only model-checked are the four liveness properties, `QueuedTasksLeaveTheQueue`,
`RunsEnd`, `AgentIsBounded` and `MonitorReturns`, because liveness is out of reach of
the prover, and `LaunchWithinCaps` for a loop with commands between the steps of its ticks
(`FleetLoop`): there it depends on no lane coming back to life by a reconciliation, which the
runs of that instance never cause. Every other property of a passing run is a theorem.

## Not modelled

* Expiry, pruning and `cleanup_stale` of leases and `status`, `stop`, `send` and
  `collect` of adapters: no command calls them.
* Where the development branch is configured (`dev_branch.py`), a run without an origin,
  the mode without a worktree, changes that only delete files.
* Text: patterns, prompts, diffs, wording of bodies and reports, redaction.
* Lookups and rendering without shared state: model selection, caches, doctor,
  reports, benchmarks, kanban, project memory, notifications, tmux, installation.
* Container isolation and network policy: strings and arguments of `docker`.

## Plan

1. *(done)* `FleetPolicy`, `FleetScheduler`, type correctness and prerequisites.
2. *(done)* `Arbitration`, `RunLoop`, `ApprovedRelease`: type correctness, what is
   delivered was reviewed, drafts and stopped work.
3. *(done)* `IssueRuns` with `IssueIntake` and `RiskPolicy`: the lock of an issue,
   signals and cleanups, intake, limits and auto-merge, proved for any number of runs.
4. *(done)* `ControlFiles`: scheduler lock and index files, call by call.
5. *(done)* `ProcessMonitor`, `ReviewSignals`, `LaneReadiness`.
6. *(done)* `ProjectCheckout`: runs that publish from one checkout, proved for any number.
7. The depth-first search of `detect_dependency_cycle` against `DependencyCycle`;
   the path normalisation of the planner.
8. *(done)* A theorem for every safety and action property of a passing run.
9. `LaunchWithinCaps` without `Exclusive`, with the exact condition on commands and run
   reports under which the tick's count stays an upper bound.
