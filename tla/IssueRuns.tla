----------------------------- MODULE IssueRuns ------------------------------
(***************************************************************************)
(* The runs of one issue in one project: what scripts/run-hoca-task.sh does*)
(* with the lock file, the run directory and the .hoca-runtime directory   *)
(* they share, and the webhook listener that starts runs. A run of an issue*)
(* always has the same run directory and the same lock.                    *)
(***************************************************************************)
EXTENDS IssueIntake

CONSTANTS
  Runs,           \* processes that run the issue, each once
  Listener, Empty, None,
  Tasks,          \* tasks the runs may be started with
  Project,        \* what the repository adds to a task
  Environments,   \* environments they may be started in
  Changes,        \* what a run may change: files, and whether the diff is long
  Justifications  \* what staging-justification.txt may hold

(* What the processes, the lock and the run directory hold *)

Steps == {"new", "lock", "fill", "generate", "working", "review", "publish", "release", "wipe",
          "rerelease", "rewipe", "stopped", "refused", "done", "killed"}

LimitType == [rounds : Nat, timeout : Nat]
EnvType == [keep : BOOLEAN, auto : BOOLEAN, express : BOOLEAN, rounds : Nat, timeout : Nat,
            floor : LimitType, ceiling : LimitType]
ChangeType == [files : SUBSET FileType, long : BOOLEAN]
SpecType == [traits : SUBSET Traits, risk : Levels, areas : Nat, commands : SUBSET STRING,
             approval : BOOLEAN]
RiskType == [level : Levels, auto : BOOLEAN, scope : BOOLEAN, staging : BOOLEAN]

LockType == [by : Runs \cup {Listener}, token : Runs \cup {Listener, Empty}]

\* Lock metadata, task specification, the auto-merge flag of the status, the
\* justification, the changed files and the risk of the last validation.
DirType == [meta : Runs \cup {None}, spec : SpecType, auto : BOOLEAN, just : Justification,
            changed : ChangeType, risk : RiskType \cup {None}]

ProcType == [at : Steps, task : Tasks \cup {None}, env : EnvType \cup {None}, round : Nat,
             limits : LimitType \cup {None}, work : ChangeType \cup {None},
             merge : BOOLEAN, twice : BOOLEAN]

ASSUME IssueAssumption ==
  /\ Tasks \subseteq TaskType /\ \A t \in Tasks : IsFiniteSet(t.paths)
  /\ Project \in ProjectType /\ IsFiniteSet(Project.paths)
  /\ Environments \subseteq EnvType
  /\ Changes \subseteq ChangeType /\ Justifications \subseteq Justification
  /\ Listener \notin Runs /\ Empty \notin Runs \cup {Listener}
  /\ None \notin Runs \cup {Listener, Empty} /\ None \notin LockType /\ None \notin DirType
  /\ None \notin ChangeType

VARIABLES
  runtime,    \* .hoca-runtime/runs exists
  lock,       \* issue-N.lock: who created it and whose token it holds, or None
  dir,        \* the run directory, or None
  proc,       \* the processes
  held,       \* the listener holds a lock it will release
  dispatched, \* runs the listener has started
  displaced   \* runs that lost their lock to another run (history)

vars == <<runtime, lock, dir, proc, held, dispatched, displaced>>

-----------------------------------------------------------------------------
NoChange == [files |-> {}, long |-> FALSE]
NoJustification == [files |-> {}, broad |-> FALSE]
NoSpec == [traits |-> {"empty"}, risk |-> "low", areas |-> 0, commands |-> {}, approval |-> FALSE]

EmptyDir == [meta |-> None, spec |-> NoSpec, auto |-> FALSE, just |-> NoJustification,
             changed |-> NoChange, risk |-> None]
Dir == IF dir = None THEN EmptyDir ELSE dir

Idle == [at |-> "new", task |-> None, env |-> None, round |-> 0, limits |-> None, work |-> None,
         merge |-> FALSE, twice |-> FALSE]
Gone(how) == [Idle EXCEPT !.at = how]

At(r) == proc[r].at

\* The run has created the lock and not yet released it.
Holding(r) == At(r) \in {"fill", "generate", "working", "review", "publish", "release"}
Running(r) == At(r) \in {"generate", "working", "review", "publish"}

HolderIs(r) == lock # None /\ lock.by = r

Goto(r, label) == proc' = [proc EXCEPT ![r].at = label]

\* What a run remembers of its task ends with its work; the list of its changes
\* stays as history.
Leaving(p) == [p EXCEPT !.at = "release", !.task = None, !.limits = None]

End(r, how) == proc' = [proc EXCEPT ![r] = [Gone(how) EXCEPT !.work = proc[r].work]]

Init ==
  /\ runtime = FALSE /\ lock = None /\ dir = None
  /\ proc = [r \in Runs |-> Idle]
  /\ held = FALSE /\ dispatched = {}
  /\ displaced = {}

-----------------------------------------------------------------------------
(* The start of a run *)

\* The task is not ready, or the checkout is not clean or on no branch.
StartRefused(r) ==
  /\ At(r) = "new" /\ End(r, "stopped")
  /\ UNCHANGED <<runtime, lock, dir, held, dispatched, displaced>>

\* The run directory is made and its lock metadata written before the lock is
\* tried, whoever has the directory.
Prepare(r) ==
  /\ At(r) = "new"
  /\ \E t \in Tasks :
       /\ Readiness(t) = "ready"
       /\ proc' = [proc EXCEPT ![r].at = "lock", ![r].task = t]
  /\ runtime' = TRUE /\ dir' = [Dir EXCEPT !.meta = r]
  /\ UNCHANGED <<lock, held, dispatched, displaced>>

\* Mutant: the file is opened for writing without noclobber.
Overwrite(r) ==
  /\ At(r) = "lock" /\ runtime
  /\ lock' = [by |-> r, token |-> Empty] /\ Goto(r, "fill")
  /\ UNCHANGED <<runtime, dir, held, dispatched, displaced>>

\* The lock file is created when there is none; a run that cannot stops with
\* exit code 0 and cleans nothing up: the traps are not set yet.
TakeLock(r) ==
  /\ At(r) = "lock"
  /\ IF runtime /\ lock = None
     THEN lock' = [by |-> r, token |-> Empty] /\ Goto(r, "fill")
     ELSE End(r, "refused") /\ UNCHANGED lock
  /\ UNCHANGED <<runtime, dir, held, dispatched, displaced>>

\* It is filled with the metadata file of this moment. The environment counts
\* from here on: the run writes its status with the auto-merge flag.
FillLock(r) ==
  /\ At(r) = "fill"
  /\ \/ Dir.meta = None /\ End(r, "refused") /\ UNCHANGED <<lock, dir>>
     \/ /\ Dir.meta # None
        /\ lock' = IF HolderIs(r) THEN [lock EXCEPT !.token = dir.meta] ELSE lock
        /\ \E e \in Environments :
             /\ proc' = [proc EXCEPT ![r].at = "generate", ![r].env = e]
             /\ dir' = [dir EXCEPT !.auto = e.auto]
  /\ UNCHANGED <<runtime, held, dispatched, displaced>>

\* Mutant: a specification that is there is taken for the run's own.
SpecKept(r) ==
  /\ At(r) = "generate"
  /\ LET spec == IF Dir.spec = NoSpec THEN TaskSpec(proc[r].task, Project) ELSE Dir.spec
         lim  == Limits(spec, 1, proc[r].env)
     IN /\ dir' = [Dir EXCEPT !.spec = spec]
        /\ proc' = [proc EXCEPT ![r].at = "working", ![r].round = 1, ![r].limits = lim]
  /\ runtime' = TRUE
  /\ UNCHANGED <<lock, held, dispatched, displaced>>

\* The task specification, express mode and the limits of the first round.
Generate(r) ==
  /\ At(r) = "generate"
  /\ LET spec == TaskSpec(proc[r].task, Project)
         env  == ExpressEnv(spec, proc[r].env)
         lim  == Limits(spec, 1, env)
     IN /\ dir' = [Dir EXCEPT !.spec = spec, !.auto = env.auto]
        /\ proc' = [proc EXCEPT ![r].at = "working", ![r].round = 1, ![r].limits = lim,
                                ![r].env = Exported(env, lim)]
  /\ runtime' = TRUE
  /\ UNCHANGED <<lock, held, dispatched, displaced>>

-----------------------------------------------------------------------------
(* The rounds *)

\* Tests and the validation report. The list of changed files is the one the
\* run directory has: this run writes it after the last review only.
Validate(r) ==
  /\ At(r) = "working" /\ Goto(r, "review")
  /\ \E stop \in {"completed", "scope_violation"} :
       dir' = [Dir EXCEPT !.risk = Assessment(Dir.spec.traits, Dir.changed, Dir.just,
                                              Dir.spec.areas, stop)]
  /\ runtime' = TRUE
  /\ UNCHANGED <<lock, held, dispatched, displaced>>

\* Mutant: the next round's budget is derived without the exported limit.
RepairUnbound(r) ==
  /\ At(r) = "review" /\ proc[r].round < proc[r].limits.rounds
  /\ LET n   == proc[r].round + 1
         lim == Limits(Dir.spec, n, [proc[r].env EXCEPT !.rounds = Unset])
     IN proc' = [proc EXCEPT ![r].at = "working", ![r].round = n, ![r].limits = lim]
  /\ UNCHANGED <<runtime, lock, dir, held, dispatched, displaced>>

\* One more round, with limits derived anew from the specification on disk.
Repair(r) ==
  /\ At(r) = "review" /\ proc[r].round < proc[r].limits.rounds
  /\ LET n   == proc[r].round + 1
         lim == IF Dir.spec = NoSpec THEN proc[r].limits ELSE Limits(Dir.spec, n, proc[r].env)
     IN proc' = [proc EXCEPT ![r].at = "working", ![r].round = n, ![r].limits = lim,
                             ![r].env = Exported(proc[r].env, lim)]
  /\ UNCHANGED <<runtime, lock, dir, held, dispatched, displaced>>

\* The round is approved: the changed files are listed, staged and committed.
\* A worker or a person may have left a justification.
Accept(r) ==
  /\ At(r) = "review" /\ dir # None
  /\ \E c \in Changes, j \in Justifications :
       /\ dir' = [dir EXCEPT !.changed = c, !.just = j]
       /\ proc' = [proc EXCEPT ![r].at = "publish", ![r].work = c, ![r].limits = None]
  /\ UNCHANGED <<runtime, lock, held, dispatched, displaced>>

\* create-pr.sh. Auto-merge is asked for in the status, and enabled when the
\* gate passes and the repository allows it.
Publish(r) ==
  /\ At(r) = "publish"
  /\ \E ok, allowed \in BOOLEAN :
       LET merge == /\ allowed /\ dir # None /\ dir.auto /\ dir.risk # None
                    /\ Precheck(ok, dir.risk.level, dir.changed.files, dir.just)
       IN proc' = [proc EXCEPT ![r] = [Leaving(@) EXCEPT !.merge = merge]]
  /\ UNCHANGED <<runtime, lock, dir, held, dispatched, displaced>>

-----------------------------------------------------------------------------
(* The end of a run *)

\* A command fails, the run is blocked, or there is nothing to publish.
Stop(r) ==
  /\ Running(r)
  /\ proc' = [proc EXCEPT ![r] = Leaving(@)]
  /\ UNCHANGED <<runtime, lock, dir, held, dispatched, displaced>>

\* Mutant: the signal handlers exit without the cleanup.
SignalNoCleanup(r) ==
  /\ Running(r) /\ End(r, "done")
  /\ UNCHANGED <<runtime, lock, dir, held, dispatched, displaced>>

\* INT, TERM or HUP: the trap cleans up and exits, and the exit cleans up again.
Signal(r) ==
  /\ Running(r)
  /\ proc' = [proc EXCEPT ![r] = [Leaving(@) EXCEPT !.twice = TRUE]]
  /\ UNCHANGED <<runtime, lock, dir, held, dispatched, displaced>>

\* The lock file goes when it holds the token of this run.
Release(r) ==
  /\ At(r) \in {"release", "rerelease"}
  /\ Goto(r, IF At(r) = "release" THEN "wipe" ELSE "rewipe")
  /\ IF lock # None /\ lock.token = r
     THEN /\ lock' = None
          /\ displaced' = displaced \cup {s \in Runs \ {r} : HolderIs(s) /\ Holding(s)}
     ELSE UNCHANGED <<lock, displaced>>
  /\ UNCHANGED <<runtime, dir, held, dispatched>>

\* Mutant: the directory is removed while the lock stays.
WipeForgets(r) ==
  /\ At(r) \in {"wipe", "rewipe"} /\ End(r, "done")
  /\ runtime' = FALSE /\ dir' = None
  /\ UNCHANGED <<lock, displaced, held, dispatched>>

\* The evidence is archived and, unless it is to be kept, the whole runtime
\* directory is removed with the lock and the run directory in it.
Wipe(r) ==
  /\ At(r) \in {"wipe", "rewipe"}
  /\ IF At(r) = "wipe" /\ proc[r].twice THEN Goto(r, "rerelease") ELSE End(r, "done")
  /\ IF proc[r].env.keep
     THEN UNCHANGED <<runtime, lock, dir, displaced>>
     ELSE /\ runtime' = FALSE /\ lock' = None /\ dir' = None
          /\ displaced' = displaced \cup {s \in Runs \ {r} : Holding(s)}
  /\ UNCHANGED <<held, dispatched>>

\* SIGKILL at any point, or any signal before the traps are set.
Kill(r) ==
  /\ At(r) \notin {"new", "stopped", "refused", "done", "killed"}
  /\ End(r, "killed")
  /\ UNCHANGED <<runtime, lock, dir, held, dispatched, displaced>>

-----------------------------------------------------------------------------
(* The webhook listener *)

\* A valid event for an issue without a lock: the listener takes the lock and
\* starts a run. An event that finds the lock is answered "duplicate".
Webhook(r) ==
  /\ At(r) = "new" /\ r \notin dispatched /\ lock = None
  /\ runtime' = TRUE /\ lock' = [by |-> Listener, token |-> Listener]
  /\ held' = TRUE /\ dispatched' = dispatched \cup {r}
  /\ UNCHANGED <<dir, proc, displaced>>

\* The listener ends and releases the lock file that is still its own.
ListenerExits ==
  /\ held /\ held' = FALSE
  /\ lock' = IF HolderIs(Listener) THEN None ELSE lock
  /\ UNCHANGED <<runtime, dir, proc, dispatched, displaced>>

ListenerKilled ==
  /\ held /\ held' = FALSE
  /\ UNCHANGED <<runtime, lock, dir, proc, dispatched, displaced>>

RunStep(r) ==
  \/ StartRefused(r) \/ Prepare(r) \/ TakeLock(r) \/ FillLock(r) \/ Generate(r)
  \/ Validate(r) \/ Repair(r) \/ Accept(r) \/ Publish(r)
  \/ Stop(r) \/ Signal(r) \/ Release(r) \/ Wipe(r) \/ Kill(r)

Next == ListenerExits \/ ListenerKilled \/ \E r \in Runs : Webhook(r) \/ RunStep(r)

Spec == Init /\ [][Next]_vars

-----------------------------------------------------------------------------
(* Properties *)

\* The values of the variables. The lock and the run directory are in the
\* runtime directory.
IssueTypeOK ==
  /\ runtime \in BOOLEAN /\ held \in BOOLEAN
  /\ lock \in LockType \cup {None} /\ dir \in DirType \cup {None}
  /\ proc \in [Runs -> ProcType]
  /\ dispatched \subseteq Runs /\ displaced \subseteq Runs
  /\ lock # None \/ dir # None => runtime

\* A run is alone with its issue from the moment it has the lock until it gives
\* it back, but for runs whose lock another run's cleanup has removed: of two
\* runs at work at least one has been displaced.
TwoWorkOnlyAfterCleanup ==
  \A r, s \in Runs : r # s /\ Holding(r) /\ Holding(s) => {r, s} \cap displaced # {}

\* A lock that outlives a run which ended in order holds the token of another
\* run, which wrote its metadata while the first was about to take the lock, or
\* is empty, when a cleanup took the metadata away at that moment.
LeftLockIsSwapped ==
  \A r \in Runs :
    /\ HolderIs(r) /\ At(r) = "done" => lock.token \in Runs \ {r}
    /\ HolderIs(r) /\ At(r) = "refused" => lock.token = Empty

\* While nobody has been displaced, the run directory holds the specification
\* of the run that works in it.
SpecificationIsOwn ==
  displaced = {} =>
    \A r \in Runs : At(r) \in {"working", "review", "publish"} =>
      dir # None /\ dir.spec = TaskSpec(proc[r].task, Project)

\* A list of changed files that risk.py calls low: no path is of high risk, none
\* is source.
Harmless(c) == c # None /\ c.files # {} /\ \A f \in c.files : ~HighRisk(f) /\ ~Source(f)

\* What stands behind an auto-merge. README.md:446 asks for a low risk level, but
\* the level was taken before the run listed its changes (run_artifacts.py:474),
\* so it is never that of the run itself: while nobody has been displaced, it is
\* that of a harmless list an earlier run left, together with the words of the
\* run's own task, and its own files have passed the narrower patterns of the
\* gate alone. A run in a fresh directory never merges. README.md:451 is not
\* kept: a path of a risk pattern the gate has not, and justified
\* infrastructure, are merged on such a level.
MergeRestsOnEarlierList ==
  [][\A r \in Runs :
       proc'[r].merge /\ ~proc[r].merge /\ displaced = {} =>
         /\ \E s \in Runs \ {r} : Harmless(proc[s].work)
         /\ TextRisk(proc[r].task.traits) # "high"
         /\ \A f \in proc[r].work.files : ~Refused(f, dir.just)]_vars

\* In the middle of a run its limit of rounds does not move, although every
\* round derives it anew from the disk and the environment.
RoundLimitIsKept ==
  [][\A r \in Runs :
       Running(r) /\ proc[r].limits # None /\ proc'[r].limits # None /\ displaced' = {} =>
         proc'[r].limits.rounds = proc[r].limits.rounds]_vars

\* A cleanup removes no lock file that another run has created - but for the
\* second cleanup of a run that a signal ended, and for the removal of the
\* whole directory.
CleanupSparesOthers ==
  [][\A r \in Runs :
       At(r) = "release" /\ At(r)' = "wipe" /\ lock # None /\ lock.by # r => lock' = lock]_vars

\* README.md:487: the webhook "dispatches Hermes to run HOCA against the issue".
\* A run it has started never finds the listener's own lock in its way.
DispatchedRunWorks ==
  \A r \in dispatched : At(r) = "lock" => ~HolderIs(Listener)
=============================================================================
