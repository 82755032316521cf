--------------------------- MODULE IssueRunsProofs ---------------------------
(***************************************************************************)
(* Theorems about IssueRuns, for every set of runs, tasks, environments and*)
(* changes that IssueAssumption allows.                                    *)
(***************************************************************************)
EXTENDS IssueRuns, FiniteSetTheorems, TLAPS

-----------------------------------------------------------------------------
(* The inductive invariant *)

\* What a run has in each of its phases.
PhaseInv ==
  \A r \in Runs :
    /\ At(r) \in {"lock", "fill", "generate", "working", "review", "publish"} => proc[r].task \in Tasks
    /\ At(r) \in {"generate", "working", "review", "publish"} => proc[r].env \in EnvType
    /\ At(r) \in {"working", "review"} => proc[r].limits \in LimitType
    /\ At(r) \in {"new", "lock", "fill", "generate"} => proc[r].limits = None

\* Who created the lock, and whose token is in it.
Filled == {"generate", "working", "review", "publish", "release"}
Released == {"wipe", "rerelease", "rewipe", "done"}

LockInv ==
  \A r \in Runs :
    /\ Holding(r) /\ r \notin displaced => HolderIs(r)
    /\ At(r) \in {"new", "lock", "stopped"} => ~HolderIs(r)
    /\ HolderIs(r) /\ At(r) \in {"fill", "refused"} => lock.token = Empty
    /\ HolderIs(r) /\ At(r) \in Filled \cup Released => lock.token \in Runs
    /\ HolderIs(r) /\ At(r) \in Released => lock.token # r
    /\ Holding(r) /\ ~HolderIs(r) => Dir.meta # r /\ (lock # None => lock.token # r)
    /\ HolderIs(r) /\ At(r) \in Filled /\ Dir.meta = r => lock.token = r

\* What the run directory holds of a run while nobody has been displaced.
DataInv ==
  displaced = {} =>
    \A r \in Runs :
      /\ At(r) \in {"working", "review", "publish"} =>
           dir # None /\ dir.spec = TaskSpec(proc[r].task, Project)
      /\ At(r) \in {"working", "review"} =>
           proc[r].limits.rounds = Limits(TaskSpec(proc[r].task, Project), 1, proc[r].env).rounds
      /\ At(r) = "publish" => dir.changed = proc[r].work

IInv == IssueTypeOK /\ PhaseInv /\ LockInv /\ DataInv

-----------------------------------------------------------------------------
(* Limits and specifications *)

\* A clamped number is in its range.
LEMMA ClampInRange ==
  \A n, floor, ceiling \in Int :
    floor <= ceiling => /\ Clamp(n, floor, ceiling) \in Int
                        /\ floor <= Clamp(n, floor, ceiling)
                        /\ Clamp(n, floor, ceiling) <= ceiling
<1> SUFFICES ASSUME NEW n \in Int, NEW floor \in Int, NEW ceiling \in Int, floor <= ceiling
             PROVE  /\ Clamp(n, floor, ceiling) \in Int
                    /\ floor <= Clamp(n, floor, ceiling)
                    /\ Clamp(n, floor, ceiling) <= ceiling
  OBVIOUS
<1> DEFINE m == Min({ceiling, n})
<1>1. m \in Int /\ m <= ceiling
  BY DEF Min
<1>2. Max({floor, m}) \in {floor, m} /\ Max({floor, m}) >= floor
  BY <1>1 DEF Max
<1> QED BY <1>1, <1>2 DEF Clamp

LEMMA ClampIsNat ==
  \A n \in Int, floor, ceiling \in Nat : Clamp(n, floor, ceiling) \in Nat
<1> SUFFICES ASSUME NEW n \in Int, NEW floor \in Nat, NEW ceiling \in Nat
             PROVE  Clamp(n, floor, ceiling) \in Nat
  OBVIOUS
<1> DEFINE m == Min({ceiling, n})
<1>1. m \in Int
  BY DEF Min
<1>2. Max({floor, m}) \in {floor, m} /\ Max({floor, m}) >= floor
  BY <1>1 DEF Max
<1> QED BY <1>1, <1>2 DEF Clamp

LEMMA DerivedFromBase ==
  ASSUME NEW spec, NEW round \in Nat, NEW env
  PROVE  /\ Base(spec, round).rounds \in Int /\ Base(spec, round).timeout \in Int
         /\ DerivedLimits(spec, round, env).rounds
              = Clamp(Base(spec, round).rounds, env.floor.rounds, env.ceiling.rounds)
         /\ DerivedLimits(spec, round, env).timeout
              = Clamp(Base(spec, round).timeout, env.floor.timeout, env.ceiling.timeout)
  BY DEF DerivedLimits, Base

\* run_budget.py:38: what is derived from a specification is within the floors
\* and ceilings of the environment, in every round, wherever these make sense.
THEOREM BudgetInRange ==
  ASSUME NEW spec \in SpecType, NEW round \in Nat, NEW env \in EnvType,
         env.floor.rounds <= env.ceiling.rounds, env.floor.timeout <= env.ceiling.timeout
  PROVE  /\ DerivedLimits(spec, round, env).rounds \in env.floor.rounds .. env.ceiling.rounds
         /\ DerivedLimits(spec, round, env).timeout \in env.floor.timeout .. env.ceiling.timeout
<1>1. env.floor \in LimitType /\ env.ceiling \in LimitType
  BY DEF EnvType
<1>2. /\ env.floor.rounds \in Int /\ env.ceiling.rounds \in Int
      /\ env.floor.timeout \in Int /\ env.ceiling.timeout \in Int
  BY <1>1 DEF LimitType
<1> DEFINE rounds == Base(spec, round).rounds
           timeout == Base(spec, round).timeout
<1>5. /\ rounds \in Int /\ timeout \in Int
      /\ DerivedLimits(spec, round, env).rounds
           = Clamp(rounds, env.floor.rounds, env.ceiling.rounds)
      /\ DerivedLimits(spec, round, env).timeout
           = Clamp(timeout, env.floor.timeout, env.ceiling.timeout)
  BY DerivedFromBase
<1> HIDE DEF rounds, timeout
<1>3. DerivedLimits(spec, round, env).rounds \in env.floor.rounds .. env.ceiling.rounds
  <2> DEFINE floor == env.floor.rounds
             ceiling == env.ceiling.rounds
  <2>1. floor \in Int /\ ceiling \in Int /\ floor <= ceiling
    BY <1>2
  <2> HIDE DEF floor, ceiling
  <2>2. /\ Clamp(rounds, floor, ceiling) \in Int
        /\ floor <= Clamp(rounds, floor, ceiling) /\ Clamp(rounds, floor, ceiling) <= ceiling
    BY <1>5, <2>1, ClampInRange
  <2>3. Clamp(rounds, floor, ceiling) \in floor .. ceiling
    BY <2>1, <2>2
  <2> QED BY <1>5, <2>3 DEF floor, ceiling
<1>4. DerivedLimits(spec, round, env).timeout \in env.floor.timeout .. env.ceiling.timeout
  <2> DEFINE floor == env.floor.timeout
             ceiling == env.ceiling.timeout
  <2>1. floor \in Int /\ ceiling \in Int /\ floor <= ceiling
    BY <1>2
  <2> HIDE DEF floor, ceiling
  <2>2. /\ Clamp(timeout, floor, ceiling) \in Int
        /\ floor <= Clamp(timeout, floor, ceiling) /\ Clamp(timeout, floor, ceiling) <= ceiling
    BY <1>5, <2>1, ClampInRange
  <2>3. Clamp(timeout, floor, ceiling) \in floor .. ceiling
    BY <2>1, <2>2
  <2> QED BY <1>5, <2>3 DEF floor, ceiling
<1> QED BY <1>3, <1>4

LEMMA LimitsType ==
  ASSUME NEW spec \in SpecType, NEW round \in Nat, NEW env \in EnvType
  PROVE  Limits(spec, round, env) \in LimitType
<1>1. env.floor \in LimitType /\ env.ceiling \in LimitType
  BY DEF EnvType
<1> DEFINE rounds == Base(spec, round).rounds
           timeout == Base(spec, round).timeout
<1>3. /\ rounds \in Int /\ timeout \in Int
      /\ DerivedLimits(spec, round, env).rounds
           = Clamp(rounds, env.floor.rounds, env.ceiling.rounds)
      /\ DerivedLimits(spec, round, env).timeout
           = Clamp(timeout, env.floor.timeout, env.ceiling.timeout)
  BY DerivedFromBase
<1> HIDE DEF rounds, timeout
<1>4. /\ env.floor.rounds \in Nat /\ env.ceiling.rounds \in Nat
      /\ env.floor.timeout \in Nat /\ env.ceiling.timeout \in Nat
  BY <1>1 DEF LimitType
<1>2. /\ DerivedLimits(spec, round, env).rounds \in Nat
      /\ DerivedLimits(spec, round, env).timeout \in Nat
  BY <1>3, <1>4, ClampIsNat
<1> QED BY <1>2 DEF Limits, Overridden, EnvType, LimitType

\* The limit of rounds is the same in every round of one environment.
LEMMA RoundsOfEveryRound ==
  ASSUME NEW spec, NEW round, NEW env, NEW other, env.rounds = other.rounds,
         env.floor = other.floor, env.ceiling = other.ceiling
  PROVE  Limits(spec, round, env).rounds = Limits(spec, 1, other).rounds
  BY DEF Limits, DerivedLimits, Base

LEMMA ExportedType ==
  ASSUME NEW env \in EnvType, NEW limits \in LimitType
  PROVE  /\ Exported(env, limits) \in EnvType /\ Exported(env, limits).rounds = env.rounds
         /\ Exported(env, limits).floor = env.floor /\ Exported(env, limits).ceiling = env.ceiling
  BY DEF Exported, EnvType, LimitType

LEMMA ExpressType ==
  ASSUME NEW spec, NEW env \in EnvType
  PROVE  ExpressEnv(spec, env) \in EnvType
  BY DEF ExpressEnv, EnvType

LEMMA TaskRiskLevel ==
  ASSUME NEW traits, NEW files
  PROVE  TaskRisk(traits, files) \in Levels
<1>1. TextRisk(traits) \in Levels /\ PathRisk(files) \in Levels
  BY DEF TextRisk, PathRisk, Levels
<1> QED BY <1>1 DEF TaskRisk, Combined, Levels

LEMMA TaskSpecType ==
  ASSUME NEW t \in Tasks
  PROVE  TaskSpec(t, Project) \in SpecType
<1>1. t \in TaskType /\ IsFiniteSet(t.paths) /\ Project \in ProjectType /\ IsFiniteSet(Project.paths)
  BY IssueAssumption
<1>2. AreaCount(t, Project) \in Nat
  <2> DEFINE named == {f \in t.paths \cup Project.paths : ~SecretLike(f)}
  <2>1. IsFiniteSet(named)
    BY <1>1, FS_Union, FS_Subset
  <2>2. Cardinality(named) \in Nat
    BY <2>1, FS_CardinalityType
  <2> HIDE DEF named
  <2>3. Min({20, Cardinality(named)}) \in Nat
    BY <2>2 DEF Min
  <2> QED BY <2>3 DEF AreaCount, MaxAreas, named
<1>3. TestCommands(t, Project) \in SUBSET STRING
  BY <1>1 DEF TestCommands, TaskType, ProjectType
<1>4. SpecRisk(t) \in Levels
  BY TaskRiskLevel DEF SpecRisk, Levels
<1> QED BY <1>1, <1>2, <1>3, <1>4 DEF TaskSpec, SpecType, TaskType

LEMMA AssessmentType ==
  ASSUME NEW traits, NEW change, NEW just, NEW areas, NEW stop
  PROVE  Assessment(traits, change, just, areas, stop) \in RiskType
  BY TaskRiskLevel DEF Assessment, RiskType, AutoMergeable

-----------------------------------------------------------------------------
(* Types *)

LEMMA EmptyDirType == EmptyDir \in DirType
<1>1. NoSpec \in SpecType
  BY DEF NoSpec, SpecType, Traits, Levels
<1>2. NoChange \in ChangeType /\ NoJustification \in Justification
  BY DEF NoChange, ChangeType, NoJustification, Justification
<1> QED BY <1>1, <1>2 DEF EmptyDir, DirType

LEMMA DirInType ==
  ASSUME IssueTypeOK
  PROVE  Dir \in DirType
  BY EmptyDirType DEF IssueTypeOK, Dir

LEMMA GoneType ==
  ASSUME NEW how \in Steps
  PROVE  Gone(how) \in ProcType /\ Gone(how).at = how /\ ~Gone(how).merge
  BY DEF Gone, Idle, ProcType

LEMMA LeavingType ==
  ASSUME NEW p \in ProcType
  PROVE  /\ Leaving(p) \in ProcType /\ Leaving(p).at = "release" /\ Leaving(p).merge = p.merge
         /\ Leaving(p).work = p.work
  BY DEF Leaving, ProcType, Steps

\* A step of one run leaves the others where they are.
LEMMA OneMoves ==
  ASSUME IssueTypeOK, NEW r \in Runs, NEW p \in ProcType, proc' = [proc EXCEPT ![r] = p]
  PROVE  /\ proc' \in [Runs -> ProcType] /\ proc'[r] = p
         /\ \A s \in Runs \ {r} : proc'[s] = proc[s]
  BY DEF IssueTypeOK

LEMMA EndMoves ==
  ASSUME IssueTypeOK, NEW r \in Runs, NEW how \in Steps, End(r, how)
  PROVE  /\ proc' \in [Runs -> ProcType] /\ proc'[r].at = how
         /\ proc'[r].work = proc[r].work /\ ~proc'[r].merge /\ proc'[r].limits = None
         /\ \A s \in Runs \ {r} : proc'[s] = proc[s]
<1> DEFINE p == [Gone(how) EXCEPT !.work = proc[r].work]
<1>1. proc' = [proc EXCEPT ![r] = p]
  BY DEF End
<1>2. proc[r] \in ProcType /\ Gone(how) \in ProcType /\ Gone(how).limits = None
  BY GoneType DEF IssueTypeOK, Gone, Idle
<1>3. /\ p \in ProcType /\ p.at = how /\ p.work = proc[r].work /\ ~p.merge /\ p.limits = None
  BY <1>2, GoneType DEF ProcType
<1> HIDE DEF p
<1> QED BY <1>1, <1>3, OneMoves

LEMMA GotoMoves ==
  ASSUME IssueTypeOK, NEW r \in Runs, NEW label \in Steps, Goto(r, label)
  PROVE  /\ proc' \in [Runs -> ProcType] /\ proc'[r] = [proc[r] EXCEPT !.at = label]
         /\ proc'[r].at = label
         /\ \A s \in Runs \ {r} : proc'[s] = proc[s]
<1>1. proc[r] \in ProcType /\ [proc[r] EXCEPT !.at = label] \in ProcType
  BY DEF IssueTypeOK, ProcType
<1>2. proc' = [proc EXCEPT ![r] = [proc[r] EXCEPT !.at = label]]
  BY DEF Goto
<1>3. [proc[r] EXCEPT !.at = label].at = label
  BY <1>1 DEF ProcType
<1> QED BY <1>1, <1>2, <1>3, OneMoves

LEMMA InitInv == Init => IInv
<1> SUFFICES ASSUME Init PROVE IInv OBVIOUS
<1>1. Idle \in ProcType
  BY DEF Idle, ProcType, Steps
<1>2. IssueTypeOK
  BY <1>1 DEF Init, IssueTypeOK
<1>3. \A r \in Runs : At(r) = "new" /\ proc[r].limits = None
  BY DEF Init, At, Idle
<1>4. PhaseInv
  BY <1>3 DEF PhaseInv
<1>5. LockInv
  BY <1>3 DEF Init, LockInv, Holding, HolderIs, Filled, Released
<1>6. DataInv
  BY <1>3 DEF DataInv
<1> QED BY <1>2, <1>4, <1>5, <1>6 DEF IInv

-----------------------------------------------------------------------------
(* Steps that leave the lock alone *)

\* A step of a run that has filled the lock, or that ends it, disturbs nothing
\* of the locks while lock and metadata stay as they are.
LEMMA LockKept ==
  ASSUME LockInv, NEW r \in Runs, UNCHANGED <<lock, displaced>>, Dir'.meta = Dir.meta,
         \A s \in Runs \ {r} : proc'[s] = proc[s],
         \/ At(r) \in Filled /\ At(r)' \in Filled
         \/ At(r) = "new" /\ At(r)' = "stopped"
         \/ At(r)' = "killed"
  PROVE  LockInv'
<1> SUFFICES ASSUME NEW s \in Runs
             PROVE  LockInv!(s)'
  BY DEF LockInv
<1>1. CASE s = r
  BY <1>1 DEF LockInv, Holding, HolderIs, Filled, Released, At
<1>2. CASE s # r
  BY <1>2 DEF LockInv, Holding, HolderIs, Filled, Released, At
<1> QED BY <1>1, <1>2

\* While nobody has been displaced, no two runs work.
LEMMA AloneAtWork ==
  ASSUME LockInv, displaced = {}, NEW r \in Runs, NEW s \in Runs, Holding(r), Holding(s)
  PROVE  r = s
  BY DEF LockInv, HolderIs

LEMMA StartRefusedInv ==
  ASSUME IInv, NEW r \in Runs, StartRefused(r)
  PROVE  IInv'
<1> USE DEF IInv
<1>1. /\ proc' \in [Runs -> ProcType] /\ At(r) = "new" /\ At(r)' = "stopped"
      /\ \A s \in Runs \ {r} : proc'[s] = proc[s]
  BY EndMoves DEF StartRefused, Steps, At
<1>2. UNCHANGED <<runtime, lock, dir, held, dispatched, displaced>> /\ Dir' = Dir
  BY DEF StartRefused, Dir
<1>3. IssueTypeOK'
  BY <1>1, <1>2 DEF IssueTypeOK
<1>4. PhaseInv'
  BY <1>1 DEF PhaseInv, At
<1>5. LockInv'
  BY <1>1, <1>2, LockKept
<1>6. DataInv'
  BY <1>1, <1>2 DEF DataInv, At
<1> QED BY <1>3, <1>4, <1>5, <1>6

LEMMA KillInv ==
  ASSUME IInv, NEW r \in Runs, Kill(r)
  PROVE  IInv'
<1> USE DEF IInv
<1>1. /\ proc' \in [Runs -> ProcType] /\ At(r)' = "killed"
      /\ \A s \in Runs \ {r} : proc'[s] = proc[s]
  BY EndMoves DEF Kill, Steps, At
<1>2. UNCHANGED <<runtime, lock, dir, held, dispatched, displaced>> /\ Dir' = Dir
  BY DEF Kill, Dir
<1>3. IssueTypeOK'
  BY <1>1, <1>2 DEF IssueTypeOK
<1>4. PhaseInv'
  BY <1>1 DEF PhaseInv, At
<1>5. LockInv'
  BY <1>1, <1>2, LockKept
<1>6. DataInv'
  BY <1>1, <1>2 DEF DataInv, At
<1> QED BY <1>3, <1>4, <1>5, <1>6

\* The steps that leave the work for the release.
LEMMA LeavingInv ==
  ASSUME IInv, NEW r \in Runs, NEW p \in ProcType, p.at = "release", At(r) \in Filled,
         proc' = [proc EXCEPT ![r] = p],
         UNCHANGED <<runtime, lock, dir, held, dispatched, displaced>>
  PROVE  IInv'
<1> USE DEF IInv
<1>1. /\ proc' \in [Runs -> ProcType] /\ At(r)' = "release"
      /\ \A s \in Runs \ {r} : proc'[s] = proc[s]
  BY OneMoves DEF At
<1>2. Dir' = Dir
  BY DEF Dir
<1>3. IssueTypeOK'
  BY <1>1 DEF IssueTypeOK
<1>4. PhaseInv'
  BY <1>1 DEF PhaseInv, At
<1>5. LockInv'
  BY <1>1, <1>2, LockKept DEF Filled
<1>6. DataInv'
  BY <1>1 DEF DataInv, At
<1> QED BY <1>3, <1>4, <1>5, <1>6

LEMMA StopInv ==
  ASSUME IInv, NEW r \in Runs, Stop(r)
  PROVE  IInv'
<1>1. proc[r] \in ProcType /\ At(r) \in Filled
  BY DEF IInv, IssueTypeOK, Stop, Running, Filled
<1>2. Leaving(proc[r]) \in ProcType /\ Leaving(proc[r]).at = "release"
  BY <1>1, LeavingType
<1>3. proc' = [proc EXCEPT ![r] = Leaving(proc[r])]
  BY DEF Stop
<1> QED BY <1>1, <1>2, <1>3, LeavingInv DEF Stop

LEMMA SignalInv ==
  ASSUME IInv, NEW r \in Runs, Signal(r)
  PROVE  IInv'
<1> DEFINE p == [Leaving(proc[r]) EXCEPT !.twice = TRUE]
<1>1. proc[r] \in ProcType /\ At(r) \in Filled
  BY DEF IInv, IssueTypeOK, Signal, Running, Filled
<1>2. Leaving(proc[r]) \in ProcType /\ Leaving(proc[r]).at = "release"
  BY <1>1, LeavingType
<1>3. p \in ProcType /\ p.at = "release"
  BY <1>2 DEF ProcType
<1>4. proc' = [proc EXCEPT ![r] = p]
  BY DEF Signal
<1> QED BY <1>1, <1>3, <1>4, LeavingInv DEF Signal

LEMMA PublishInv ==
  ASSUME IInv, NEW r \in Runs, Publish(r)
  PROVE  IInv'
<1>1. proc[r] \in ProcType /\ At(r) \in Filled
  BY DEF IInv, IssueTypeOK, Publish, Filled
<1>2. Leaving(proc[r]) \in ProcType /\ Leaving(proc[r]).at = "release"
  BY <1>1, LeavingType
<1>3. PICK merge \in BOOLEAN : proc' = [proc EXCEPT ![r] = [Leaving(proc[r]) EXCEPT !.merge = merge]]
  BY DEF Publish
<1>4. /\ [Leaving(proc[r]) EXCEPT !.merge = merge] \in ProcType
      /\ [Leaving(proc[r]) EXCEPT !.merge = merge].at = "release"
  BY <1>2 DEF ProcType
<1> QED BY <1>1, <1>3, <1>4, LeavingInv DEF Publish

-----------------------------------------------------------------------------
(* The rounds *)

LEMMA GenerateInv ==
  ASSUME IInv, NEW r \in Runs, Generate(r)
  PROVE  IInv'
<1> USE DEF IInv
<1> DEFINE spec == TaskSpec(proc[r].task, Project)
           env  == ExpressEnv(spec, proc[r].env)
           lim  == Limits(spec, 1, env)
           p    == [proc[r] EXCEPT !.at = "working", !.round = 1, !.limits = lim,
                                   !.env = Exported(env, lim)]
<1>1. /\ At(r) = "generate" /\ proc' = [proc EXCEPT ![r] = p]
      /\ dir' = [Dir EXCEPT !.spec = spec, !.auto = env.auto] /\ runtime'
      /\ UNCHANGED <<lock, held, dispatched, displaced>>
  BY DEF Generate
<1>2. proc[r] \in ProcType /\ proc[r].task \in Tasks /\ proc[r].env \in EnvType
  BY <1>1 DEF IssueTypeOK, PhaseInv
<1>3. spec \in SpecType
  BY <1>2, TaskSpecType
<1>4. env \in EnvType /\ lim \in LimitType
  <2> HIDE DEF spec
  <2>1. env \in EnvType
    BY <1>2, ExpressType
  <2> HIDE DEF env
  <2> QED BY <1>3, <2>1, LimitsType
<1>5. /\ Exported(env, lim) \in EnvType /\ Exported(env, lim).rounds = env.rounds
      /\ Exported(env, lim).floor = env.floor /\ Exported(env, lim).ceiling = env.ceiling
  <2> HIDE DEF env, lim
  <2> QED BY <1>4, ExportedType
<1> HIDE DEF spec, env, lim
<1>6. /\ p \in ProcType /\ p.at = "working" /\ p.task = proc[r].task /\ p.limits = lim
      /\ p.env = Exported(env, lim)
  BY <1>2, <1>4, <1>5 DEF ProcType, Steps
<1>7. /\ proc' \in [Runs -> ProcType] /\ proc'[r] = p
      /\ \A s \in Runs \ {r} : proc'[s] = proc[s]
  <2> HIDE DEF p
  <2> QED BY <1>1, <1>6, OneMoves
<1>8. /\ dir' \in DirType /\ dir'.spec = spec /\ dir'.meta = Dir.meta
      /\ dir' # None /\ Dir' = dir'
  <2>1. /\ dir' \in DirType /\ dir'.spec = spec /\ dir'.meta = Dir.meta
    BY <1>1, <1>3, <1>4, DirInType DEF DirType, EnvType
  <2> QED BY <2>1, IssueAssumption DEF Dir
<1> HIDE DEF p
<1>9. IssueTypeOK'
  BY <1>1, <1>7, <1>8 DEF IssueTypeOK
<1>10. PhaseInv'
  BY <1>4, <1>5, <1>6, <1>7, <1>2 DEF PhaseInv, At
<1>11. LockInv'
  BY <1>1, <1>6, <1>7, <1>8, LockKept DEF At, Filled
<1>12. DataInv'
  <2> SUFFICES ASSUME displaced = {}, NEW s \in Runs,
                      At(s)' \in {"working", "review", "publish"}
               PROVE  DataInv!2!(s)'
    BY <1>1 DEF DataInv
  <2>1. s = r
    BY <1>1, <1>7, AloneAtWork DEF At, Holding
  <2>2. lim.rounds = Limits(spec, 1, p.env).rounds
    BY <1>5, <1>6, RoundsOfEveryRound DEF lim
  <2> QED BY <1>6, <1>7, <1>8, <2>1, <2>2 DEF At, spec
<1> QED BY <1>9, <1>10, <1>11, <1>12

LEMMA ValidateInv ==
  ASSUME IInv, NEW r \in Runs, Validate(r)
  PROVE  IInv'
<1> USE DEF IInv
<1>1. /\ At(r) = "working" /\ Goto(r, "review") /\ runtime'
      /\ UNCHANGED <<lock, held, dispatched, displaced>>
  BY DEF Validate
<1>2. /\ proc' \in [Runs -> ProcType] /\ proc'[r] = [proc[r] EXCEPT !.at = "review"]
      /\ proc'[r].at = "review" /\ \A s \in Runs \ {r} : proc'[s] = proc[s]
  BY <1>1, GotoMoves DEF Steps
<1>3. PICK risk \in RiskType : dir' = [Dir EXCEPT !.risk = risk]
  BY AssessmentType DEF Validate
<1>4. /\ dir' \in DirType /\ dir'.spec = Dir.spec /\ dir'.meta = Dir.meta
      /\ dir'.changed = Dir.changed /\ dir' # None /\ Dir' = dir'
  <2>1. /\ dir' \in DirType /\ dir'.spec = Dir.spec /\ dir'.meta = Dir.meta
        /\ dir'.changed = Dir.changed
    BY <1>3, DirInType DEF DirType
  <2> QED BY <2>1, IssueAssumption DEF Dir
<1>5. proc[r] \in ProcType /\ proc'[r].task = proc[r].task /\ proc'[r].env = proc[r].env
        /\ proc'[r].limits = proc[r].limits
  BY <1>2 DEF IssueTypeOK, ProcType
<1>6. IssueTypeOK'
  BY <1>1, <1>2, <1>4 DEF IssueTypeOK
<1>7. PhaseInv'
  BY <1>1, <1>2, <1>5 DEF PhaseInv, At
<1>8. LockInv'
  BY <1>1, <1>2, <1>4, LockKept DEF At, Filled
<1>9. DataInv'
  <2> SUFFICES ASSUME displaced = {}, NEW s \in Runs,
                      At(s)' \in {"working", "review", "publish"}
               PROVE  DataInv!2!(s)'
    BY <1>1 DEF DataInv
  <2>1. s = r
    BY <1>1, <1>2, AloneAtWork DEF At, Holding
  <2> QED BY <1>1, <1>2, <1>4, <1>5, <2>1 DEF At, DataInv, Dir
<1> QED BY <1>6, <1>7, <1>8, <1>9

LEMMA RepairInv ==
  ASSUME IInv, NEW r \in Runs, Repair(r)
  PROVE  IInv'
<1> USE DEF IInv
<1> DEFINE n   == proc[r].round + 1
           lim == IF Dir.spec = NoSpec THEN proc[r].limits ELSE Limits(Dir.spec, n, proc[r].env)
           p   == [proc[r] EXCEPT !.at = "working", !.round = n, !.limits = lim,
                                  !.env = Exported(proc[r].env, lim)]
<1>1. /\ At(r) = "review" /\ proc' = [proc EXCEPT ![r] = p]
      /\ UNCHANGED <<runtime, lock, dir, held, dispatched, displaced>> /\ Dir' = Dir
  BY DEF Repair, Dir
<1>2. /\ proc[r] \in ProcType /\ proc[r].env \in EnvType /\ proc[r].limits \in LimitType
      /\ proc[r].task \in Tasks /\ n \in Nat
  BY <1>1 DEF IssueTypeOK, PhaseInv, ProcType
<1>3. lim \in LimitType
  <2>1. Dir.spec \in SpecType
    BY DirInType DEF DirType
  <2> HIDE DEF n
  <2> QED BY <1>2, <2>1, LimitsType
<1>4. /\ Exported(proc[r].env, lim) \in EnvType
      /\ Exported(proc[r].env, lim).rounds = proc[r].env.rounds
      /\ Exported(proc[r].env, lim).floor = proc[r].env.floor
      /\ Exported(proc[r].env, lim).ceiling = proc[r].env.ceiling
  <2> HIDE DEF lim
  <2> QED BY <1>2, <1>3, ExportedType
<1> HIDE DEF n, lim
<1>5. /\ p \in ProcType /\ p.at = "working" /\ p.task = proc[r].task /\ p.limits = lim
      /\ p.env = Exported(proc[r].env, lim)
  BY <1>2, <1>3, <1>4 DEF ProcType, Steps
<1> HIDE DEF p
<1>6. /\ proc' \in [Runs -> ProcType] /\ proc'[r] = p
      /\ \A s \in Runs \ {r} : proc'[s] = proc[s]
  BY <1>1, <1>5, OneMoves
<1>7. IssueTypeOK'
  BY <1>1, <1>6 DEF IssueTypeOK
<1>8. PhaseInv'
  BY <1>2, <1>3, <1>4, <1>5, <1>6 DEF PhaseInv, At
<1>9. LockInv'
  BY <1>1, <1>5, <1>6, LockKept DEF At, Filled
<1>10. DataInv'
  <2> SUFFICES ASSUME displaced = {}, NEW s \in Runs,
                      At(s)' \in {"working", "review", "publish"}
               PROVE  DataInv!2!(s)'
    BY <1>1 DEF DataInv
  <2>1. s = r
    BY <1>1, <1>6, AloneAtWork DEF At, Holding
  <2> DEFINE spec == TaskSpec(proc[r].task, Project)
  <2>2. /\ dir # None /\ dir.spec = spec /\ Dir = dir
        /\ proc[r].limits.rounds = Limits(spec, 1, proc[r].env).rounds
    BY <1>1 DEF DataInv, Dir
  <2> HIDE DEF spec
  <2>3. Limits(spec, 1, proc[r].env).rounds = Limits(spec, 1, p.env).rounds
    BY <1>4, <1>5, RoundsOfEveryRound
  <2>4. Limits(spec, n, proc[r].env).rounds = Limits(spec, 1, p.env).rounds
    BY <1>4, <1>5, RoundsOfEveryRound
  <2>5. lim.rounds = Limits(spec, 1, p.env).rounds
    BY <2>2, <2>3, <2>4 DEF lim
  <2> QED BY <1>1, <1>5, <1>6, <2>1, <2>2, <2>5 DEF At, spec
<1> QED BY <1>7, <1>8, <1>9, <1>10

LEMMA AcceptInv ==
  ASSUME IInv, NEW r \in Runs, Accept(r)
  PROVE  IInv'
<1> USE DEF IInv
<1>1. PICK c \in Changes, j \in Justifications :
        /\ dir' = [dir EXCEPT !.changed = c, !.just = j]
        /\ proc' = [proc EXCEPT ![r].at = "publish", ![r].work = c, ![r].limits = None]
  BY DEF Accept
<1> DEFINE p == [proc[r] EXCEPT !.at = "publish", !.work = c, !.limits = None]
<1>2. /\ At(r) = "review" /\ dir # None /\ proc' = [proc EXCEPT ![r] = p]
      /\ UNCHANGED <<runtime, lock, held, dispatched, displaced>>
  BY <1>1 DEF Accept
<1>3. proc[r] \in ProcType /\ proc[r].env \in EnvType /\ proc[r].task \in Tasks
  BY <1>2 DEF IssueTypeOK, PhaseInv
<1>4. c \in ChangeType /\ j \in Justification
  BY IssueAssumption
<1>5. p \in ProcType /\ p.at = "publish" /\ p.task = proc[r].task /\ p.work = c /\ p.env = proc[r].env
  BY <1>3, <1>4 DEF ProcType, Steps
<1> HIDE DEF p
<1>6. /\ proc' \in [Runs -> ProcType] /\ proc'[r] = p
      /\ \A s \in Runs \ {r} : proc'[s] = proc[s]
  BY <1>2, <1>5, OneMoves
<1>7. /\ dir' \in DirType /\ dir'.spec = dir.spec /\ dir'.meta = Dir.meta /\ dir'.changed = c
      /\ dir' # None /\ Dir' = dir'
  <2>1. dir \in DirType /\ Dir = dir
    BY <1>2 DEF IssueTypeOK, Dir
  <2>2. /\ dir' \in DirType /\ dir'.spec = dir.spec /\ dir'.meta = Dir.meta /\ dir'.changed = c
    BY <1>1, <1>4, <2>1 DEF DirType
  <2> QED BY <2>2, IssueAssumption DEF Dir
<1>8. IssueTypeOK'
  BY <1>2, <1>6, <1>7 DEF IssueTypeOK
<1>9. PhaseInv'
  BY <1>3, <1>5, <1>6 DEF PhaseInv, At
<1>10. LockInv'
  BY <1>2, <1>5, <1>6, <1>7, LockKept DEF At, Filled
<1>11. DataInv'
  <2> SUFFICES ASSUME displaced = {}, NEW s \in Runs,
                      At(s)' \in {"working", "review", "publish"}
               PROVE  DataInv!2!(s)'
    BY <1>2 DEF DataInv
  <2>1. s = r
    BY <1>2, <1>6, AloneAtWork DEF At, Holding
  <2>2. dir.spec = TaskSpec(proc[r].task, Project)
    BY <1>2 DEF DataInv
  <2> QED BY <1>5, <1>6, <1>7, <2>1, <2>2 DEF At
<1> QED BY <1>8, <1>9, <1>10, <1>11

-----------------------------------------------------------------------------
(* The start of a run *)

LEMMA PrepareInv ==
  ASSUME IInv, NEW r \in Runs, Prepare(r)
  PROVE  IInv'
<1> USE DEF IInv
<1>1. PICK t \in Tasks : proc' = [proc EXCEPT ![r].at = "lock", ![r].task = t]
  BY DEF Prepare
<1> DEFINE p == [proc[r] EXCEPT !.at = "lock", !.task = t]
<1>2. /\ At(r) = "new" /\ proc' = [proc EXCEPT ![r] = p]
      /\ dir' = [Dir EXCEPT !.meta = r] /\ runtime'
      /\ UNCHANGED <<lock, held, dispatched, displaced>>
  BY <1>1 DEF Prepare
<1>3. p \in ProcType /\ p.at = "lock" /\ p.task = t /\ p.limits = proc[r].limits
  BY DEF IssueTypeOK, ProcType, Steps
<1> HIDE DEF p
<1>4. /\ proc' \in [Runs -> ProcType] /\ proc'[r] = p
      /\ \A s \in Runs \ {r} : proc'[s] = proc[s]
  BY <1>2, <1>3, OneMoves
<1>5. /\ dir' \in DirType /\ dir'.spec = Dir.spec /\ dir'.changed = Dir.changed /\ dir'.meta = r
      /\ dir' # None /\ Dir' = dir'
  <2>1. /\ dir' \in DirType /\ dir'.spec = Dir.spec /\ dir'.changed = Dir.changed /\ dir'.meta = r
    BY <1>2, DirInType DEF DirType
  <2> QED BY <2>1, IssueAssumption DEF Dir
<1>6. IssueTypeOK'
  BY <1>2, <1>4, <1>5 DEF IssueTypeOK
<1>7. PhaseInv'
  BY <1>2, <1>3, <1>4 DEF PhaseInv, At
<1>8. LockInv'
  <2> SUFFICES ASSUME NEW s \in Runs
               PROVE  LockInv!(s)'
    BY DEF LockInv
  <2>1. CASE s = r
    BY <1>2, <1>3, <1>4, <2>1 DEF LockInv, Holding, HolderIs, Filled, Released, At
  <2>2. CASE s # r
    BY <1>2, <1>4, <1>5, <2>2 DEF LockInv, Holding, HolderIs, Filled, Released, At
  <2> QED BY <2>1, <2>2
<1>9. DataInv'
  BY <1>2, <1>3, <1>4, <1>5 DEF DataInv, At, Dir
<1> QED BY <1>6, <1>7, <1>8, <1>9

LEMMA TakeLockInv ==
  ASSUME IInv, NEW r \in Runs, TakeLock(r)
  PROVE  IInv'
<1> USE DEF IInv
<1>1. At(r) = "lock" /\ UNCHANGED <<runtime, dir, held, dispatched, displaced>> /\ Dir' = Dir
  BY DEF TakeLock, Dir
<1>2. CASE runtime /\ lock = None
  <2>1. lock' = [by |-> r, token |-> Empty] /\ Goto(r, "fill")
    BY <1>2 DEF TakeLock
  <2>2. /\ proc' \in [Runs -> ProcType] /\ proc'[r] = [proc[r] EXCEPT !.at = "fill"]
        /\ proc'[r].at = "fill" /\ \A s \in Runs \ {r} : proc'[s] = proc[s]
    BY <2>1, GotoMoves DEF Steps
  <2>3. proc'[r].task = proc[r].task /\ proc'[r].limits = proc[r].limits
    BY <2>2 DEF IssueTypeOK, ProcType
  <2>4. lock' \in LockType /\ lock' # None
    <3>1. lock' \in LockType
      BY <2>1 DEF LockType
    <3> QED BY <3>1, IssueAssumption
  <2>5. IssueTypeOK'
    BY <1>1, <1>2, <2>2, <2>4 DEF IssueTypeOK
  <2>6. PhaseInv'
    BY <1>1, <2>2, <2>3 DEF PhaseInv, At
  <2>7. LockInv'
    <3> SUFFICES ASSUME NEW s \in Runs
                 PROVE  LockInv!(s)'
      BY DEF LockInv
    <3>1. CASE s = r
      BY <2>1, <2>2, <2>4, <3>1 DEF LockInv, Holding, HolderIs, Filled, Released, At
    <3>2. CASE s # r
      BY <1>1, <1>2, <2>1, <2>2, <2>4, <3>2, IssueAssumption
      DEF LockInv, Holding, HolderIs, Filled, Released, At
    <3> QED BY <3>1, <3>2
  <2>8. DataInv'
    BY <1>1, <2>2 DEF DataInv, At
  <2> QED BY <2>5, <2>6, <2>7, <2>8
<1>3. CASE ~(runtime /\ lock = None)
  <2>1. lock' = lock /\ End(r, "refused")
    BY <1>3 DEF TakeLock
  <2>2. /\ proc' \in [Runs -> ProcType] /\ proc'[r].at = "refused"
        /\ \A s \in Runs \ {r} : proc'[s] = proc[s]
    BY <2>1, EndMoves DEF Steps
  <2>3. IssueTypeOK'
    BY <1>1, <2>1, <2>2 DEF IssueTypeOK
  <2>4. PhaseInv'
    BY <2>2 DEF PhaseInv, At
  <2>5. LockInv'
    <3> SUFFICES ASSUME NEW s \in Runs
                 PROVE  LockInv!(s)'
      BY DEF LockInv
    <3>1. CASE s = r
      BY <1>1, <2>1, <2>2, <3>1 DEF LockInv, Holding, HolderIs, Filled, Released, At
    <3>2. CASE s # r
      BY <1>1, <2>1, <2>2, <3>2 DEF LockInv, Holding, HolderIs, Filled, Released, At
    <3> QED BY <3>1, <3>2
  <2>6. DataInv'
    BY <1>1, <2>2 DEF DataInv, At
  <2> QED BY <2>3, <2>4, <2>5, <2>6
<1> QED BY <1>2, <1>3

\* The lock is filled, and the run goes on.
LEMMA FilledInv ==
  ASSUME IInv, NEW r \in Runs, FillLock(r), Dir.meta # None
  PROVE  IInv'
<1> USE DEF IInv
<1>1. PICK e \in Environments :
        /\ proc' = [proc EXCEPT ![r].at = "generate", ![r].env = e]
        /\ dir' = [dir EXCEPT !.auto = e.auto]
  BY DEF FillLock
<1> DEFINE p == [proc[r] EXCEPT !.at = "generate", !.env = e]
<1>2. /\ At(r) = "fill" /\ proc' = [proc EXCEPT ![r] = p]
      /\ lock' = IF HolderIs(r) THEN [lock EXCEPT !.token = dir.meta] ELSE lock
      /\ UNCHANGED <<runtime, held, dispatched, displaced>>
  BY <1>1 DEF FillLock
<1>3. dir # None /\ dir \in DirType /\ Dir = dir /\ dir.meta \in Runs
  BY DEF IssueTypeOK, Dir, EmptyDir, DirType
<1>4. e \in EnvType
  BY IssueAssumption
<1>5. proc[r] \in ProcType /\ proc[r].task \in Tasks /\ proc[r].limits = None
  BY <1>2 DEF IssueTypeOK, PhaseInv
<1>6. p \in ProcType /\ p.at = "generate" /\ p.task = proc[r].task /\ p.env = e /\ p.limits = None
  BY <1>4, <1>5 DEF ProcType, Steps
<1> HIDE DEF p
<1>7. /\ proc' \in [Runs -> ProcType] /\ proc'[r] = p
      /\ \A s \in Runs \ {r} : proc'[s] = proc[s]
  BY <1>2, <1>6, OneMoves
<1>8. /\ dir' \in DirType /\ dir'.spec = dir.spec /\ dir'.changed = dir.changed
      /\ dir'.meta = dir.meta /\ dir' # None /\ Dir' = dir'
  <2>1. /\ dir' \in DirType /\ dir'.spec = dir.spec /\ dir'.changed = dir.changed
        /\ dir'.meta = dir.meta
    BY <1>1, <1>3, <1>4 DEF DirType, EnvType
  <2> QED BY <2>1, IssueAssumption DEF Dir
<1>9. /\ lock' \in LockType \cup {None} /\ (lock' = None <=> lock = None)
      /\ HolderIs(r) => lock'.token = dir.meta
      /\ ~HolderIs(r) => lock' = lock
      /\ lock # None => lock'.by = lock.by
  <2>1. CASE HolderIs(r)
    <3>1. lock \in LockType
      BY <2>1 DEF IssueTypeOK, HolderIs
    <3>2. lock' \in LockType /\ lock'.token = dir.meta /\ lock'.by = lock.by
      BY <1>2, <1>3, <2>1, <3>1 DEF LockType
    <3> QED BY <2>1, <3>1, <3>2, IssueAssumption
  <2>2. CASE ~HolderIs(r)
    BY <1>2, <2>2 DEF IssueTypeOK
  <2> QED BY <2>1, <2>2
<1>10. IssueTypeOK'
  BY <1>2, <1>3, <1>7, <1>8, <1>9 DEF IssueTypeOK
<1>11. PhaseInv'
  BY <1>2, <1>4, <1>5, <1>6, <1>7 DEF PhaseInv, At
<1>12. LockInv'
  <2> SUFFICES ASSUME NEW s \in Runs
               PROVE  LockInv!(s)'
    BY DEF LockInv
  <2>1. CASE s = r
    BY <1>2, <1>3, <1>6, <1>7, <1>8, <1>9, <2>1
    DEF LockInv, Holding, HolderIs, Filled, Released, At
  <2>2. CASE s # r
    BY <1>2, <1>3, <1>6, <1>7, <1>8, <1>9, <2>2
    DEF LockInv, Holding, HolderIs, Filled, Released, At
  <2> QED BY <2>1, <2>2
<1>13. DataInv'
  BY <1>2, <1>3, <1>6, <1>7, <1>8 DEF DataInv, At
<1> QED BY <1>10, <1>11, <1>12, <1>13

LEMMA FillLockInv ==
  ASSUME IInv, NEW r \in Runs, FillLock(r)
  PROVE  IInv'
<1> USE DEF IInv
<1>1. CASE Dir.meta # None
  BY <1>1, FilledInv
<1>2. CASE Dir.meta = None
  <2>1. /\ At(r) = "fill" /\ End(r, "refused")
        /\ UNCHANGED <<runtime, lock, dir, held, dispatched, displaced>> /\ Dir' = Dir
    BY <1>2 DEF FillLock, Dir
  <2>2. /\ proc' \in [Runs -> ProcType] /\ proc'[r].at = "refused"
        /\ \A s \in Runs \ {r} : proc'[s] = proc[s]
    BY <2>1, EndMoves DEF Steps
  <2>3. IssueTypeOK'
    BY <2>1, <2>2 DEF IssueTypeOK
  <2>4. PhaseInv'
    BY <2>2 DEF PhaseInv, At
  <2>5. LockInv'
    <3> SUFFICES ASSUME NEW s \in Runs
                 PROVE  LockInv!(s)'
      BY DEF LockInv
    <3>1. CASE s = r
      BY <2>1, <2>2, <3>1 DEF LockInv, Holding, HolderIs, Filled, Released, At
    <3>2. CASE s # r
      BY <2>1, <2>2, <3>2 DEF LockInv, Holding, HolderIs, Filled, Released, At
    <3> QED BY <3>1, <3>2
  <2>6. DataInv'
    BY <2>1, <2>2 DEF DataInv, At
  <2> QED BY <2>3, <2>4, <2>5, <2>6
<1> QED BY <1>1, <1>2

-----------------------------------------------------------------------------
(* The end of a run *)

LEMMA ReleaseInv ==
  ASSUME IInv, NEW r \in Runs, Release(r)
  PROVE  IInv'
<1> USE DEF IInv
<1> DEFINE label == IF At(r) = "release" THEN "wipe" ELSE "rewipe"
<1>1. /\ At(r) \in {"release", "rerelease"} /\ Goto(r, label) /\ label \in {"wipe", "rewipe"}
      /\ UNCHANGED <<runtime, dir, held, dispatched>> /\ Dir' = Dir
  BY DEF Release, Dir
<1> HIDE DEF label
<1>2. /\ proc' \in [Runs -> ProcType] /\ proc'[r].at = label
      /\ \A s \in Runs \ {r} : proc'[s] = proc[s]
  BY <1>1, GotoMoves DEF Steps
<1>3. /\ lock' = None \/ lock' = lock
      /\ displaced \subseteq displaced' /\ displaced' \subseteq Runs
      /\ lock' # lock => /\ lock.token = r /\ lock' = None
                         /\ \A s \in Runs \ {r} : HolderIs(s) /\ Holding(s) => s \in displaced'
      /\ lock' = lock => ~(lock # None /\ lock.token = r)
  BY DEF Release, IssueTypeOK
<1>4. IssueTypeOK'
  BY <1>1, <1>2, <1>3 DEF IssueTypeOK
<1>5. PhaseInv'
  BY <1>1, <1>2 DEF PhaseInv, At
<1>6. LockInv'
  <2> SUFFICES ASSUME NEW s \in Runs
               PROVE  LockInv!(s)'
    BY DEF LockInv
  <2>1. CASE s = r
    BY <1>1, <1>2, <1>3, <2>1 DEF LockInv, Holding, HolderIs, Filled, Released, At
  <2>2. CASE s # r
    BY <1>1, <1>2, <1>3, <2>2, IssueAssumption
    DEF LockInv, Holding, HolderIs, Filled, Released, At
  <2> QED BY <2>1, <2>2
<1>7. DataInv'
  BY <1>1, <1>2, <1>3 DEF DataInv, At
<1> QED BY <1>4, <1>5, <1>6, <1>7

LEMMA WipeInv ==
  ASSUME IInv, NEW r \in Runs, Wipe(r)
  PROVE  IInv'
<1> USE DEF IInv
<1>1. /\ At(r) \in {"wipe", "rewipe"} /\ UNCHANGED <<held, dispatched>>
      /\ Goto(r, "rerelease") \/ End(r, "done")
  BY DEF Wipe
<1>2. /\ proc' \in [Runs -> ProcType] /\ proc'[r].at \in {"rerelease", "done"}
      /\ \A s \in Runs \ {r} : proc'[s] = proc[s]
  BY <1>1, GotoMoves, EndMoves DEF Steps
<1>3. CASE proc[r].env.keep
  <2>1. UNCHANGED <<runtime, lock, dir, displaced>> /\ Dir' = Dir
    BY <1>3 DEF Wipe, Dir
  <2>2. IssueTypeOK'
    BY <1>1, <1>2, <2>1 DEF IssueTypeOK
  <2>3. PhaseInv'
    BY <1>2 DEF PhaseInv, At
  <2>4. LockInv'
    <3> SUFFICES ASSUME NEW s \in Runs
                 PROVE  LockInv!(s)'
      BY DEF LockInv
    <3>1. CASE s = r
      BY <1>1, <1>2, <2>1, <3>1 DEF LockInv, Holding, HolderIs, Filled, Released, At
    <3>2. CASE s # r
      BY <1>1, <1>2, <2>1, <3>2 DEF LockInv, Holding, HolderIs, Filled, Released, At
    <3> QED BY <3>1, <3>2
  <2>5. DataInv'
    BY <1>2, <2>1 DEF DataInv, At
  <2> QED BY <2>2, <2>3, <2>4, <2>5
<1>4. CASE ~proc[r].env.keep
  <2>1. /\ runtime' = FALSE /\ lock' = None /\ dir' = None
        /\ displaced' = displaced \cup {s \in Runs \ {r} : Holding(s)}
    BY <1>4 DEF Wipe
  <2>2. IssueTypeOK'
    BY <1>1, <1>2, <2>1 DEF IssueTypeOK
  <2>3. PhaseInv'
    BY <1>2 DEF PhaseInv, At
  <2>4. Dir'.meta = None
    BY <2>1 DEF Dir, EmptyDir
  <2>5. LockInv'
    BY <1>1, <1>2, <2>1, <2>4, IssueAssumption
    DEF LockInv, Holding, HolderIs, Filled, Released, At
  <2>6. DataInv'
    BY <1>1, <1>2, <2>1 DEF DataInv, At, Holding
  <2> QED BY <2>2, <2>3, <2>5, <2>6
<1> QED BY <1>3, <1>4

-----------------------------------------------------------------------------
(* The listener *)

LEMMA WebhookInv ==
  ASSUME IInv, NEW r \in Runs, Webhook(r)
  PROVE  IInv'
<1> USE DEF IInv
<1>1. /\ lock = None /\ runtime' = TRUE /\ lock' = [by |-> Listener, token |-> Listener]
      /\ held' = TRUE /\ dispatched' \subseteq Runs
      /\ UNCHANGED <<dir, proc, displaced>> /\ Dir' = Dir
  BY DEF Webhook, IssueTypeOK, Dir
<1>2. lock' \in LockType /\ lock'.by = Listener /\ lock'.token = Listener
  BY <1>1 DEF LockType
<1>3. IssueTypeOK'
  BY <1>1, <1>2 DEF IssueTypeOK
<1>4. PhaseInv'
  BY <1>1 DEF PhaseInv, At
<1>5. LockInv'
  BY <1>1, <1>2, IssueAssumption DEF LockInv, Holding, HolderIs, Filled, Released, At
<1>6. DataInv'
  BY <1>1 DEF DataInv, At
<1> QED BY <1>3, <1>4, <1>5, <1>6

LEMMA ListenerEndsInv ==
  ASSUME IInv, ListenerExits \/ ListenerKilled
  PROVE  IInv'
<1> USE DEF IInv
<1>1. /\ (lock' = lock \/ (HolderIs(Listener) /\ lock' = None)) /\ held' = FALSE
      /\ UNCHANGED <<runtime, dir, proc, dispatched, displaced>> /\ Dir' = Dir
  BY DEF ListenerExits, ListenerKilled, Dir
<1>2. IssueTypeOK'
  BY <1>1 DEF IssueTypeOK
<1>3. PhaseInv'
  BY <1>1 DEF PhaseInv, At
<1>4. LockInv'
  BY <1>1, IssueAssumption DEF LockInv, Holding, HolderIs, Filled, Released, At
<1>5. DataInv'
  BY <1>1 DEF DataInv, At
<1> QED BY <1>2, <1>3, <1>4, <1>5

-----------------------------------------------------------------------------
(* The invariant *)

LEMMA StepInv == IInv /\ [Next]_vars => IInv'
<1> SUFFICES ASSUME IInv, [Next]_vars PROVE IInv' OBVIOUS
<1>1. CASE UNCHANGED vars
  BY <1>1 DEF vars, IInv, IssueTypeOK, PhaseInv, LockInv, DataInv, Holding, HolderIs, At, Dir
<1>2. CASE ListenerExits \/ ListenerKilled
  BY <1>2, ListenerEndsInv
<1>3. CASE \E r \in Runs : Webhook(r)
  BY <1>3, WebhookInv
<1>4. CASE \E r \in Runs : RunStep(r)
  <2>1. PICK r \in Runs : RunStep(r)
    BY <1>4
  <2> QED
    BY <2>1, StartRefusedInv, PrepareInv, TakeLockInv, FillLockInv, GenerateInv, ValidateInv,
       RepairInv, AcceptInv, PublishInv, StopInv, SignalInv, ReleaseInv, WipeInv, KillInv
    DEF RunStep
<1> QED BY <1>1, <1>2, <1>3, <1>4 DEF Next

LEMMA InvHolds == Spec => []IInv
  BY InitInv, StepInv, PTL DEF Spec

-----------------------------------------------------------------------------
(* The theorems *)

\* Every variable of a run, of the lock and of the run directory has its type.
THEOREM IssueTypeCorrect == Spec => []IssueTypeOK
  BY InvHolds, PTL DEF IInv

\* run-hoca-task.sh:627: noclobber makes a run alone with its issue but for
\* cleanups of others that remove its lock.
THEOREM AloneButForCleanups == Spec => []TwoWorkOnlyAfterCleanup
<1>1. IInv => TwoWorkOnlyAfterCleanup
  BY DEF IInv, LockInv, TwoWorkOnlyAfterCleanup, HolderIs
<1> QED BY <1>1, InvHolds, PTL

\* run-hoca-task.sh:736: the only lock files that outlive a run which ended in
\* order hold the token of another run, or nothing.
THEOREM LeftLocks == Spec => []LeftLockIsSwapped
<1>1. IInv => LeftLockIsSwapped
  BY DEF IInv, LockInv, LeftLockIsSwapped, Filled, Released
<1> QED BY <1>1, InvHolds, PTL

\* A run that has not been disturbed works from the specification of its task.
THEOREM WorksFromOwnSpecification == Spec => []SpecificationIsOwn
<1>1. IInv => SpecificationIsOwn
  BY DEF IInv, DataInv, SpecificationIsOwn
<1> QED BY <1>1, InvHolds, PTL

\* Only the publication of a run enables auto-merge.
LEMMA OnlyPublishMerges ==
  ASSUME IInv, [Next]_vars, NEW r \in Runs, ~Publish(r), proc'[r].merge
  PROVE  proc[r].merge
<1>1. proc \in [Runs -> ProcType]
  BY DEF IInv, IssueTypeOK
<1>2. CASE UNCHANGED proc
  BY <1>2
<1>3. ASSUME NEW s \in Runs, RunStep(s)
      PROVE  proc[r].merge
  <2>1. CASE s # r
    BY <1>1, <1>3, <2>1
    DEF RunStep, StartRefused, Prepare, TakeLock, FillLock, Generate, Validate, Repair, Accept,
        Publish, Stop, Signal, Release, Wipe, Kill, Goto, End
  <2>2. CASE s = r
    <3>1. proc[r] \in ProcType
      BY <1>1
    <3>2. CASE StartRefused(r) \/ TakeLock(r) \/ FillLock(r) \/ Wipe(r) \/ Kill(r)
      <4>1. IssueTypeOK
        BY DEF IInv
      <4>2. ASSUME NEW how \in Steps, End(r, how)
            PROVE  ~proc'[r].merge
        BY <4>1, <4>2, EndMoves
      <4>3. ASSUME NEW label \in Steps, Goto(r, label)
            PROVE  proc'[r].merge = proc[r].merge
        BY <1>1, <3>1, <4>3 DEF Goto, ProcType
      <4>4. CASE FillLock(r)
        BY <1>1, <3>1, <4>2, <4>4 DEF FillLock, ProcType, Steps
      <4> QED BY <3>2, <4>2, <4>3, <4>4 DEF StartRefused, TakeLock, Wipe, Kill, Steps
    <3>3. CASE Validate(r) \/ Release(r)
      BY <1>1, <3>1, <3>3 DEF Validate, Release, Goto, ProcType
    <3>4. CASE Prepare(r)
      BY <1>1, <3>1, <3>4 DEF Prepare, ProcType
    <3>5. CASE Generate(r)
      BY <1>1, <3>1, <3>5 DEF Generate, ProcType
    <3>6. CASE Repair(r)
      BY <1>1, <3>1, <3>6 DEF Repair, ProcType
    <3>7. CASE Accept(r)
      BY <1>1, <3>1, <3>7 DEF Accept, ProcType
    <3>8. CASE Stop(r) \/ Signal(r)
      BY <1>1, <3>1, <3>8, LeavingType DEF Stop, Signal, ProcType
    <3> QED BY <1>3, <2>2, <3>2, <3>3, <3>4, <3>5, <3>6, <3>7, <3>8 DEF RunStep
  <2> QED BY <2>1, <2>2
<1> QED BY <1>2, <1>3 DEF Next, Webhook, ListenerExits, ListenerKilled, vars

-----------------------------------------------------------------------------
(* What stands behind a merge *)

Early == {"new", "lock", "fill", "generate", "working", "review"}
Judged == {"review", "publish"}

LowRisk == Dir.risk # None /\ Dir.risk.level = "low"

\* Another run has left a harmless list, and the task of this one is harmless.
Backed(r) ==
  /\ \E s \in Runs \ {r} : Harmless(proc[s].work)
  /\ TextRisk(proc[r].task.traits) # "high"

\* A run lists its changes after its last validation; the list in the directory
\* is that of some run; and a low level is backed by the list of another.
EvidenceInv ==
  /\ \A r \in Runs : At(r) \in Early => proc[r].work = None
  /\ Dir.changed # NoChange => \E s \in Runs : proc[s].work = Dir.changed
  /\ displaced = {} => \A r \in Runs : At(r) \in Judged /\ LowRisk => Backed(r)

LEMMA EvidenceInit == Init => EvidenceInv
  BY DEF Init, EvidenceInv, Idle, At, Dir, EmptyDir, Judged

\* A level is low only when the words of the task are harmless and the list is.
LEMMA LowMeansHarmless ==
  ASSUME NEW traits, NEW change \in ChangeType, TaskRisk(traits, change.files) = "low"
  PROVE  TextRisk(traits) # "high" /\ Harmless(change) /\ change # NoChange
<1>1. TextRisk(traits) \in {"high", "unknown"}
  BY DEF TextRisk
<1>2. PathRisk(change.files) \in {"high", "medium", "unknown", "low"}
  BY DEF PathRisk
<1>3. Combined(TextRisk(traits), PathRisk(change.files)) = "low"
  BY DEF TaskRisk
<1>4. TextRisk(traits) # "high"
  BY <1>2, <1>3 DEF Combined, Priority
<1>5. PathRisk(change.files) = "low"
  BY <1>1, <1>3, <1>4 DEF Combined
<1>6. /\ change.files # {}
      /\ \A f \in change.files : ~HighRisk(f) /\ ~Source(f)
  BY <1>5 DEF PathRisk
<1>7. change # None /\ change # NoChange
  BY <1>6, IssueAssumption DEF NoChange
<1> QED BY <1>4, <1>6, <1>7 DEF Harmless

\* A step of one run that keeps the lists and the risk keeps the evidence.
LEMMA EvidenceKept ==
  ASSUME EvidenceInv, NEW r \in Runs,
         \A s \in Runs \ {r} : proc'[s] = proc[s],
         proc'[r].work = proc[r].work, At(r)' \in Early => At(r) \in Early,
         At(r)' \in Judged => At(r) \in Judged /\ proc'[r].task = proc[r].task,
         Dir'.changed = Dir.changed, Dir'.risk = Dir.risk, displaced \subseteq displaced'
  PROVE  EvidenceInv'
<1>1. \A s \in Runs : proc'[s].work = proc[s].work
  OBVIOUS
<1>2. \A s \in Runs : At(s)' \in Early => At(s) \in Early
  BY DEF At
<1>3. \A s \in Runs : At(s)' \in Judged => At(s) \in Judged /\ proc'[s].task = proc[s].task
  BY DEF At
<1>4. LowRisk' <=> LowRisk
  BY DEF LowRisk
<1> QED BY <1>1, <1>2, <1>3, <1>4 DEF EvidenceInv, Backed

LEMMA EvidenceOfMoves ==
  ASSUME IInv, EvidenceInv, NEW r \in Runs,
         \/ StartRefused(r) \/ TakeLock(r) \/ FillLock(r) \/ Kill(r)
         \/ Release(r) \/ (Wipe(r) /\ proc[r].env.keep)
  PROVE  EvidenceInv'
<1>1. IssueTypeOK /\ proc[r] \in ProcType
  BY DEF IInv, IssueTypeOK
<1>2. ASSUME NEW how \in {"stopped", "refused", "done", "killed"}, End(r, how), UNCHANGED dir,
             displaced \subseteq displaced'
      PROVE  EvidenceInv'
  <2>1. /\ proc'[r].at = how /\ proc'[r].work = proc[r].work
        /\ \A s \in Runs \ {r} : proc'[s] = proc[s]
    BY <1>1, <1>2, EndMoves DEF Steps
  <2>2. At(r)' \notin Early /\ At(r)' \notin Judged
    BY <2>1 DEF At, Early, Judged
  <2> QED BY <1>2, <2>1, <2>2, EvidenceKept DEF Dir
<1>3. ASSUME NEW label \in {"fill", "wipe", "rewipe", "rerelease"}, Goto(r, label), UNCHANGED dir,
             label = "fill" => At(r) = "lock", displaced \subseteq displaced'
      PROVE  EvidenceInv'
  <2>1. /\ proc'[r].at = label /\ proc'[r] = [proc[r] EXCEPT !.at = label]
        /\ \A s \in Runs \ {r} : proc'[s] = proc[s]
    BY <1>1, <1>3, GotoMoves DEF Steps
  <2>2. proc'[r].work = proc[r].work
    BY <1>1, <2>1 DEF ProcType
  <2>3. At(r)' \notin Judged /\ (At(r)' \in Early => At(r) \in Early)
    BY <1>3, <2>1 DEF At, Early, Judged
  <2> QED BY <1>3, <2>1, <2>2, <2>3, EvidenceKept DEF Dir
<1>4. CASE FillLock(r) /\ Dir.meta # None
  <2>1. PICK e \in Environments :
          /\ proc' = [proc EXCEPT ![r].at = "generate", ![r].env = e]
          /\ dir' = [dir EXCEPT !.auto = e.auto]
    BY <1>4 DEF FillLock
  <2>2. At(r) = "fill" /\ UNCHANGED displaced /\ dir # None /\ dir \in DirType
    BY <1>1, <1>4 DEF FillLock, IssueTypeOK, Dir, EmptyDir
  <2>3. /\ proc'[r].at = "generate" /\ proc'[r].work = proc[r].work
        /\ \A s \in Runs \ {r} : proc'[s] = proc[s]
    BY <1>1, <2>1 DEF IssueTypeOK, ProcType
  <2>4. dir'.changed = dir.changed /\ dir'.risk = dir.risk /\ dir' \in DirType
    BY <2>1, <2>2, IssueAssumption DEF DirType, EnvType
  <2>5. Dir'.changed = Dir.changed /\ Dir'.risk = Dir.risk
    BY <2>2, <2>4, IssueAssumption DEF Dir
  <2>6. At(r)' \notin Judged /\ At(r) \in Early
    BY <2>2, <2>3 DEF At, Early, Judged
  <2> QED BY <2>2, <2>3, <2>5, <2>6, EvidenceKept
<1>5. CASE Release(r)
  <2>1. displaced \subseteq displaced'
    BY <1>5 DEF Release
  <2>2. CASE At(r) = "release"
    BY <1>3, <1>5, <2>1, <2>2 DEF Release
  <2>3. CASE At(r) # "release"
    BY <1>3, <1>5, <2>1, <2>3 DEF Release
  <2> QED BY <2>2, <2>3
<1>6. CASE StartRefused(r) \/ Kill(r)
  BY <1>2, <1>6 DEF StartRefused, Kill
<1>7. CASE TakeLock(r)
  BY <1>2, <1>3, <1>7 DEF TakeLock
<1>8. CASE FillLock(r) /\ Dir.meta = None
  BY <1>2, <1>8 DEF FillLock
<1>9. CASE Wipe(r) /\ proc[r].env.keep
  BY <1>2, <1>3, <1>9 DEF Wipe
<1> QED BY <1>4, <1>5, <1>6, <1>7, <1>8, <1>9

\* The steps that change the task, the specification, the limits or the merge.
LEMMA EvidenceOfWork ==
  ASSUME IInv, EvidenceInv, NEW r \in Runs,
         Prepare(r) \/ Generate(r) \/ Repair(r) \/ Publish(r) \/ Stop(r) \/ Signal(r)
  PROVE  EvidenceInv'
<1>1. IssueTypeOK /\ proc[r] \in ProcType /\ Dir \in DirType
  BY DirInType DEF IInv, IssueTypeOK
<1>2. Leaving(proc[r]) \in ProcType /\ Leaving(proc[r]).at = "release"
      /\ Leaving(proc[r]).work = proc[r].work
  BY <1>1, LeavingType
<1>3. CASE Stop(r) \/ Signal(r) \/ Publish(r)
  <2>1. /\ proc'[r].at = "release" /\ proc'[r].work = proc[r].work
        /\ \A s \in Runs \ {r} : proc'[s] = proc[s]
    BY <1>1, <1>2, <1>3 DEF Stop, Signal, Publish, IssueTypeOK, ProcType
  <2>2. At(r)' \notin Early /\ At(r)' \notin Judged
    BY <2>1 DEF At, Early, Judged
  <2>3. UNCHANGED dir /\ displaced \subseteq displaced'
    BY <1>3 DEF Stop, Signal, Publish
  <2> QED BY <2>1, <2>2, <2>3, EvidenceKept DEF Dir
<1>4. CASE Repair(r)
  <2>1. /\ proc'[r].at = "working" /\ proc'[r].work = proc[r].work
        /\ \A s \in Runs \ {r} : proc'[s] = proc[s]
    BY <1>1, <1>4 DEF Repair, IssueTypeOK, ProcType
  <2>2. At(r)' \notin Judged /\ At(r) \in Early /\ UNCHANGED <<dir, displaced>>
    BY <1>4, <2>1 DEF At, Early, Judged, Repair
  <2> QED BY <2>1, <2>2, EvidenceKept DEF Dir
<1>5. CASE Generate(r)
  <2>1. /\ proc'[r].at = "working" /\ proc'[r].work = proc[r].work
        /\ \A s \in Runs \ {r} : proc'[s] = proc[s]
    BY <1>1, <1>5 DEF Generate, IssueTypeOK, ProcType
  <2>2. At(r)' \notin Judged /\ At(r) \in Early /\ UNCHANGED displaced
    BY <1>5, <2>1 DEF At, Early, Judged, Generate
  <2> DEFINE spec == TaskSpec(proc[r].task, Project)
             env  == ExpressEnv(spec, proc[r].env)
  <2>3. dir' = [Dir EXCEPT !.spec = spec, !.auto = env.auto]
    BY <1>5 DEF Generate
  <2>6. spec \in SpecType /\ proc[r].env \in EnvType
    BY <1>5, TaskSpecType DEF Generate, IInv, PhaseInv
  <2> HIDE DEF spec
  <2>7. env.auto \in BOOLEAN
    BY <2>6, ExpressType DEF EnvType
  <2> HIDE DEF env
  <2>4. dir'.changed = Dir.changed /\ dir'.risk = Dir.risk /\ dir' \in DirType
    BY <1>1, <2>3, <2>6, <2>7 DEF DirType
  <2>5. Dir' = dir'
    BY <2>4, IssueAssumption DEF Dir
  <2> QED BY <2>1, <2>2, <2>4, <2>5, EvidenceKept
<1>6. CASE Prepare(r)
  <2>6. PICK t \in Tasks : proc' = [proc EXCEPT ![r].at = "lock", ![r].task = t]
    BY <1>6 DEF Prepare
  <2>1. /\ proc'[r].at = "lock" /\ proc'[r].work = proc[r].work
        /\ \A s \in Runs \ {r} : proc'[s] = proc[s]
    BY <1>1, <2>6 DEF IssueTypeOK, ProcType
  <2>2. At(r)' \notin Judged /\ At(r) \in Early /\ UNCHANGED displaced
    BY <1>6, <2>1 DEF At, Early, Judged, Prepare
  <2>3. dir' = [Dir EXCEPT !.meta = r]
    BY <1>6 DEF Prepare
  <2>4. dir'.changed = Dir.changed /\ dir'.risk = Dir.risk /\ dir' \in DirType
    BY <1>1, <2>3 DEF DirType
  <2>5. Dir' = dir'
    BY <2>4, IssueAssumption DEF Dir
  <2> QED BY <2>1, <2>2, <2>4, <2>5, EvidenceKept
<1> QED BY <1>3, <1>4, <1>5, <1>6

\* The level of a validation is that of the list another run left.
LEMMA EvidenceOfValidation ==
  ASSUME IInv, EvidenceInv, NEW r \in Runs, Validate(r)
  PROVE  EvidenceInv'
<1>1. /\ IssueTypeOK /\ proc[r] \in ProcType /\ Dir \in DirType
      /\ At(r) = "working" /\ UNCHANGED displaced
  BY DirInType DEF IInv, IssueTypeOK, Validate
<1>2. /\ proc'[r] = [proc[r] EXCEPT !.at = "review"]
      /\ proc'[r].at = "review" /\ \A s \in Runs \ {r} : proc'[s] = proc[s]
  BY <1>1, GotoMoves DEF Validate, Steps
<1>3. proc'[r].work = proc[r].work /\ proc'[r].task = proc[r].task /\ proc[r].work = None
  BY <1>1, <1>2 DEF ProcType, EvidenceInv, Early
<1>4. PICK stop \in {"completed", "scope_violation"} :
        dir' = [Dir EXCEPT !.risk = Assessment(Dir.spec.traits, Dir.changed, Dir.just,
                                               Dir.spec.areas, stop)]
  BY DEF Validate
<1>5. /\ dir' \in DirType /\ dir'.changed = Dir.changed
      /\ dir'.risk.level = TaskRisk(Dir.spec.traits, Dir.changed.files)
  BY <1>1, <1>4, AssessmentType DEF DirType, Assessment
<1>6. Dir' = dir'
  BY <1>5, IssueAssumption DEF Dir
<1>7. \A s \in Runs : proc'[s].work = proc[s].work
  BY <1>2, <1>3
<1>8. \A s \in Runs : At(s)' \in Early => proc'[s].work = None
  BY <1>2, <1>3, <1>7 DEF EvidenceInv, At
<1>9. ASSUME displaced' = {}, NEW s \in Runs, At(s)' \in Judged, LowRisk'
      PROVE  Backed(s)'
  <2>1. s = r
    BY <1>1, <1>2, <1>9, AloneAtWork DEF At, Holding, Judged, IInv
  <2>2. dir # None /\ dir.spec = TaskSpec(proc[r].task, Project)
    BY <1>1, <1>9 DEF IInv, DataInv
  <2>3. Dir.spec.traits = proc[r].task.traits
    BY <2>2 DEF Dir, TaskSpec
  <2>4. Dir.changed \in ChangeType /\ TaskRisk(Dir.spec.traits, Dir.changed.files) = "low"
    BY <1>1, <1>5, <1>6, <1>9 DEF LowRisk, DirType
  <2>5. /\ TextRisk(Dir.spec.traits) # "high" /\ Harmless(Dir.changed)
        /\ Dir.changed # NoChange
    BY <2>4, LowMeansHarmless
  <2>6. PICK other \in Runs : proc[other].work = Dir.changed
    BY <2>5 DEF EvidenceInv
  <2>7. other # r /\ Harmless(proc'[other].work)
    BY <1>3, <1>7, <2>5, <2>6 DEF Harmless
  <2> QED BY <1>3, <2>1, <2>3, <2>5, <2>7 DEF Backed
<1> QED BY <1>5, <1>6, <1>7, <1>8, <1>9 DEF EvidenceInv

LEMMA EvidenceOfAcceptance ==
  ASSUME IInv, EvidenceInv, NEW r \in Runs, Accept(r)
  PROVE  EvidenceInv'
<1>1. PICK c \in Changes, j \in Justifications :
        /\ dir' = [dir EXCEPT !.changed = c, !.just = j]
        /\ proc' = [proc EXCEPT ![r].at = "publish", ![r].work = c, ![r].limits = None]
  BY DEF Accept
<1>2. /\ proc \in [Runs -> ProcType] /\ dir \in DirType /\ Dir = dir
      /\ At(r) = "review" /\ UNCHANGED displaced
  BY DEF IInv, IssueTypeOK, Accept, Dir
<1>3. c \in ChangeType /\ j \in Justification
  BY IssueAssumption
<1>4. dir' \in DirType /\ dir'.changed = c /\ dir'.risk = dir.risk
  BY <1>1, <1>2, <1>3 DEF DirType
<1>5. Dir' = dir'
  BY <1>4, IssueAssumption DEF Dir
<1>6. /\ proc'[r].at = "publish" /\ proc'[r].work = c /\ proc'[r].task = proc[r].task
      /\ \A s \in Runs \ {r} : proc'[s] = proc[s]
  BY <1>1, <1>2 DEF ProcType
<1>7. \A s \in Runs : At(s)' \in Early => proc'[s].work = None
  BY <1>6 DEF EvidenceInv, At, Early
<1>8. ASSUME displaced' = {}, NEW s \in Runs, At(s)' \in Judged, LowRisk'
      PROVE  Backed(s)'
  <2>1. s = r
    BY <1>2, <1>6, <1>8, AloneAtWork DEF At, Holding, Judged, IInv
  <2>2. Backed(r)
    BY <1>2, <1>4, <1>5, <1>8 DEF EvidenceInv, LowRisk, Judged
  <2> QED BY <1>6, <2>1, <2>2 DEF Backed
<1> QED BY <1>4, <1>5, <1>6, <1>7, <1>8 DEF EvidenceInv

\* With the directory go the list and the level.
LEMMA EvidenceOfRemoval ==
  ASSUME IInv, EvidenceInv, NEW r \in Runs, Wipe(r), ~proc[r].env.keep
  PROVE  EvidenceInv'
<1>1. /\ dir' = None /\ Dir'.changed = NoChange /\ Dir'.risk = None
      /\ (Goto(r, "rerelease") \/ End(r, "done"))
  BY DEF Wipe, Dir, EmptyDir
<1>2. IssueTypeOK /\ proc[r] \in ProcType
  BY DEF IInv, IssueTypeOK
<1>3. /\ proc'[r].at \in {"rerelease", "done"}
      /\ \A s \in Runs \ {r} : proc'[s] = proc[s]
  BY <1>1, <1>2, GotoMoves, EndMoves DEF Steps
<1> QED BY <1>1, <1>3 DEF EvidenceInv, At, Early, LowRisk

LEMMA EvidenceStep == IInv /\ EvidenceInv /\ [Next]_vars => EvidenceInv'
<1> SUFFICES ASSUME IInv, EvidenceInv, [Next]_vars PROVE EvidenceInv' OBVIOUS
<1>1. CASE UNCHANGED <<proc, dir, displaced>>
  BY <1>1 DEF EvidenceInv, At, Dir, LowRisk, Backed
<1>2. ASSUME NEW r \in Runs, RunStep(r)
      PROVE  EvidenceInv'
  BY <1>2, EvidenceOfMoves, EvidenceOfWork, EvidenceOfValidation, EvidenceOfAcceptance,
     EvidenceOfRemoval
  DEF RunStep
<1> QED BY <1>1, <1>2 DEF Next, Webhook, ListenerExits, ListenerKilled, vars

\* What a run publishes is what the gate has looked at, on a level that was low.
LEMMA PublishedPasses ==
  ASSUME IInv, EvidenceInv, NEW r \in Runs, Publish(r), proc'[r].merge, displaced = {}
  PROVE  Backed(r) /\ \A f \in proc[r].work.files : ~Refused(f, dir.just)
<1>1. dir.changed = proc[r].work /\ At(r) = "publish"
  BY DEF IInv, DataInv, Publish
<1>2. PICK ok, allowed \in BOOLEAN :
        proc' = [proc EXCEPT ![r] = [Leaving(proc[r]) EXCEPT !.merge =
                   /\ allowed /\ dir # None /\ dir.auto /\ dir.risk # None
                   /\ Precheck(ok, dir.risk.level, dir.changed.files, dir.just)]]
  BY DEF Publish
<1>3. proc \in [Runs -> ProcType]
  BY DEF IInv, IssueTypeOK
<1>4. Leaving(proc[r]) \in ProcType
  BY <1>3, LeavingType
<1>5. /\ dir # None /\ dir.risk # None
      /\ Precheck(ok, dir.risk.level, dir.changed.files, dir.just)
  BY <1>2, <1>3, <1>4 DEF ProcType
<1>6. LowRisk
  BY <1>5 DEF LowRisk, Dir, Precheck
<1>7. Backed(r)
  BY <1>1, <1>6 DEF EvidenceInv, Judged
<1> QED BY <1>1, <1>5, <1>7 DEF Precheck

\* run_artifacts.py:474 and auto-merge-guards.sh:149: an auto-merge rests on the
\* harmless list of an earlier run, the words of the task, and the gate's look
\* at the files of the run itself.
THEOREM MergesOnEarlierList == Spec => MergeRestsOnEarlierList
<1> DEFINE Safe == \A r \in Runs :
                     proc'[r].merge /\ ~proc[r].merge /\ displaced = {} =>
                       /\ \E s \in Runs \ {r} : Harmless(proc[s].work)
                       /\ TextRisk(proc[r].task.traits) # "high"
                       /\ \A f \in proc[r].work.files : ~Refused(f, dir.just)
<1>1. IInv /\ EvidenceInv /\ [Next]_vars => Safe
  BY OnlyPublishMerges, PublishedPasses DEF Backed
<1>2. Spec => []EvidenceInv
  BY EvidenceInit, EvidenceStep, InvHolds, PTL DEF Spec
<1> QED BY <1>1, <1>2, InvHolds, PTL DEF Spec, MergeRestsOnEarlierList

\* A run at work changes its limits only by a repair, until it gives them up.
LEMMA OnlyRepairMovesLimits ==
  ASSUME IInv, [Next]_vars, NEW r \in Runs, ~Repair(r),
         Running(r), proc[r].limits # None, proc'[r].limits # None
  PROVE  proc'[r].limits = proc[r].limits
<1>1. proc \in [Runs -> ProcType] /\ At(r) \in {"working", "review", "publish"}
  BY DEF IInv, IssueTypeOK, PhaseInv, Running
<1>2. CASE UNCHANGED proc
  BY <1>2
<1>3. ASSUME NEW s \in Runs, RunStep(s)
      PROVE  proc'[r].limits = proc[r].limits
  <2>1. CASE s # r
    BY <1>1, <1>3, <2>1
    DEF RunStep, StartRefused, Prepare, TakeLock, FillLock, Generate, Validate, Repair, Accept,
        Publish, Stop, Signal, Release, Wipe, Kill, Goto, End
  <2>2. CASE s = r
    <3>1. proc[r] \in ProcType
      BY <1>1
    <3>2. CASE Kill(r)
      BY <3>2, EndMoves DEF Kill, Steps, IInv
    <3>3. CASE Validate(r)
      BY <1>1, <3>1, <3>3 DEF Validate, Goto, ProcType
    <3>4. CASE Accept(r)
      BY <1>1, <3>1, <3>4 DEF Accept, ProcType
    <3>5. CASE Stop(r) \/ Signal(r) \/ Publish(r)
      <4>1. Leaving(proc[r]) \in ProcType /\ Leaving(proc[r]).limits = None
        BY <3>1, LeavingType DEF Leaving, ProcType
      <4> QED BY <1>1, <3>5, <4>1 DEF Stop, Signal, Publish, ProcType
    <3> QED
      BY <1>1, <1>3, <2>2, <3>2, <3>3, <3>4, <3>5
      DEF RunStep, StartRefused, Prepare, TakeLock, FillLock, Generate, Release, Wipe
  <2> QED BY <2>1, <2>2
<1> QED BY <1>2, <1>3 DEF Next, Webhook, ListenerExits, ListenerKilled, vars

LEMMA RepairKeepsRounds ==
  ASSUME IInv, NEW r \in Runs, Repair(r), displaced = {}
  PROVE  proc'[r].limits.rounds = proc[r].limits.rounds
<1> DEFINE n    == proc[r].round + 1
           spec == TaskSpec(proc[r].task, Project)
           lim  == IF Dir.spec = NoSpec THEN proc[r].limits ELSE Limits(Dir.spec, n, proc[r].env)
<1>1. /\ dir # None /\ dir.spec = spec /\ Dir = dir
      /\ proc[r].limits.rounds = Limits(spec, 1, proc[r].env).rounds
  BY DEF IInv, DataInv, Dir, Repair
<1>2. proc[r] \in ProcType /\ proc'[r].limits = lim
  BY DEF IInv, IssueTypeOK, Repair, ProcType
<1> HIDE DEF n, spec
<1>3. Limits(spec, n, proc[r].env).rounds = Limits(spec, 1, proc[r].env).rounds
  BY RoundsOfEveryRound
<1> QED BY <1>1, <1>2, <1>3

\* run_budget.py:85 and run-hoca-task.sh:319: rounds derived anew from the disk
\* never move the limit of a run that works undisturbed.
THEOREM LimitOfRoundsStays == Spec => RoundLimitIsKept
<1> DEFINE Kept == \A r \in Runs :
                     Running(r) /\ proc[r].limits # None /\ proc'[r].limits # None /\ displaced' = {} =>
                       proc'[r].limits.rounds = proc[r].limits.rounds
<1>1. IInv /\ [Next]_vars => Kept
  <2> SUFFICES ASSUME IInv, [Next]_vars, NEW r \in Runs,
                      Running(r), proc[r].limits # None, proc'[r].limits # None, displaced' = {}
               PROVE  proc'[r].limits.rounds = proc[r].limits.rounds
    OBVIOUS
  <2>1. CASE Repair(r)
    BY <2>1, RepairKeepsRounds DEF Repair
  <2>2. CASE ~Repair(r)
    BY <2>2, OnlyRepairMovesLimits
  <2> QED BY <2>1, <2>2
<1> QED BY <1>1, InvHolds, PTL DEF Spec, RoundLimitIsKept

\* Only its own release takes a run from the release to the wipe.
LEMMA OnlyReleaseReleases ==
  ASSUME IInv, [Next]_vars, NEW r \in Runs, At(r) = "release", At(r)' = "wipe"
  PROVE  Release(r)
<1>1. proc \in [Runs -> ProcType]
  BY DEF IInv, IssueTypeOK
<1>2. CASE UNCHANGED proc
  BY <1>2 DEF At
<1>3. ASSUME NEW s \in Runs, RunStep(s)
      PROVE  Release(r)
  <2>1. CASE s # r
    BY <1>1, <1>3, <2>1
    DEF RunStep, StartRefused, Prepare, TakeLock, FillLock, Generate, Validate, Repair, Accept,
        Publish, Stop, Signal, Release, Wipe, Kill, Goto, End, At
  <2>2. CASE s = r
    <3>1. CASE Kill(r)
      <4>1. proc'[r].at = "killed"
        BY <3>1, EndMoves DEF Kill, Steps, IInv
      <4> QED BY <4>1 DEF At
    <3> QED
      BY <1>3, <2>2, <3>1
      DEF RunStep, StartRefused, Prepare, TakeLock, FillLock, Generate, Validate, Repair, Accept,
          Publish, Stop, Signal, Running, Wipe
  <2> QED BY <2>1, <2>2
<1> QED BY <1>2, <1>3 DEF Next, Webhook, ListenerExits, ListenerKilled, vars

\* run-hoca-task.sh:736: the token in the file protects the locks of others.
THEOREM ReleaseSparesOthers == Spec => CleanupSparesOthers
<1> DEFINE Spared == \A r \in Runs :
                       At(r) = "release" /\ At(r)' = "wipe" /\ lock # None /\ lock.by # r => lock' = lock
<1>1. IInv /\ [Next]_vars => Spared
  <2> SUFFICES ASSUME IInv, [Next]_vars, NEW r \in Runs,
                      At(r) = "release", At(r)' = "wipe", lock # None, lock.by # r
               PROVE  lock' = lock
    OBVIOUS
  <2>1. Release(r)
    BY OnlyReleaseReleases
  <2>2. lock.token # r
    BY DEF IInv, LockInv, Holding, HolderIs
  <2> QED BY <2>1, <2>2 DEF Release
<1> QED BY <1>1, InvHolds, PTL DEF Spec, CleanupSparesOthers
=============================================================================
