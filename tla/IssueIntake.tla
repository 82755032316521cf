---------------------------- MODULE IssueIntake -----------------------------
(***************************************************************************)
(* From the text of a task to the specification and the limits of its run: *)
(* hoca/definition_of_ready.py, hoca/task_spec.py, hoca/run_budget.py and  *)
(* the express mode of run-hoca-task.sh.                                   *)
(***************************************************************************)
EXTENDS RiskPolicy, FiniteSetsExt

\* What the intake finds in a task: traits of its text, whether the repository
\* path is a directory, the paths it names and the commands it asks for.
Traits == {"empty", "dangerous", "broad", "production", "target", "other issue", "short",
           "vague", "high-risk word", "rewrite", "no long word"}
TaskType == [traits : SUBSET Traits, repository : BOOLEAN, paths : SUBSET FileType,
             commands : SUBSET STRING]

\* What the repository adds: paths named in its instruction files and the
\* commands its build files stand for.
ProjectType == [paths : SUBSET FileType, commands : SUBSET STRING]

-----------------------------------------------------------------------------
(* Definition of ready *)

Blocking(t) == ~t.repository \/ {"empty", "dangerous"} \cap t.traits # {}

\* No pattern is tried on an empty text. An issue number has to be in the text.
Escalating(t) ==
  /\ "empty" \notin t.traits
  /\ \/ {"broad", "other issue", "vague"} \cap t.traits # {}
     \/ {"production", "short"} \cap t.traits # {} /\ "target" \notin t.traits

Readiness(t) ==
  IF Blocking(t) THEN "blocked"
  ELSE IF Escalating(t) THEN "needs_clarification"
  ELSE "ready"

-----------------------------------------------------------------------------
(* The specification of the task *)

MaxAreas == 20

\* Paths named in the task, then those in the instruction files of the
\* repository; secret-like ones are left out and the list is cut.
AreaCount(t, p) == Min({MaxAreas, Cardinality({f \in t.paths \cup p.paths : ~SecretLike(f)})})

\* Commands the task lists win over those the build files stand for.
TestCommands(t, p) == IF t.commands # {} THEN t.commands ELSE p.commands

\* What is not known to be risky is low.
SpecRisk(t) == IF TaskRisk(t.traits, {}) \in {"high", "medium"} THEN TaskRisk(t.traits, {}) ELSE "low"

TaskSpec(t, p) ==
  [traits |-> t.traits, risk |-> SpecRisk(t), areas |-> AreaCount(t, p),
   commands |-> TestCommands(t, p), approval |-> SpecRisk(t) = "high"]

-----------------------------------------------------------------------------
(* Limits *)

Unset == 0

Clamp(n, floor, ceiling) == Max({floor, Min({ceiling, n})})

\* Rounds and seconds for a specification before they are clamped.
Base(spec, round) ==
  LET base == IF spec.risk = "low" /\ spec.areas <= 1 THEN <<1, 300>>
              ELSE IF spec.risk = "high" \/ spec.areas >= 4 THEN <<3, 900>>
              ELSE <<2, 600>>
  IN  [rounds |-> base[1], timeout |-> base[2] + 120 * (round - 1)]

\* The environment sets floors and ceilings.
DerivedLimits(spec, round, env) ==
  [rounds  |-> Clamp(Base(spec, round).rounds, env.floor.rounds, env.ceiling.rounds),
   timeout |-> Clamp(Base(spec, round).timeout, env.floor.timeout, env.ceiling.timeout)]

Overridden(value, derived) == IF value = Unset THEN derived ELSE value

\* A variable that is set wins. Its value is not clamped.
Limits(spec, round, env) ==
  [rounds  |-> Overridden(env.rounds, DerivedLimits(spec, round, env).rounds),
   timeout |-> Overridden(env.timeout, DerivedLimits(spec, round, env).timeout)]

Eligible(spec) == spec.risk = "low" /\ spec.areas <= 1

\* Express mode exports a limit of one round over whatever was set.
ExpressEnv(spec, env) ==
  IF env.express /\ Eligible(spec) THEN [env EXCEPT !.rounds = 1] ELSE env

\* The shell exports the timeout it is given, and finds it set the next time;
\* the limit of rounds stays a variable of the script.
Exported(env, limits) == [env EXCEPT !.timeout = limits.timeout]
=============================================================================
