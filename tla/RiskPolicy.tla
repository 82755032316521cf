----------------------------- MODULE RiskPolicy -----------------------------
(***************************************************************************)
(* What changed files and the words of a task mean for risk: hoca/risk.py, *)
(* the scope check of hoca/validation_assessment.py, the secret names of   *)
(* hoca/security.py and the shell patterns of auto-merge-guards.sh. A file *)
(* is the set of kinds the patterns put its path in, a task the traits     *)
(* they find in its text.                                                  *)
(***************************************************************************)
EXTENDS Naturals, FiniteSets

\* What a pattern can say of a path. "domain" is authentication, payment,
\* cryptography, permissions, migrations and destruction, "deploy" deployment
\* and infrastructure directories, as risk.py and auto-merge-guards.sh both know
\* them. Their patterns differ: a "risk pattern" is known to risk.py alone, such
\* as permissions/ at the root or a Dockerfile in a directory, a "gate pattern"
\* to the gate alone, such as requirements-test.txt. "in area" is a path in an
\* expected area of the task or one that shares a word with its goal.
Kinds == {"infrastructure", "migration", "generated", "lockfile", "dependency", "domain",
          "deploy", "risk pattern", "gate pattern", "doc", "test", "example", "secret", "in area"}

FileType == [name : STRING, kinds : SUBSET Kinds]

Levels == {"high", "medium", "unknown", "low"}

\* A justification file names paths and may mention a broad rewrite.
Justification == [files : SUBSET FileType, broad : BOOLEAN]

Is(f, ks) == f.kinds \cap ks # {}

SecretLike(f) == Is(f, {"secret"})
Source(f) == ~Is(f, {"doc", "test", "example"})
HighRisk(f) == Is(f, {"dependency", "domain", "deploy", "risk pattern"})

-----------------------------------------------------------------------------
(* Levels *)

\* Mutant: a list is low when none of its paths is worse.
PathRiskOfWorst(files) ==
  IF \E f \in files : HighRisk(f) THEN "high"
  ELSE IF \E f \in files : Source(f) THEN "medium"
  ELSE "low"

PathRisk(files) ==
  IF files = {} THEN "unknown"
  ELSE IF \E f \in files : HighRisk(f) THEN "high"
  ELSE IF \E f \in files : Source(f) THEN "medium"
  ELSE "low"

\* The words of a task are high risk or say nothing.
TextRisk(traits) == IF "high-risk word" \in traits THEN "high" ELSE "unknown"

Priority == [high |-> 3, medium |-> 2, unknown |-> 1, low |-> 0]

\* "unknown" never overrides what the other side knows.
Combined(text, path) ==
  IF text = "unknown" THEN path
  ELSE IF path = "unknown" \/ Priority[text] >= Priority[path] THEN text
  ELSE path

TaskRisk(traits, files) ==
  IF "empty" \in traits /\ files = {} THEN "unknown"
  ELSE Combined(TextRisk(traits), PathRisk(files))

-----------------------------------------------------------------------------
(* Categories and their justification *)

Categories == {"infrastructure", "migration", "generated", "lockfile"}
PathCategories(f) == f.kinds \cap Categories

BroadFiles == 8

BroadRewrite(traits, files, longDiff) ==
  \/ "rewrite" \in traits
  \/ Cardinality({f \in files : Source(f)}) >= BroadFiles
  \/ longDiff

\* The paths that need an entry in the justification file, and whether the
\* task needs one although it names no path.
Unjustified(traits, files, longDiff, just) ==
  {f \in files \ just.files :
     \/ PathCategories(f) # {}
     \/ BroadRewrite(traits, files, longDiff) /\ ~just.broad /\ Source(f)}

RequiresJustification(traits, files, longDiff, just) ==
  \/ Unjustified(traits, files, longDiff, just) # {}
  \/ BroadRewrite(traits, files, longDiff) /\ ~just.broad

AutoMergeable(level, needed) == level = "low" /\ ~needed

-----------------------------------------------------------------------------
(* What the validation report says of the change *)

OutOfScope(traits, files, just, areas) ==
  {f \in files \ just.files :
     IF areas = 0 /\ "no long word" \in traits THEN FALSE ELSE ~Is(f, {"in area"})}

StagingRisk(files, just) == {f \in files \ just.files : PathCategories(f) # {}}

\* record_validation_report: risk-level.txt, risk-notes.txt and the risks of
\* the report, for the task, the files and the diff the run directory lists.
Assessment(traits, change, just, areas, stop) ==
  [level   |-> TaskRisk(traits, change.files),
   auto    |-> AutoMergeable(TaskRisk(traits, change.files),
                 RequiresJustification(traits, change.files, change.long, just)),
   scope   |-> OutOfScope(traits, change.files, just, areas) # {} \/ stop = "scope_violation",
   staging |-> StagingRisk(change.files, just) # {}]

-----------------------------------------------------------------------------
(* The gate before auto-merge *)

GuardedPath(f) == Is(f, {"dependency", "domain", "gate pattern"})
InfrastructurePath(f) == Is(f, {"infrastructure", "deploy"})

\* A staged path the gate refuses.
Refused(f, just) ==
  SecretLike(f) \/ GuardedPath(f) \/ (InfrastructurePath(f) /\ f \notin just.files)

\* auto-merge-guards.sh precheck: tests and review are good, the recorded level
\* is low and no staged path is refused.
Precheck(ok, level, staged, just) ==
  /\ ok /\ level = "low"
  /\ staged # {} /\ \A f \in staged : ~Refused(f, just)
=============================================================================
