---------------------------- MODULE Arbitration ----------------------------
(***************************************************************************)
(* The manager's decision rules: hoca/arbitration.py, hard_blockers.py,    *)
(* downgrade_rules.py, and the two decisions of hoca/round_loop.py.  They  *)
(* are pure functions of a review report and of the validation signals.    *)
(*                                                                         *)
(* A finding is what the rules read of it, its severity and its category;  *)
(* ids, texts and the order of the reasoning are left out.                 *)
(***************************************************************************)
EXTENDS Naturals

Severities == {"critical", "high", "medium", "low", "nit"}
Categories == {"correctness", "security", "test", "scope", "maintainability",
               "style", "tooling", "environment"}

\* The findings HocaReviewFinding.from_dict accepts.
Findings ==
  { f \in [severity : Severities, category : Categories] :
      /\ f.category = "security"    => f.severity \notin {"low", "nit"}
      /\ f.category = "correctness" => f.severity # "nit" }

Verdicts == {"LGTM", "fix_required", "blocked"}

-----------------------------------------------------------------------------
(* One finding.                                                            *)

HardBlocker(f) ==
  \/ f.severity = "critical"
  \/ f.category = "security" /\ f.severity = "high"

CanDowngrade(f) ==
  /\ f.severity \in {"low", "nit"}
  /\ f.category # "security"

RequiresRepair(f) ==
  \/ HardBlocker(f)
  \/ f.severity = "high" /\ f.category \in {"correctness", "security"}
  \/ f.severity = "medium"

\* What classify_finding accepts for repair.  No caller passes explicitly_impossible.
Material(findings) == { f \in findings : ~CanDowngrade(f) /\ RequiresRepair(f) }

-----------------------------------------------------------------------------
(* The validation signals: the recorded test outcome, whether the secret   *)
(* check is clean, and why the monitor says the worker stopped.            *)

AbsoluteBlockers == {"secret_file_change", "secret_access_attempt",
                     "unsafe_filesystem_access"}

StopBlockers(stop) ==
  CASE stop = "secret_access" -> {"secret_access_attempt"}
    [] stop \in {"unrelated_directory", "dangerous_command"} -> {"unsafe_filesystem_access"}
    [] OTHER -> {}

\* The hard_blockers that build_validation_status_from_run_dir records.
RecordedBlockers(v) ==
  StopBlockers(v.stop) \cup (IF v.secretClean THEN {} ELSE {"secret_file_change"})

\* collect_validation_hard_blockers: every stop but "completed" is unclean.
Blockers(v) ==
     RecordedBlockers(v)
  \cup (IF v.stop = "completed" THEN {} ELSE {"unsafe_filesystem_access"})
  \cup (IF v.testsPassed THEN {} ELSE {"test_failure"})

\* Mutant: an approval outweighs every stop of the monitor.
StopsForgiven(review, v) ==
  IF review.verdict = "LGTM" /\ v.testsPassed /\ v.secretClean THEN {} ELSE Blockers(v)

\* The blockers _validation_blockers_for_arbitration leaves.  An approved and
\* validated change is not held back by a dangerous_command stop.
BlockersFor(review, v) ==
  IF /\ review.verdict = "LGTM"
     /\ v.testsPassed
     /\ v.secretClean
     /\ v.stop = "dangerous_command"
  THEN {} ELSE Blockers(v)

-----------------------------------------------------------------------------
(* The decision.  FinalRound goes by the round the REPORT states.          *)

FinalRound(review, max) == review.round >= max

MustBlock(review, v, max) ==
  \/ review.verdict = "blocked"
  \/ BlockersFor(review, v) \cap AbsoluteBlockers # {}
  \/ /\ FinalRound(review, max)
     /\ \/ BlockersFor(review, v) # {}
        \/ \E f \in Material(review.findings) : f.severity \in {"critical", "high"}

MustRepair(review, v, max) ==
  /\ ~FinalRound(review, max)
  /\ \/ BlockersFor(review, v) # {}
     \/ Material(review.findings) # {}

\* Mutant: residual findings of the last round do not make the request a draft.
NoDrafts(review, v, max) ==
  IF MustBlock(review, v, max) THEN "blocked"
  ELSE IF MustRepair(review, v, max) THEN "repair_required"
  ELSE "proceed_to_pr"

Arbitrate(review, v, max) ==
  IF MustBlock(review, v, max) THEN "blocked"
  ELSE IF MustRepair(review, v, max) THEN "repair_required"
  ELSE IF Material(review.findings) # {} THEN "draft_pr_with_blockers"
  ELSE "proceed_to_pr"

-----------------------------------------------------------------------------
(* The loop's next action.                                                 *)

\* A failing test run; type is the failure type its summary names.
AfterValidation(round, max, v, type) ==
  IF v.testsPassed /\ RecordedBlockers(v) = {} THEN "review"
  ELSE IF \/ type \in {"environment", "pre-existing"}
          \/ Blockers(v) \cap AbsoluteBlockers # {}
          \/ round >= max
  THEN "block" ELSE "repair"

\* The status with which a blocked test failure ends: its reason decides.
AfterValidationStatus(v, type) ==
  IF \/ type \in {"environment", "pre-existing"}
     \/ Blockers(v) \cap AbsoluteBlockers # {}
  THEN "blocked" ELSE "failed"

AfterArbitration(decision, round, max) ==
  IF decision \in {"proceed_to_pr", "draft_pr_with_blockers"} THEN "proceed"
  ELSE IF decision = "blocked" \/ round >= max THEN "block"
  ELSE "repair"
=============================================================================
