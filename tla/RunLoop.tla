------------------------------ MODULE RunLoop ------------------------------
(***************************************************************************)
(* One HOCA run, from the first worker attempt to the pull request:        *)
(* scripts/run-hoca-task.sh with the worker and reviewer runners, the      *)
(* manager's arbitration and the publishing scripts it calls.              *)
(*                                                                         *)
(* The work of a run is a set of items.  Item r stands for what the worker *)
(* attempt of round r changed; item TestFile is a tracked file the tests   *)
(* themselves rewrite.  An item is unstaged in the worktree (tree), staged *)
(* there (index) or in a commit of the worker on the task branch           *)
(* (commits); which of these the tests, the reviewer, the staging script   *)
(* and the branch each cover is what this module is about.                 *)
(***************************************************************************)
EXTENDS Arbitration

CONSTANTS
  MaxRounds,      \* max_total_rounds
  Runners,        \* who runs an attempt: OpenHands alone, under Hermes, or another CLI
  KeepRuntime,    \* TRUE: run directories survive (HOCA_KEEP_RUNTIME, fleet lanes)
  AutoStage,      \* values of AUTO_STAGE_REVIEWED_CHANGES in use
  SkipPR,         \* values of HOCA_SKIP_PR_CREATION in use
  Leaves,         \* how a first or retried attempt may leave its work
  RepairLeaves,   \* how the attempt of a repair round may leave its work
  Breaks,         \* whether an attempt may leave a Python syntax error
  Touches,        \* whether the tests may rewrite TestFile
  Stops,          \* stop reasons of the monitor
  Opinions,       \* verdict and findings a reviewer may report
  ExtraRounds,    \* rounds a report may state beside its own
  None

CONSTANT MaxRuns  \* bound: runs of the same task and run directory

Rounds == 1 .. MaxRounds
TestFile == 0
Items == {TestFile} \cup Rounds
WaysToLeave == {"nothing", "edit", "stage", "commit", "revert", "side"}

ASSUME RunAssumption ==
  /\ MaxRounds \in Nat \ {0} /\ MaxRuns \in Nat \ {0}
  /\ Runners \subseteq {"direct", "profile", "cli"} /\ KeepRuntime \in BOOLEAN
  /\ AutoStage \subseteq BOOLEAN /\ SkipPR \subseteq BOOLEAN
  /\ Breaks \subseteq BOOLEAN /\ Touches \subseteq BOOLEAN
  /\ Leaves \subseteq WaysToLeave /\ RepairLeaves \subseteq WaysToLeave
  /\ ExtraRounds \subseteq Nat \ {0}
  /\ Opinions \subseteq [verdict : Verdicts, findings : SUBSET Findings]
  /\ \A S \in SUBSET Items : S # None

VARIABLES
  pc, run, round,
  mode,       \* of the attempt to come: "first", "retry" (of a failed one), "repair"
  tree, index, commits,  \* the worktree and the task branch, as sets of items
  broken,     \* items with a syntax error
  onSide,     \* items that changed only TestFile, after the tests had listed it
  checkout,   \* items changed and not committed in the project checkout
  cached,     \* items staged there
  published,  \* items on the pushed branch, or None
  pr,         \* "none", "open" or "draft"
  \* the run directory
  attempts,   \* status in worker-attempt-<r>.json
  stop,       \* stop_reason of monitor-result.json
  testsExit,  \* tests-exit-code.txt
  secretSeen, \* secret-detected.txt exists
  listed,     \* TestFile is in validation-side-effect-files.txt
  reports,    \* review-report-<r>.json
  log,        \* the report found in the logs of the last reviewer, or None
  decision,   \* the manager decision of the round
  draftFlag,  \* draft-pr-with-blockers.flag exists
  intended,   \* intended-files.txt, or None
  stagedList, \* staged-files.txt
  status,     \* status of status.json
  final,      \* status of final-state.json
  tested      \* history: what the last test run covered, and its outcome

control == <<pc, run, round, mode>>
work    == <<tree, index, commits, broken, onSide>>
project == <<checkout, cached>>
release == <<published, pr>>
records == <<attempts, stop, testsExit, secretSeen, listed, reports, log,
             decision, draftFlag, intended, stagedList>>
vars    == <<control, work, project, release, records, status, final, tested>>

-----------------------------------------------------------------------------
NoAttempt == "none"
AttemptStatuses == {"completed", "blocked", "failed"}
Reports == [round : Nat, verdict : Verdicts, findings : SUBSET Findings,
            run : 1 .. MaxRuns, saw : SUBSET Items]

\* Items git_status_short_for_task leaves out: they are on a side effect path.
Hidden == IF listed THEN {TestFile} \cup onSide ELSE {}
Visible == (tree \cup index) \ Hidden

\* What review-with-openhands.sh shows: unstaged and untracked files only.
Shown == tree \ Hidden

\* worker-attempt-<r>.json with the highest number, also when it is an old one.
LatestAttempt ==
  LET written == { r \in Rounds : attempts[r] # NoAttempt }
  IN  attempts[CHOOSE r \in written : \A s \in written : s <= r]

\* Mutant: the exit code of the tests is not read.
ExitCodeIgnored(exit) ==
  [testsPassed |-> TRUE, secretClean |-> ~secretSeen, stop |-> stop]

\* build_validation_status_from_run_dir: a missing exit code counts as passed.
Validation(exit) ==
  [testsPassed |-> exit # "fail", secretClean |-> ~secretSeen, stop |-> stop]

MapStatusToFinal(s) ==
  CASE s = "pr_created" -> "pr_opened"
    [] s \in {"blocked", "failed"} -> s
    [] s = "needs_human_staging" -> "draft_pr_opened"
    [] OTHER -> "completed"

\* The script exits with status s; cleanup records the final state.
End(s) ==
  /\ pc' = "ended"
  /\ status' = s
  /\ final' = MapStatusToFinal(s)
  /\ UNCHANGED <<run, round, mode>>

Goto(label, s) ==
  /\ pc' = label
  /\ status' = s
  /\ UNCHANGED <<run, round, mode, final>>

\* The script goes on to its publishing half and records a final state already.
GotoRecorded(label, s) ==
  /\ pc' = label
  /\ status' = s
  /\ final' = MapStatusToFinal(s)
  /\ UNCHANGED <<run, round, mode>>

\* Mutant: the repair does not count its round.
SameRound(m) ==
  /\ pc' = "worker"
  /\ mode' = m
  /\ status' = "repairing"
  /\ UNCHANGED <<run, round, final>>

\* apply_round_loop_repair and repair_failed_worker_attempt: one more round.
NextRound(m) ==
  /\ pc' = "worker"
  /\ round' = round + 1
  /\ mode' = m
  /\ status' = "repairing"
  /\ UNCHANGED <<run, final>>

-----------------------------------------------------------------------------
(* The start of a run.                                                     *)

Init ==
  /\ pc = "worker" /\ run = 1 /\ round = 1 /\ mode = "first"
  /\ tree = {} /\ index = {} /\ commits = {} /\ broken = {} /\ onSide = {}
  /\ checkout = {} /\ cached = {}
  /\ published = None /\ pr = "none"
  /\ attempts = [r \in Rounds |-> NoAttempt]
  /\ stop = "completed" /\ testsExit = "none" /\ secretSeen = FALSE
  /\ listed = FALSE /\ reports = [r \in Rounds |-> None] /\ log = None
  /\ decision = "none" /\ draftFlag = FALSE /\ intended = None
  /\ stagedList = {} /\ status = "started" /\ final = "none"
  /\ tested = [items |-> {}, outcome |-> "none"]

\* The same task again, on a new branch and in a new worktree.  The run
\* directory is that of the run before when it was kept.  A dirty project
\* checkout stops the script before it touches anything.
Rerun ==
  /\ pc = "ended" /\ checkout = {} /\ run < MaxRuns
  /\ pc' = "worker" /\ run' = run + 1 /\ round' = 1 /\ mode' = "first"
  /\ tree' = {} /\ index' = {} /\ commits' = {} /\ broken' = {} /\ onSide' = {}
  /\ published' = None /\ pr' = "none"
  /\ status' = "started"
  /\ tested' = [items |-> {}, outcome |-> "none"]
  /\ IF KeepRuntime THEN UNCHANGED <<records, final>>
     ELSE /\ attempts' = [r \in Rounds |-> NoAttempt]
          /\ stop' = "completed" /\ testsExit' = "none" /\ secretSeen' = FALSE
          /\ listed' = FALSE /\ reports' = [r \in Rounds |-> None] /\ log' = None
          /\ decision' = "none" /\ draftFlag' = FALSE /\ intended' = None
          /\ stagedList' = {} /\ final' = "none"
  /\ UNCHANGED project

\* A person clears the project checkout (external).
HumanCleans ==
  /\ pc = "ended" /\ checkout # {}
  /\ checkout' = {} /\ cached' = {}
  /\ UNCHANGED <<control, work, release, records, status, final, tested>>

-----------------------------------------------------------------------------
(* A worker attempt.                                                       *)

\* How the worker process leaves its work, as <<tree, index, commits>>.
LeftBy(how) ==
  LET now == tree \cup {round}
  IN  CASE how = "nothing" -> { <<tree, index, commits>> }
        [] how = "revert"  -> { <<{}, index, commits>> }
        [] how \in {"edit", "side"} -> { <<now, index, commits>> }
        [] how = "stage"   -> { <<now \ S, index \cup S, commits>> : S \in SUBSET now }
        [] how = "commit"  -> { <<now \ S, {}, commits \cup index \cup S>> : S \in SUBSET now }

\* Mutant: the worker's commits are left where they are.
KeptCommitted(left) == left

\* restore_worker_commits_to_worktree: git reset --mixed to the base.
Restored(left) ==
  IF left[3] = {} THEN left ELSE <<left[1] \cup left[2] \cup left[3], {}, {}>>

\* The statuses the runner may infer from the monitor, the exit code and, in
\* profile mode, the worker's output.
Inferred(runner, s, exitOk, changed) ==
  IF runner = "direct" /\ ~exitOk /\ s = "stall" /\ changed THEN {"completed"}
  ELSE IF s # "completed" THEN {"blocked"}
  ELSE IF ~exitOk THEN {"failed"}
  ELSE IF runner = "profile" THEN AttemptStatuses ELSE {"completed"}

\* _ensure_worker_attempt_report: a report that is there is kept, unless it
\* claims to have completed what did not.
Stored(before, inferred) ==
  IF before = NoAttempt \/ (before = "completed" /\ inferred # "completed")
  THEN inferred ELSE before

\* The report an attempt leaves. Claude Code and Codex have theirs written over.
Recorded(runner, own, inferred) == IF runner = "cli" THEN inferred ELSE Stored(own, inferred)

\* How the process of an attempt ends: the monitor's stop reason, its exit, and
\* whether a secret-like file or a syntax error was left behind.
Ends == [stop : Stops, exitOk : BOOLEAN, secret : BOOLEAN, breaks : Breaks, runner : Runners]

\* In direct mode the monitored command is the attempt, and its stop the exit.
DirectEnds == { e \in Ends : e.runner = "direct" /\ (e.exitOk => e.stop = "completed") }

\* In profile mode Hermes starts the monitored command, perhaps several times,
\* and has a time limit and an exit code of its own.
ProfileEnds == { e \in Ends : e.runner = "profile" }

\* Claude Code and Codex are monitored by the runner itself, which turns the
\* exit code of a stopped one into a failure.
CliEnds == { e \in Ends : e.runner = "cli" /\ (e.exitOk => e.stop = "completed") }

AttemptEnds == DirectEnds \cup ProfileEnds \cup CliEnds

\* run_openhands_phase, restore_worker_commits_to_worktree and
\* check_openhands_changed_files; own is the attempt report the worker leaves.
AfterAttempt(how, left, own, e) ==
  LET changed  == left[1] \cup left[2] # {}
      salvaged == e.runner = "direct" /\ ~e.exitOk /\ e.stop = "stall" /\ changed
      kept     == IF mode = "repair" THEN left ELSE Restored(left)
      fresh    == IF how \in {"nothing", "revert"} THEN {} ELSE {round}
  IN
  /\ how = "side" => listed
  /\ e.breaks => fresh # {} /\ how # "side"
  /\ broken' = IF e.breaks THEN broken \cup fresh ELSE broken
  /\ onSide' = IF how = "side" THEN onSide \cup fresh ELSE onSide
  /\ stop' = e.stop
  /\ \E inferred \in Inferred(e.runner, e.stop, e.exitOk, changed) :
       attempts' = [attempts EXCEPT ![round] = Recorded(e.runner, own, inferred)]
  /\ IF ~e.exitOk /\ ~salvaged
     THEN \* the phase stops the run before the work is looked at
          /\ tree' = left[1] /\ index' = left[2] /\ commits' = left[3]
          /\ UNCHANGED secretSeen
          /\ End(IF e.stop = "completed" THEN "failed" ELSE "blocked")
     ELSE /\ tree' = kept[1] /\ index' = kept[2] /\ commits' = kept[3]
          /\ e.secret => how # "side" /\ (kept[1] \cup kept[2]) \cap fresh # {}
          /\ secretSeen' = (secretSeen \/ e.secret)
          /\ IF e.secret THEN End("failed")
             ELSE Goto(IF mode = "retry" THEN "changes" ELSE "top", status)

WorkerAttempt ==
  /\ pc = "worker"
  /\ \E how \in (IF mode = "repair" THEN RepairLeaves ELSE Leaves), e \in AttemptEnds,
        own \in {attempts[round]} \cup AttemptStatuses :
       \E left \in LeftBy(how) : AfterAttempt(how, left, own, e)
  /\ UNCHANGED <<project, release, tested, testsExit, listed, reports, log,
                 decision, draftFlag, intended, stagedList>>

\* Mutant: the round cap is compared with <=.
CapOffByOne ==
  /\ pc = "top"
  /\ \/ LatestAttempt = "blocked" /\ End("blocked")
     \/ LatestAttempt = "failed" /\ round <= MaxRounds /\ NextRound("retry")
     \/ LatestAttempt \notin {"blocked", "failed"} /\ Goto("changes", status)
  /\ UNCHANGED <<work, project, release, records, tested>>

\* stop_if_worker_attempt_blocked, at the top of the loop.
CheckAttempt ==
  /\ pc = "top"
  /\ \/ LatestAttempt = "blocked" /\ End("blocked")
     \/ LatestAttempt = "failed" /\ round < MaxRounds /\ NextRound("retry")
     \/ LatestAttempt = "failed" /\ round >= MaxRounds /\ End("failed")
     \/ LatestAttempt \notin {"blocked", "failed"} /\ Goto("changes", status)
  /\ UNCHANGED <<work, project, release, records, tested>>

CheckChanges ==
  /\ pc = "changes"
  /\ \/ Visible # {} /\ Goto("tests", status)
     \/ Visible = {} /\ End("no_changes")
     \/ \* worker_report_mismatch: the report names files git does not
        Visible = {} /\ LatestAttempt = "completed" /\ End("failed")
  /\ UNCHANGED <<work, project, release, records, tested>>

-----------------------------------------------------------------------------
(* Validation and review.                                                  *)

\* run-tests.sh over the whole worktree.  A script that dies leaves the exit
\* code file of the run before.  A failing command is recorded by the ERR trap.
RunTests ==
  /\ pc = "tests"
  /\ \E outcome \in {"pass", "fail", "died"}, touch \in Touches,
        type \in {"current-task", "environment"} :
       LET exit  == IF outcome = "died" THEN testsExit ELSE outcome
           v     == Validation(exit)
           after == AfterValidation(round, MaxRounds, v, type)
       IN
       /\ testsExit' = exit
       /\ tree' = IF touch THEN tree \cup {TestFile} ELSE tree
       /\ listed' = (listed \/ (touch /\ TestFile \notin tree \cup index))
       /\ tested' = [items |-> tree' \cup index \cup commits, outcome |-> outcome]
       /\ \/ outcome = "pass" /\ Goto("review", status)
          \/ outcome # "pass" /\ after = "review" /\ Goto("review", "failed")
          \/ outcome # "pass" /\ after = "repair" /\ NextRound("repair")
          \/ outcome # "pass" /\ after = "block" /\ End(AfterValidationStatus(v, type))
  /\ UNCHANGED <<index, commits, broken, onSide, project, release, attempts, stop,
                 secretSeen, reports, log, decision, draftFlag, intended, stagedList>>

\* apply_review_sanity_checks, in the review script's own gate.
SanityChecked(report) ==
  IF report.verdict = "LGTM" /\ broken \cap Shown # {}
  THEN [report EXCEPT !.verdict = "fix_required",
                      !.findings = @ \cup {[severity |-> "high", category |-> "correctness"]}]
  ELSE report

BlockedReport ==
  [round |-> round, verdict |-> "blocked", run |-> run, saw |-> {},
   findings |-> {[severity |-> "high", category |-> "environment"]}]

\* The reviewer writes its report.  The runner stops the review script as soon
\* as it sees the file, so the script's gate may not be reached (gateRan).
ReviewWritten ==
  /\ Shown # {}
  /\ \E opinion \in Opinions, stated \in {round} \cup ExtraRounds, gateRan \in BOOLEAN :
       LET report == [round |-> stated, verdict |-> opinion.verdict,
                      findings |-> opinion.findings, run |-> run, saw |-> Shown]
       IN /\ reports' = [reports EXCEPT ![round] =
                           IF gateRan THEN SanityChecked(report) ELSE report]
          /\ log' \in {log, report}

\* It ends without one and without a report in its output.
ReviewSilent ==
  /\ Shown # {}
  /\ reports' = [reports EXCEPT ![round] = BlockedReport]
  /\ log' = None

\* It is cut off by the timeout, or there is nothing to show it: the logs still
\* hold what an earlier reviewer wrote, and the report is recovered from there.
ReviewRecovered ==
  /\ reports' = [reports EXCEPT ![round] = IF log = None THEN BlockedReport ELSE log]
  /\ UNCHANGED log

\* The runner itself fails.
ReviewRaises == UNCHANGED <<reports, log>>

Review ==
  /\ pc = "review"
  /\ IF reports[round] # None
     THEN UNCHANGED <<reports, log>>   \* an old report is there: taken at once
     ELSE ReviewWritten \/ ReviewSilent \/ ReviewRecovered \/ ReviewRaises
  /\ LET approved == reports'[round] # None /\ reports'[round].verdict = "LGTM"
     IN  Goto("arbitrate", IF approved THEN status ELSE "failed")
  /\ UNCHANGED <<work, project, release, tested, attempts, stop, testsExit, secretSeen,
                 listed, decision, draftFlag, intended, stagedList>>

\* resolve_after_arbitration.
ArbitrateRound ==
  /\ pc = "arbitrate"
  /\ IF reports[round] = None
     THEN End("blocked") /\ UNCHANGED <<decision, draftFlag>>
     ELSE LET d == Arbitrate(reports[round], Validation(testsExit), MaxRounds)
              after == AfterArbitration(d, round, MaxRounds)
          IN /\ decision' = d
             /\ draftFlag' = (draftFlag \/ d = "draft_pr_with_blockers")
             /\ \/ after = "proceed" /\ Goto("apply", status)
                \/ after = "block" /\ End("blocked")
                \/ after = "repair" /\ NextRound("repair")
  /\ UNCHANGED <<work, project, release, tested, attempts, stop, testsExit, secretSeen,
                 listed, reports, log, intended, stagedList>>

-----------------------------------------------------------------------------
(* From the worktree to the pull request.                                  *)

\* Mutant: git diff HEAD, with what the worker has staged.
PatchWithIndex == tree \cup index

\* git diff in the worktree: the unstaged changes, those of the tests included.
Patch == tree

\* The patch goes to the project checkout and the worktree is removed; what the
\* worker had staged there is lost.
ApplyWorktree ==
  /\ pc = "apply"
  /\ checkout' = Patch /\ tree' = {} /\ index' = {}
  /\ \E auto \in AutoStage :
       /\ intended' = IF intended = None /\ auto THEN Visible ELSE intended
       /\ IF intended' = None THEN GotoRecorded("commit", "needs_human_staging")
                              ELSE Goto("stage", status)
  /\ UNCHANGED <<commits, broken, onSide, cached, release, tested, attempts, stop,
                 testsExit, secretSeen, listed, reports, log, decision, draftFlag, stagedList>>

\* A file both staged and edited again: its patch does not fit the branch.
ApplyFails ==
  /\ pc = "apply" /\ index # {}
  /\ tree' = {} /\ index' = {}
  /\ End("failed")
  /\ UNCHANGED <<commits, broken, onSide, project, release, records, tested>>

\* safe-stage-after-review.sh.  Its file policy may refuse any list, before or
\* after the files are in the index.
Stage ==
  /\ pc = "stage"
  /\ LET changed  == checkout \ Hidden
         approved == reports[round].verdict = "LGTM"
     IN \/ /\ approved /\ intended # {} /\ changed = {}
           /\ GotoRecorded("commit", "staged")
           /\ UNCHANGED <<cached, stagedList>>
        \/ /\ approved /\ intended = changed /\ changed # {} /\ cached = {}
           /\ cached' = changed /\ stagedList' = changed
           /\ GotoRecorded("commit", "staged")
        \/ /\ End("needs_human_staging")
           /\ cached' \in {cached} \cup (IF approved /\ intended = changed THEN {changed} ELSE {})
           /\ UNCHANGED stagedList
  /\ UNCHANGED <<work, checkout, release, tested, attempts, stop, testsExit, secretSeen,
                 listed, reports, log, decision, draftFlag, intended>>

\* commit-after-staging.sh, when there is a staged list; git may refuse.
Commit ==
  /\ pc = "commit"
  /\ \/ /\ stagedList = {} /\ End(status)
        /\ UNCHANGED <<commits, checkout, cached>>
     \/ /\ stagedList # {} /\ End("failed")
        /\ UNCHANGED <<commits, checkout, cached>>
     \/ /\ stagedList # {} /\ cached = stagedList
        /\ commits' = commits \cup cached
        /\ checkout' = checkout \ cached
        /\ cached' = {}
        /\ \E skip \in SkipPR : IF skip THEN End("completed") ELSE Goto("push", "committed")
  /\ UNCHANGED <<tree, index, broken, onSide, release, records, tested>>

\* create-pr.sh: prechecks and git push.
Push ==
  /\ pc = "push"
  /\ \/ End("failed") /\ UNCHANGED published
     \/ Goto("pr", status) /\ published' = commits
  /\ UNCHANGED <<work, project, pr, records, tested>>

\* Mutant: the outcome of gh pr create is not looked at.
FailureUnnoticed ==
  /\ pc = "pr"
  /\ Goto("record", status)
  /\ pr' \in {pr, IF draftFlag THEN "draft" ELSE "open"}
  /\ UNCHANGED <<work, project, published, records, tested>>

\* gh pr create.
CreatePR ==
  /\ pc = "pr"
  /\ \/ End("failed") /\ UNCHANGED pr
     \/ Goto("record", status) /\ pr' = IF draftFlag THEN "draft" ELSE "open"
  /\ UNCHANGED <<work, project, published, records, tested>>

\* The URL is parsed and the status written.
RecordPR ==
  /\ pc = "record"
  /\ End("pr_created") \/ End("failed")
  /\ UNCHANGED <<work, project, release, records, tested>>

-----------------------------------------------------------------------------
\* INT, TERM or HUP: cleanup runs, the status stays what it was.
Interrupt ==
  /\ pc # "ended"
  /\ End(status)
  /\ UNCHANGED <<work, project, release, records, tested>>

Step ==
  \/ WorkerAttempt \/ CheckAttempt \/ CheckChanges
  \/ RunTests \/ Review \/ ArbitrateRound
  \/ ApplyWorktree \/ ApplyFails \/ Stage \/ Commit
  \/ Push \/ CreatePR \/ RecordPR

Next == Step \/ Interrupt \/ HumanCleans \/ Rerun

Spec == Init /\ [][Next]_vars

\* Every process the script waits for ends: the monitor bounds the worker, a
\* deadline the reviewer, and the project's tests are assumed to end.
FairSpec == Spec /\ WF_vars(Step)
-----------------------------------------------------------------------------
(* Properties.                                                             *)

ControlTypes ==
  /\ pc \in {"worker", "top", "changes", "tests", "review", "arbitrate", "apply",
            "stage", "commit", "push", "pr", "record", "ended"}
  /\ run \in 1 .. MaxRuns /\ round \in Rounds /\ mode \in {"first", "retry", "repair"}
  /\ status \in {"started", "repairing", "failed", "blocked", "no_changes", "staged",
                "needs_human_staging", "committed", "completed", "pr_created"}
  /\ final \in {"none", "completed", "failed", "blocked", "draft_pr_opened", "pr_opened"}

WorkTypes ==
  /\ tree \subseteq Items /\ index \subseteq Items /\ commits \subseteq Items
  /\ broken \subseteq Rounds /\ onSide \subseteq Rounds
  /\ checkout \subseteq Items /\ cached \subseteq Items
  /\ published \in (SUBSET Items) \cup {None} /\ pr \in {"none", "open", "draft"}
  /\ tested \in [items : SUBSET Items, outcome : {"none", "pass", "fail", "died"}]

WorkerRecordTypes ==
  /\ attempts \in [Rounds -> AttemptStatuses \cup {NoAttempt}]
  /\ stop \in Stops \cup {"completed"} /\ testsExit \in {"none", "pass", "fail"}
  /\ secretSeen \in BOOLEAN /\ listed \in BOOLEAN

ReviewRecordTypes ==
  /\ reports \in [Rounds -> Reports \cup {None}] /\ log \in Reports \cup {None}
  /\ decision \in {"none", "blocked", "repair_required", "draft_pr_with_blockers",
                  "proceed_to_pr"}
  /\ draftFlag \in BOOLEAN
  /\ intended \in (SUBSET Items) \cup {None} /\ stagedList \subseteq Items

\* Every variable has its type; a round is never beyond the cap.
TypeOK == ControlTypes /\ WorkTypes /\ WorkerRecordTypes /\ ReviewRecordTypes

\* The manager has committed the work, or it is on the remote.
Delivered == published # None \/ status \in {"committed", "completed", "pr_created"}

\* Everything on a delivered branch was shown to a reviewer of THIS run whose
\* report for the round says LGTM.  Worker commits, staged files, recovered
\* reports and side effects of the tests each threaten it.
DeliveredWasReviewed ==
  Delivered =>
    /\ reports[round] # None
    /\ reports[round].verdict = "LGTM"
    /\ reports[round].run = run
    /\ commits \subseteq reports[round].saw

\* The last test run covered a delivered branch, and nothing else but files on
\* side effect paths, and it did not fail.
DeliveredWasTested ==
  Delivered => /\ tested.outcome # "fail"
               /\ commits = tested.items \ Hidden

\* A pull request that is not a draft has no finding the rules accept for repair.
ResidueOnlyInDraft ==
  pr = "open" => reports[round] # None /\ Material(reports[round].findings) = {}

\* Work whose worker the monitor stopped is not delivered, but for the one stop
\* reason the arbitration lets an approved change pass with.
StoppedWorkStays == Delivered => stop \in {"completed", "dangerous_command"}

\* What the status and the final state say of the pull request is true: nothing
\* is on the remote under a status that denies it, and a reported pull request
\* exists.
HonestStatus ==
  /\ published # None => status \in {"committed", "failed", "pr_created"}
  /\ status = "pr_created" => published # None /\ pr # "none"
  /\ final = "pr_opened" => pr # "none"

\* A run ends, whatever its workers, tests and reviewers do.
RunsEnd == (pc # "ended") ~> (pc = "ended")

\* The run implements ApprovedRelease: an approval is the manager's decision to
\* go on to the pull request, and what it approves is what the report's reviewer saw.
Approval ==
  IF published # None \/ pc \in {"apply", "stage", "commit", "push"}
  THEN reports[round].saw ELSE None

AR == INSTANCE ApprovedRelease WITH
        work     <- IF Approval = None THEN tree \cup index \cup commits ELSE tested.items,
        approved <- Approval,
        released <- published

ReleasesWhatWasApproved == AR!Spec
=============================================================================
