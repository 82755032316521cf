-------------------------- MODULE RunReleaseProofs --------------------------
(***************************************************************************)
(* Theorems about what a run publishes: its status says the truth of it,   *)
(* it was tested, and it is what was approved (ApprovedRelease).           *)
(***************************************************************************)
EXTENDS RunLoopProofs

-----------------------------------------------------------------------------
(* The status and the remote.  The run directory is a fresh one: the final *)
(* state of an earlier run would otherwise stand until this one ends.      *)

\* What is on the remote at each step, and which statuses go with it.
StatusInv ==
  /\ pc \in Sending => status = "committed"
  /\ pc \notin {"pr", "record", "ended"} => published = None
  /\ pc \in {"pr", "record"} => published # None
  /\ published # None => status \in {"committed", "failed", "pr_created"}
  /\ pc = "record" => pr # "none"
  /\ status = "pr_created" => pc = "ended" /\ published # None /\ pr # "none"
  /\ final = "pr_opened" => pc = "ended" /\ status = "pr_created"

\* The final state claims a pull request for one status only.
LEMMA FinalClaims == \A s : MapStatusToFinal(s) = "pr_opened" => s = "pr_created"
  BY DEF MapStatusToFinal

\* Up to the push a step leaves the remote alone and claims nothing of it.
LEMMA StatusInvEarly ==
  ASSUME TypeOK, StatusInv,
         \/ WorkerAttempt \/ CheckAttempt \/ CheckChanges \/ RunTests \/ Review
         \/ ArbitrateRound \/ ApplyWorktree \/ ApplyFails \/ Stage
  PROVE  StatusInv'
<1> USE DEF StatusInv, Sending
<1>1. /\ pc \notin Sending \cup {"ended"} /\ pc' \notin Sending
      /\ UNCHANGED release
  BY DEF WorkerAttempt, AfterAttempt, CheckAttempt, CheckChanges, RunTests, Review,
         ArbitrateRound, ApplyWorktree, ApplyFails, Stage, End, Goto, GotoRecorded, NextRound
<1>2. \A v, type : AfterValidationStatus(v, type) \in {"blocked", "failed"}
  BY DEF AfterValidationStatus
<1>3. status' # "pr_created" /\ final' # "pr_opened"
  <2>1. \E s : /\ s # "pr_created" /\ status' = s
               /\ final' = final \/ final' = MapStatusToFinal(s)
    BY <1>1, <1>2
    DEF WorkerAttempt, AfterAttempt, CheckAttempt, CheckChanges, RunTests, Review,
        ArbitrateRound, ApplyWorktree, ApplyFails, Stage, End, Goto, GotoRecorded, NextRound
  <2> QED BY <1>1, <2>1, FinalClaims
<1> QED BY <1>1, <1>3 DEF release

\* The commit, the push and the pull request: each writes its status after the deed.
LEMMA StatusInvLate ==
  ASSUME TypeOK, StatusInv, Commit \/ Push \/ CreatePR \/ RecordPR \/ Interrupt
  PROVE  StatusInv'
<1> USE DEF StatusInv, Sending
<1>1. CASE Commit
  BY <1>1, FinalClaims DEF Commit, End, Goto, release
<1>2. CASE Push
  <2>1. commits # None
    BY RunAssumption DEF TypeOK, WorkTypes
  <2> QED BY <1>2, <2>1, FinalClaims DEF Push, End, Goto
<1>3. CASE CreatePR
  BY <1>3, FinalClaims DEF CreatePR, End, Goto
<1>4. CASE RecordPR
  BY <1>4, FinalClaims DEF RecordPR, End, Goto, release
<1>5. CASE Interrupt
  BY <1>5, FinalClaims DEF Interrupt, End, release
<1> QED BY <1>1, <1>2, <1>3, <1>4, <1>5

\* The next run starts with an empty remote and an empty run directory.
LEMMA StatusInvBetween ==
  ASSUME ~KeepRuntime, StatusInv, Rerun \/ HumanCleans \/ UNCHANGED vars
  PROVE  StatusInv'
<1> USE DEF StatusInv, Sending
<1>1. CASE Rerun BY <1>1 DEF Rerun
<1>2. CASE HumanCleans BY <1>2 DEF HumanCleans, control, release
<1>3. CASE UNCHANGED vars BY <1>3 DEF vars, control, release
<1> QED BY <1>1, <1>2, <1>3

\* From the start on, in any number of runs.
LEMMA StatusInvHolds ==
  ASSUME ~KeepRuntime
  PROVE  Spec => []StatusInv
<1>1. Init => StatusInv
  BY DEF Init, StatusInv, Sending
<1>2. TypeOK /\ StatusInv /\ [Next]_vars => StatusInv'
  BY StatusInvEarly, StatusInvLate, StatusInvBetween DEF Next, Step
<1> QED BY <1>1, <1>2, RunTypeCorrect, PTL DEF Spec

\* Nothing is on the remote under a status that denies it, and a pull request
\* the status or the final state reports exists.
THEOREM StatusIsHonest ==
  ASSUME ~KeepRuntime
  PROVE  Spec => []HonestStatus
<1>1. StatusInv => HonestStatus BY DEF StatusInv, HonestStatus
<1> QED BY <1>1, StatusInvHolds, PTL

-----------------------------------------------------------------------------
(* What is delivered was tested.  It holds in a fresh run directory when   *)
(* the repair rounds commit nothing: what they commit is never moved back  *)
(* to the worktree, and a side effect of the tests may be among it.        *)

FromScratch == ~KeepRuntime /\ "commit" \notin RepairLeaves

TestedOK == tested.outcome # "fail" /\ commits = tested.items \ Hidden

\* From the tests to the branch: the tests saw the whole work, the list of
\* intended files is made of it, the staged list is that list.
TestedInv ==
  /\ pc \in Before \cup Deciding \cup Placing => commits = {} /\ ~Delivered
  /\ pc \in Before \cup Deciding \cup {"apply"} => intended = None
  /\ pc \in Before \cup Deciding \cup {"apply", "stage"} => stagedList = {}
  /\ pc \in {"review", "arbitrate", "apply"} =>
       tested.outcome # "fail" /\ tested.items = tree \cup index
  /\ pc = "stage" => tested.outcome # "fail" /\ intended = tested.items \ Hidden
  /\ pc = "commit" /\ stagedList # {} =>
       tested.outcome # "fail" /\ stagedList = tested.items \ Hidden
  /\ pc \in Sending \/ Delivered => TestedOK

\* An attempt leaves the branch of the run empty, or ends the run.
LEMMA TestedInvWorker ==
  ASSUME FromScratch, TypeOK, TestedInv, WorkerAttempt
  PROVE  TestedInv'
<1> USE DEF TestedInv, Before, Deciding, Placing, Sending
<1>1. PICK how \in (IF mode = "repair" THEN RepairLeaves ELSE Leaves), e \in AttemptEnds,
           own \in {attempts[round]} \cup AttemptStatuses :
        \E left \in LeftBy(how) : AfterAttempt(how, left, own, e)
  BY DEF WorkerAttempt
<1>2. PICK left \in LeftBy(how) : AfterAttempt(how, left, own, e)
  BY <1>1
<1>3. how \in WaysToLeave /\ (mode = "repair" => how # "commit")
  BY RunAssumption DEF FromScratch
<1>4. /\ pc = "worker" /\ commits = {} /\ ~Delivered
      /\ UNCHANGED <<release, intended, stagedList>>
  BY DEF WorkerAttempt
<1>5. \/ pc' = "ended" /\ ~Delivered'
      \/ pc' \in {"top", "changes"} /\ commits' = {} /\ ~Delivered'
  <2> DEFINE kept == IF mode = "repair" THEN left ELSE Restored(left)
  <2>1. kept[3] = {}
    BY <1>3, <1>4, LeftCommits, LeftByItems, RestoredItems DEF TypeOK, ControlTypes, WorkTypes
  <2>2. \/ End("failed") \/ End("blocked")
        \/ commits' = kept[3] /\ (Goto("changes", status) \/ Goto("top", status))
    BY <1>2 DEF AfterAttempt
  <2> QED BY <1>4, <2>1, <2>2 DEF End, Goto, Delivered, release
<1> QED BY <1>4, <1>5

\* Checks, review and decision leave the work as the tests saw it.
LEMMA TestedInvBefore ==
  ASSUME TypeOK, TestedInv, CheckAttempt \/ CheckChanges \/ Review \/ ArbitrateRound
  PROVE  TestedInv'
<1> USE DEF TestedInv, Before, Deciding, Placing, Sending
<1>1. /\ pc \in Before \cup Deciding
      /\ UNCHANGED <<work, release, tested, intended, stagedList>>
      /\ \/ pc' \in {"worker", "changes", "tests", "ended"}
         \/ pc = "review" /\ pc' = "arbitrate"
         \/ pc = "arbitrate" /\ pc' = "apply"
      /\ status' \in {status, "repairing", "failed", "blocked", "no_changes"}
  BY DEF CheckAttempt, CheckChanges, Review, ArbitrateRound, End, Goto, NextRound, records
<1>2. commits' = {} /\ ~Delivered'
  BY <1>1 DEF Delivered, work, release
<1> QED BY <1>1, <1>2 DEF work

\* A review only follows tests that did not fail, over the work it will be shown.
LEMMA TestedInvTests ==
  ASSUME TypeOK, TestedInv, RunTests
  PROVE  TestedInv'
<1> USE DEF TestedInv, Before, Deciding, Placing, Sending
<1>1. \A v, type : AfterValidationStatus(v, type) \in {"blocked", "failed"}
  BY DEF AfterValidationStatus
<1>2. ASSUME NEW exit, NEW type,
             AfterValidation(round, MaxRounds, Validation(exit), type) = "review"
      PROVE  exit # "fail"
  BY <1>2 DEF AfterValidation, Validation
<1>3. /\ pc = "tests" /\ commits = {} /\ UNCHANGED <<commits, index, release, intended, stagedList>>
      /\ tested'.items = tree' \cup index
  BY DEF RunTests
<1>4. \/ pc' \in {"worker", "ended"} /\ status' \in {"repairing", "blocked", "failed"}
      \/ /\ pc' = "review" /\ status' \in {status, "failed"}
         /\ tested'.outcome # "fail"
  <2>1. PICK outcome \in {"pass", "fail", "died"}, type \in {"current-task", "environment"} :
          LET exit  == IF outcome = "died" THEN testsExit ELSE outcome
              v     == Validation(exit)
              after == AfterValidation(round, MaxRounds, v, type)
          IN  /\ tested'.outcome = outcome
              /\ \/ outcome = "pass" /\ Goto("review", status)
                 \/ outcome # "pass" /\ after = "review" /\ Goto("review", "failed")
                 \/ outcome # "pass" /\ after = "repair" /\ NextRound("repair")
                 \/ outcome # "pass" /\ after = "block" /\ End(AfterValidationStatus(v, type))
    BY DEF RunTests
  <2> QED BY <1>1, <1>2, <2>1 DEF Goto, NextRound, End
<1>5. ~Delivered'
  BY <1>3, <1>4 DEF Delivered, release
<1> QED BY <1>3, <1>4, <1>5

\* The list of intended files is all that is changed, so the staging gate lets
\* the patch pass only when nothing was lost with the worktree.
LEMMA TestedInvPlacing ==
  ASSUME TypeOK, TestedInv, ApplyWorktree \/ ApplyFails \/ Stage
  PROVE  TestedInv'
<1> USE DEF TestedInv, Before, Deciding, Placing, Sending
<1>1. /\ pc \in {"apply", "stage"} /\ commits = {} /\ ~Delivered /\ stagedList = {}
      /\ UNCHANGED <<commits, onSide, release, listed, tested>>
      /\ pc' \in {"stage", "commit", "ended"}
      /\ status' \in {status, "needs_human_staging", "failed", "staged"}
  BY DEF ApplyWorktree, ApplyFails, Stage, End, Goto, GotoRecorded, records, work
<1>2. ~Delivered' /\ Hidden' = Hidden
  BY <1>1 DEF Delivered, release, Hidden
<1>3. CASE ApplyWorktree
  <2>1. pc' = "stage" => intended' = Visible
    BY <1>3 DEF ApplyWorktree, Goto, GotoRecorded
  <2> QED BY <1>1, <1>2, <1>3, <2>1 DEF ApplyWorktree, Goto, GotoRecorded, Visible
<1>4. CASE ApplyFails
  BY <1>1, <1>2, <1>4 DEF ApplyFails, End
<1>5. CASE Stage
  BY <1>1, <1>2, <1>5 DEF Stage, End, GotoRecorded
<1> QED BY <1>3, <1>4, <1>5

\* The commit takes the staged list, and nothing was on the branch before.
LEMMA TestedInvCommit ==
  ASSUME TypeOK, TestedInv, Commit
  PROVE  TestedInv'
<1> USE DEF TestedInv, Before, Deciding, Placing, Sending
<1>1. /\ pc = "commit" /\ commits = {} /\ ~Delivered /\ pc' \in {"ended", "push"}
      /\ UNCHANGED <<onSide, release, records, tested>>
  BY DEF Commit, End, Goto
<1>2. \/ pc' = "ended" /\ ~Delivered'
      \/ stagedList # {} /\ commits' = stagedList
  BY <1>1 DEF Commit, End, Delivered, release
<1>3. Hidden' = Hidden
  BY <1>1 DEF Hidden, records
<1> QED BY <1>1, <1>2, <1>3 DEF TestedOK

\* Publishing, the end of a run and the next one.
LEMMA TestedInvOther ==
  ASSUME FromScratch, TypeOK, TestedInv,
         Push \/ CreatePR \/ RecordPR \/ Interrupt \/ HumanCleans \/ Rerun \/ UNCHANGED vars
  PROVE  TestedInv'
<1> USE DEF TestedInv, Before, Deciding, Placing, Sending
<1>1. CASE Push \/ CreatePR \/ RecordPR
  <2>1. pc \in Sending /\ pc' \in Sending \cup {"ended"} /\ UNCHANGED <<work, records, tested>>
    BY <1>1 DEF Push, CreatePR, RecordPR, End, Goto
  <2> QED BY <2>1 DEF TestedOK, Hidden, work, records
<1>2. CASE Interrupt \/ HumanCleans
  <2>1. pc' = "ended" /\ UNCHANGED <<work, records, release, tested, status>>
    BY <1>2 DEF Interrupt, HumanCleans, End, control
  <2> QED BY <2>1 DEF TestedOK, Hidden, work, records, release, Delivered
<1>3. CASE Rerun
  BY <1>3 DEF Rerun, FromScratch, Delivered
<1>4. CASE UNCHANGED vars
  BY <1>4 DEF vars, control, work, records, release, Delivered, TestedOK, Hidden
<1> QED BY <1>1, <1>2, <1>3, <1>4

\* From the start on, in any number of runs.
LEMMA TestedInvHolds ==
  ASSUME FromScratch
  PROVE  Spec => []TestedInv
<1>1. Init => TestedInv
  BY DEF Init, TestedInv, Before, Deciding, Placing, Sending, Delivered
<1>2. TypeOK /\ TestedInv /\ [Next]_vars => TestedInv'
  BY TestedInvWorker, TestedInvBefore, TestedInvTests, TestedInvPlacing, TestedInvCommit,
     TestedInvOther DEF Next, Step
<1> QED BY <1>1, <1>2, RunTypeCorrect, PTL DEF Spec

\* What is delivered is what the last test run covered, but for the files the
\* tests themselves rewrite, and that run did not fail: nothing is lost or added
\* between the worktree the tests saw and the branch.
THEOREM DeliveredTested ==
  ASSUME FromScratch
  PROVE  Spec => []DeliveredWasTested
<1>1. TestedInv => DeliveredWasTested BY DEF TestedInv, TestedOK, DeliveredWasTested
<1> QED BY <1>1, TestedInvHolds, PTL

-----------------------------------------------------------------------------
(* The run implements ApprovedRelease.  The reviewer's report has to cover *)
(* neither more nor less than what ends on the branch.                     *)

\* A report that may approve saw exactly what was shown; what was shown is
\* what is patched, staged, committed and pushed.
SawInv ==
  /\ pc \in Deciding =>
       \/ reports[round] = None
       \/ reports[round].verdict = "blocked"
       \/ AsksForRepair(reports[round])
       \/ reports[round].saw = Shown
  /\ pc = "apply" => reports[round].saw = Shown
  /\ pc = "stage" => reports[round].saw = checkout \ Hidden
  /\ pc = "commit" /\ stagedList # {} => reports[round].saw = stagedList
  /\ pc = "push" => reports[round].saw = commits

\* A fresh report saw what is shown; one recovered from the logs asks for a repair.
LEMMA SawInvReview ==
  ASSUME Tidy, TypeOK, ReviewInv, Review
  PROVE  SawInv'
<1>1. pc = "review" /\ pc' = "arbitrate" /\ round' = round /\ UNCHANGED <<work, listed>>
  BY DEF Review, Goto
<1>2. /\ reports[round] = None /\ round \in Rounds /\ broken = {}
      /\ log = None \/ AsksForRepair(log)
  BY <1>1, RoundsAreNat DEF ReviewInv, NothingStale, Before, TypeOK, ControlTypes
<1>3. reports \in [Rounds -> Reports \cup {None}]
  BY DEF TypeOK, ReviewRecordTypes
<1>4. Shown' = Shown
  BY <1>1 DEF Shown, Hidden, work
<1>5. \/ reports'[round] = None
      \/ reports'[round].verdict = "blocked"
      \/ AsksForRepair(reports'[round])
      \/ reports'[round].saw = Shown
  <2>1. CASE ReviewWritten
    <3>1. PICK opinion \in Opinions, stated \in {round} \cup ExtraRounds, gateRan \in BOOLEAN :
            LET report == [round |-> stated, verdict |-> opinion.verdict,
                           findings |-> opinion.findings, run |-> run, saw |-> Shown]
            IN reports' = [reports EXCEPT ![round] =
                             IF gateRan THEN SanityChecked(report) ELSE report]
      BY <2>1 DEF ReviewWritten
    <3> QED BY <1>2, <1>3, <3>1 DEF SanityChecked
  <2>2. CASE ReviewSilent
    BY <1>2, <1>3, <2>2 DEF ReviewSilent, BlockedReport
  <2>3. CASE ReviewRecovered
    BY <1>2, <1>3, <2>3 DEF ReviewRecovered, BlockedReport
  <2>4. CASE ReviewRaises
    BY <1>2, <2>4 DEF ReviewRaises
  <2> QED BY <1>2, <2>1, <2>2, <2>3, <2>4 DEF Review
<1> QED BY <1>1, <1>4, <1>5 DEF SawInv, Deciding, AsksForRepair

\* The decision passes no report that is blocked or asks for a repair.
LEMMA SawInvArbitrate ==
  ASSUME Tidy, TypeOK, ReviewInv, SawInv, ArbitrateRound
  PROVE  SawInv'
<1> DEFINE report == reports[round]
           v == Validation(testsExit)
           d == Arbitrate(report, v, MaxRounds)
<1>1. /\ pc = "arbitrate" /\ round \in Rounds
      /\ UNCHANGED <<work, listed, reports>>
  BY DEF ArbitrateRound, TypeOK, ControlTypes
<1>2. v.testsPassed /\ v.secretClean
  BY <1>1 DEF ReviewInv, Validated, Validation, Deciding
<1>3. report # None => report.round \in Nat
  BY <1>1 DEF TypeOK, ReviewRecordTypes, Reports
<1>4. report # None /\ d \in {"proceed_to_pr", "draft_pr_with_blockers"}
        => ~AsksForRepair(report) /\ report.verdict # "blocked"
  BY <1>2, <1>3, DecisionMeaning
<1>5. AfterArbitration(d, round, MaxRounds) = "proceed"
        => d \in {"proceed_to_pr", "draft_pr_with_blockers"}
  BY Decisions DEF AfterArbitration
<1> HIDE DEF d, v
<1>6. \/ pc' \in {"ended", "worker"}
      \/ /\ pc' = "apply" /\ round' = round /\ report # None
         /\ AfterArbitration(d, round, MaxRounds) = "proceed"
  BY DEF ArbitrateRound, End, Goto, NextRound, d, v
<1>7. Shown' = Shown
  BY <1>1 DEF Shown, Hidden, work
<1> QED BY <1>1, <1>4, <1>5, <1>6, <1>7 DEF SawInv, Deciding

\* The patch, the staged list and the commit are what the reviewer saw.
LEMMA SawInvPlacing ==
  ASSUME TypeOK, SawInv, TestedInv, ApplyWorktree \/ ApplyFails \/ Stage \/ Commit
  PROVE  SawInv'
<1> USE DEF SawInv, Deciding
<1>1. UNCHANGED <<onSide, listed, reports, round>> /\ Hidden' = Hidden
  BY DEF ApplyWorktree, ApplyFails, Stage, Commit, End, Goto, GotoRecorded, records, work, Hidden
<1>2. CASE ApplyWorktree
  <2>1. /\ pc = "apply" /\ pc' \in {"stage", "commit"} /\ stagedList' = {}
        /\ checkout' \ Hidden' = Shown
    BY <1>1, <1>2 DEF ApplyWorktree, Goto, GotoRecorded, Patch, Shown, TestedInv
  <2> QED BY <1>1, <2>1
<1>3. CASE ApplyFails
  BY <1>3 DEF ApplyFails, End
<1>4. CASE Stage
  <2>1. pc = "stage" /\ pc' \in {"commit", "ended"} /\ stagedList = {}
    BY <1>4 DEF Stage, End, GotoRecorded, TestedInv
  <2>2. stagedList' = {} \/ stagedList' = checkout \ Hidden
    BY <1>4, <2>1 DEF Stage
  <2> QED BY <1>1, <2>1, <2>2
<1>5. CASE Commit
  <2>1. pc = "commit" /\ pc' \in {"push", "ended"} /\ commits = {}
    BY <1>5 DEF Commit, End, Goto, TestedInv, Placing
  <2>2. pc' = "push" => stagedList # {} /\ commits' = stagedList
    BY <1>5, <2>1 DEF Commit, End
  <2> QED BY <1>1, <2>1, <2>2
<1> QED BY <1>2, <1>3, <1>4, <1>5

\* The other steps lead to no place where the report counts.
LEMMA SawInvOther ==
  ASSUME SawInv,
         \/ WorkerAttempt \/ CheckAttempt \/ CheckChanges \/ RunTests \/ Push \/ CreatePR
         \/ RecordPR \/ Interrupt \/ HumanCleans \/ Rerun \/ UNCHANGED vars
  PROVE  SawInv'
<1>1. CASE UNCHANGED vars
  BY <1>1 DEF SawInv, vars, control, work, project, records, Shown, Hidden, AsksForRepair
<1>2. CASE ~UNCHANGED vars
  <2>1. pc' \notin {"arbitrate", "apply", "stage", "commit", "push"}
    BY <1>2
    DEF WorkerAttempt, AfterAttempt, CheckAttempt, CheckChanges, RunTests, Push, CreatePR,
        RecordPR, Interrupt, HumanCleans, Rerun, End, Goto, NextRound, control
  <2> QED BY <2>1 DEF SawInv, Deciding
<1> QED BY <1>1, <1>2

ReleaseInv == TypeOK /\ ReviewInv /\ StatusInv /\ TestedInv /\ SawInv

\* All that the refinement rests on holds in every reachable state.
LEMMA ReleaseInvHolds ==
  ASSUME Tidy
  PROVE  Spec => []ReleaseInv
<1>1. Init => TypeOK /\ ReviewInv /\ SawInv
  BY TypeInit, ReviewInvInit DEF Init, SawInv, Deciding
<1>2. TypeOK /\ ReviewInv /\ SawInv /\ TestedInv /\ [Next]_vars => (TypeOK /\ ReviewInv /\ SawInv)'
  BY TypeNext, ReviewInvNext, SawInvReview, SawInvArbitrate, SawInvPlacing, SawInvOther
  DEF Next, Step
<1>3. Spec => []TestedInv
  BY TestedInvHolds DEF Tidy, FromScratch
<1>4. Spec => []StatusInv
  BY StatusInvHolds DEF Tidy
<1> QED BY <1>1, <1>2, <1>3, <1>4, PTL DEF Spec, ReleaseInv

-----------------------------------------------------------------------------
\* What the refinement shows of the run.
Work == IF Approval = None THEN tree \cup index \cup commits ELSE tested.items

\* From the decision to the push there is an approval.
LEMMA ApprovalStands ==
  ASSUME ReleaseInv, published # None \/ pc \in {"apply", "stage", "commit", "push"}
  PROVE  Approval = reports[round].saw /\ Approval # None /\ Work = tested.items
<1>1. reports[round] \in Reports
  <2>1. reports[round] # None
    BY DEF ReleaseInv, ReviewInv, CoversPatch, BranchReviewed, Reviewed, Placing, Sending, Delivered
  <2> QED BY <2>1 DEF ReleaseInv, TypeOK, ReviewRecordTypes, ControlTypes
<1>2. reports[round].saw # None
  BY <1>1, RunAssumption DEF Reports
<1> QED BY <1>2 DEF Approval, Work

\* Before the decision, and after a run that pushed nothing, there is none.
LEMMA NoApproval ==
  ASSUME published = None, pc \notin {"apply", "stage", "commit", "push"}
  PROVE  Approval = None /\ Work = tree \cup index \cup commits
  BY DEF Approval, Work

\* Every step of the work, and every end of a run that published nothing, is a
\* change of the work that ends its approval.
LEMMA ReworkStep ==
  ASSUME ReleaseInv', published = None, published' = None,
         pc' \notin {"apply", "stage", "commit", "push"}
  PROVE  AR!Rework
<1>1. Approval' = None /\ Work' = tree' \cup index' \cup commits'
  BY NoApproval DEF Approval, Work
<1>2. Work' \in SUBSET Items
  BY <1>1 DEF ReleaseInv, TypeOK, WorkTypes
<1> QED BY <1>1, <1>2 DEF AR!Rework, Work

\* The manager's decision to go on is the approval: the reviewer saw a part of
\* the work the tests covered.
LEMMA ApproveStep ==
  ASSUME ReleaseInv, ReleaseInv', ArbitrateRound, pc' = "apply"
  PROVE  AR!Approve
<1>1. /\ pc = "arbitrate" /\ published = None /\ commits = {}
      /\ UNCHANGED <<work, release, tested, listed>>
  BY DEF ReleaseInv, TestedInv, Delivered, Deciding, ArbitrateRound
<1>2. Approval = None /\ Work = tree \cup index \cup commits
  BY <1>1, NoApproval
<1>3. tested.items = tree \cup index /\ Shown' = Shown
  BY <1>1 DEF ReleaseInv, TestedInv, Shown, Hidden, work
<1>4. (reports[round].saw)' = Shown /\ Shown # None
  BY <1>3, RunAssumption DEF ReleaseInv, SawInv, TypeOK, WorkTypes, Shown
<1>5. Approval' = Shown /\ Work' = tested'.items
  BY <1>4 DEF Approval, Work
<1>6. Approval' \in SUBSET Work /\ Work' = Work
  BY <1>1, <1>2, <1>3, <1>4, <1>5 DEF Shown
<1> QED BY <1>1, <1>2, <1>6 DEF AR!Approve, Work, release

\* From there to the push neither the approval nor what was tested changes.
LEMMA KeptStep ==
  ASSUME ReleaseInv, ReleaseInv', published' = published,
         published # None \/ pc \in {"apply", "stage", "commit", "push"},
         published # None \/ pc' \in {"apply", "stage", "commit", "push"},
         UNCHANGED <<reports, round, tested>>
  PROVE  UNCHANGED AR!vars
<1>1. Approval = reports[round].saw /\ Approval # None /\ Work = tested.items
  BY ApprovalStands
<1>2. Approval' = Approval
  BY <1>1 DEF Approval
<1>3. Work' = Work
  BY <1>1, <1>2 DEF Work
<1> QED BY <1>2, <1>3 DEF AR!vars, Work

\* The push releases what was approved, and all of it.
LEMMA PushStep ==
  ASSUME ReleaseInv, ReleaseInv', Push
  PROVE  AR!Release \/ AR!Rework
<1>1. pc = "push" /\ published = None
  BY DEF Push, ReleaseInv, StatusInv
<1>2. CASE End("failed") /\ UNCHANGED published
  BY <1>1, <1>2, ReworkStep DEF End
<1>3. CASE Goto("pr", status) /\ published' = commits
  <2>1. Approval = reports[round].saw /\ Approval # None /\ Work = tested.items
    BY <1>1, ApprovalStands
  <2>2. published' = Approval /\ published' # None
    BY <1>1, <1>3, <2>1 DEF ReleaseInv, SawInv
  <2>3. UNCHANGED <<reports, round, tested>>
    BY <1>3 DEF Push, Goto, records
  <2>4. Approval' = Approval
    BY <2>1, <2>2, <2>3 DEF Approval
  <2>5. Work' = Work
    BY <2>1, <2>3, <2>4 DEF Work
  <2> QED BY <1>1, <2>1, <2>2, <2>4, <2>5 DEF AR!Release, Work
<1> QED BY <1>2, <1>3 DEF Push

\* A run starts with no work, no approval and nothing released.
LEMMA RefineInit == Init => AR!Init
<1> SUFFICES ASSUME Init PROVE AR!Init OBVIOUS
<1>1. Approval = None /\ Work = tree \cup index \cup commits
  BY NoApproval DEF Init
<1> QED BY <1>1 DEF Init, AR!Init, Work

\* The next run starts over.
LEMMA RefineRerun ==
  ASSUME Rerun
  PROVE  AR!StartOver
<1>1. Approval' = None
  BY DEF Rerun, Approval
<1>2. Work' = {}
  BY <1>1 DEF Rerun, Work
<1> QED BY <1>1, <1>2 DEF Rerun, AR!StartOver, Work

\* Up to the decision the work is reworked, and then approved.
LEMMA RefineEarly ==
  ASSUME ReleaseInv, ReleaseInv',
         WorkerAttempt \/ CheckAttempt \/ CheckChanges \/ RunTests \/ Review \/ ArbitrateRound
  PROVE  AR!Next
<1>1. /\ pc \notin {"pr", "record", "ended"} /\ UNCHANGED release
      /\ \/ pc' \notin {"apply", "stage", "commit", "push"}
         \/ ArbitrateRound /\ pc' = "apply"
  BY DEF WorkerAttempt, AfterAttempt, CheckAttempt, CheckChanges, RunTests, Review,
         ArbitrateRound, End, Goto, NextRound
<1>2. published = None /\ published' = None
  BY <1>1 DEF ReleaseInv, StatusInv, release
<1> QED BY <1>1, <1>2, ReworkStep, ApproveStep DEF AR!Next

\* Between the decision and the push, and after it, nothing is seen to change,
\* unless the run ends unpublished and loses its approval.
LEMMA RefineLate ==
  ASSUME ReleaseInv, ReleaseInv',
         \/ ApplyWorktree \/ ApplyFails \/ Stage \/ Commit \/ CreatePR \/ RecordPR
         \/ Interrupt \/ HumanCleans
  PROVE  AR!Next \/ UNCHANGED AR!vars
<1>1. UNCHANGED <<published, reports, round, tested>>
  BY DEF ApplyWorktree, ApplyFails, Stage, Commit, CreatePR, RecordPR, Interrupt,
         HumanCleans, End, Goto, GotoRecorded, records, release, control
<1>2. CASE published # None
  BY <1>1, <1>2, KeptStep
<1>3. CASE published = None
  <2>1. CASE pc' \in {"apply", "stage", "commit", "push"}
    <3>1. pc \in {"apply", "stage", "commit", "push"}
      BY <1>3, <2>1
      DEF ApplyWorktree, ApplyFails, Stage, Commit, CreatePR, RecordPR, Interrupt,
          HumanCleans, End, Goto, GotoRecorded, control
    <3> QED BY <1>1, <2>1, <3>1, KeptStep
  <2>2. CASE pc' \notin {"apply", "stage", "commit", "push"}
    BY <1>1, <1>3, <2>2, ReworkStep DEF AR!Next
  <2> QED BY <2>1, <2>2
<1> QED BY <1>2, <1>3

\* A step that changes nothing is not seen.
LEMMA RefineStutter == UNCHANGED vars => UNCHANGED AR!vars
  BY DEF vars, control, work, release, records, AR!vars, Approval

\* Every step maps to a step of ApprovedRelease or to none.
LEMMA RefineNext ==
  ASSUME ReleaseInv, ReleaseInv', [Next]_vars
  PROVE  [AR!Next]_AR!vars
  BY RefineEarly, RefineLate, RefineRerun, RefineStutter, PushStep DEF Next, Step, AR!Next

\* The run implements ApprovedRelease: what it pushes is exactly what a reviewer
\* approved of the work the tests had covered, and any change of that work on
\* the way ends the approval, however many rounds and runs there are.
THEOREM ReleaseRefines ==
  ASSUME Tidy
  PROVE  Spec => ReleasesWhatWasApproved
<1>1. Init => AR!Init BY RefineInit
<1>2. ReleaseInv /\ ReleaseInv' /\ [Next]_vars => [AR!Next]_AR!vars BY RefineNext
<1> QED BY <1>1, <1>2, ReleaseInvHolds, PTL DEF Spec, ReleasesWhatWasApproved, AR!Spec
=============================================================================
