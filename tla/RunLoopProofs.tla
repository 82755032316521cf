--------------------------- MODULE RunLoopProofs ---------------------------
(***************************************************************************)
(* Theorems about RunLoop, for every bound, worker, test and reviewer that *)
(* RunAssumption allows.                                                   *)
(***************************************************************************)
EXTENDS RunLoop, TLAPS

Statuses == {"started", "repairing", "failed", "blocked", "no_changes", "staged",
             "needs_human_staging", "committed", "completed", "pr_created"}
Finals == {"none", "completed", "failed", "blocked", "draft_pr_opened", "pr_opened"}

\* A status and the final state made of it are legal.
LEMMA FinalOfStatus == \A s \in Statuses : MapStatusToFinal(s) \in Finals
  BY DEF MapStatusToFinal, Statuses, Finals

\* A worker leaves items of the task, wherever it leaves them.
LEMMA LeftByItems ==
  ASSUME tree \subseteq Items, index \subseteq Items, commits \subseteq Items,
         round \in Rounds, NEW how \in WaysToLeave, NEW left \in LeftBy(how)
  PROVE  /\ left = <<left[1], left[2], left[3]>>
         /\ left[1] \subseteq Items /\ left[2] \subseteq Items /\ left[3] \subseteq Items
<1> DEFINE now == tree \cup {round}
<1>0. now \subseteq Items BY DEF Items
<1>1. CASE how = "nothing" BY <1>1 DEF LeftBy
<1>2. CASE how = "revert" BY <1>2 DEF LeftBy
<1>3. CASE how \in {"edit", "side"} BY <1>0, <1>3 DEF LeftBy
<1>4. CASE how = "stage"
  <2>1. PICK S \in SUBSET now : left = <<now \ S, index \cup S, commits>>
    BY <1>4 DEF LeftBy
  <2> QED BY <1>0, <2>1
<1>5. CASE how = "commit"
  <2>1. PICK S \in SUBSET now : left = <<now \ S, {}, commits \cup index \cup S>>
    BY <1>5 DEF LeftBy
  <2> QED BY <1>0, <2>1
<1> QED BY <1>1, <1>2, <1>3, <1>4, <1>5 DEF WaysToLeave

\* Moving commits back to the worktree neither invents nor loses an item.
LEMMA RestoredItems ==
  ASSUME NEW left, left = <<left[1], left[2], left[3]>>
  PROVE  LET kept == Restored(left)
         IN  /\ kept = <<kept[1], kept[2], kept[3]>>
             /\ kept[3] = {}
             /\ kept[1] \cup kept[2] \cup kept[3] = left[1] \cup left[2] \cup left[3]
  BY DEF Restored

-----------------------------------------------------------------------------
(* Types.                                                                  *)

LEMMA RoundsAreNat == Rounds \subseteq Nat
  BY DEF Rounds

LEMMA NextRoundInRounds ==
  ASSUME round \in Rounds, round < MaxRounds
  PROVE  round + 1 \in Rounds
  BY RunAssumption DEF Rounds

\* What arbitration can decide, and what the loop makes of it.
LEMMA Decisions ==
  \A review, v, max :
     Arbitrate(review, v, max) \in {"blocked", "repair_required", "draft_pr_with_blockers",
                                    "proceed_to_pr"}
  BY DEF Arbitrate

\* A repair is only asked for while there is a round left.
LEMMA RepairHasRound ==
  ASSUME round \in Rounds
  PROVE  /\ \A v, type : AfterValidation(round, MaxRounds, v, type) = "repair" => round < MaxRounds
         /\ \A d : AfterArbitration(d, round, MaxRounds) = "repair" => round < MaxRounds
  BY RunAssumption DEF AfterValidation, AfterArbitration, Rounds

\* Init gives every variable its type.
LEMMA TypeInit == Init => TypeOK
<1> SUFFICES ASSUME Init PROVE TypeOK OBVIOUS
<1>1. ControlTypes BY RunAssumption DEF Init, ControlTypes, Rounds
<1>2. WorkTypes BY DEF Init, WorkTypes
<1>3. WorkerRecordTypes BY DEF Init, WorkerRecordTypes
<1>4. ReviewRecordTypes BY DEF Init, ReviewRecordTypes
<1> QED BY <1>1, <1>2, <1>3, <1>4 DEF TypeOK

LEMMA TypeRerun == TypeOK /\ Rerun => TypeOK'
<1> SUFFICES ASSUME TypeOK, Rerun PROVE TypeOK' OBVIOUS
<1>1. ControlTypes'
  BY RunAssumption DEF TypeOK, Rerun, ControlTypes, Rounds, records
<1>2. WorkTypes' BY DEF TypeOK, Rerun, WorkTypes, project
<1>3. WorkerRecordTypes' BY DEF TypeOK, Rerun, WorkerRecordTypes, records
<1>4. ReviewRecordTypes' BY DEF TypeOK, Rerun, ReviewRecordTypes, records
<1> QED BY <1>1, <1>2, <1>3, <1>4 DEF TypeOK

LEMMA TypeHumanCleans == TypeOK /\ HumanCleans => TypeOK'
  BY DEF TypeOK, HumanCleans, control, work, release, records, ControlTypes, WorkTypes,
         WorkerRecordTypes, ReviewRecordTypes

LEMMA TypeInterrupt == TypeOK /\ Interrupt => TypeOK'
  BY FinalOfStatus
  DEF TypeOK, Interrupt, End, Statuses, Finals, work, project, release, records,
      ControlTypes, WorkTypes, WorkerRecordTypes, ReviewRecordTypes
\* The worker's end: a status of the contract, work made of items.
LEMMA InferredStatus ==
  \A runner, s, exitOk, changed : Inferred(runner, s, exitOk, changed) \subseteq AttemptStatuses
  BY DEF Inferred, AttemptStatuses

LEMMA RecordedStatus ==
  ASSUME NEW inferred \in AttemptStatuses, NEW own \in AttemptStatuses \cup {NoAttempt},
         NEW runner
  PROVE  Recorded(runner, own, inferred) \in AttemptStatuses
  BY DEF Recorded, Stored, AttemptStatuses, NoAttempt

LEMMA TypeWorkerAttempt == TypeOK /\ WorkerAttempt => TypeOK'
<1> SUFFICES ASSUME TypeOK, WorkerAttempt PROVE TypeOK' OBVIOUS
<1> USE DEF TypeOK
<1>1. PICK how \in (IF mode = "repair" THEN RepairLeaves ELSE Leaves), e \in AttemptEnds,
           own \in {attempts[round]} \cup AttemptStatuses :
        \E left \in LeftBy(how) : AfterAttempt(how, left, own, e)
  BY DEF WorkerAttempt
<1>2. PICK left \in LeftBy(how) : AfterAttempt(how, left, own, e)
  BY <1>1
<1>3. how \in WaysToLeave
  BY RunAssumption
<1>4. /\ left = <<left[1], left[2], left[3]>>
      /\ left[1] \subseteq Items /\ left[2] \subseteq Items /\ left[3] \subseteq Items
  BY <1>3, LeftByItems DEF WorkTypes, ControlTypes
<1>5. tree' \subseteq Items /\ index' \subseteq Items /\ commits' \subseteq Items
  <2> DEFINE kept == IF mode = "repair" THEN left ELSE Restored(left)
  <2>1. kept[1] \subseteq Items /\ kept[2] \subseteq Items /\ kept[3] \subseteq Items
    BY <1>4, RestoredItems
  <2>2. \/ tree' = left[1] /\ index' = left[2] /\ commits' = left[3]
        \/ tree' = kept[1] /\ index' = kept[2] /\ commits' = kept[3]
    BY <1>2 DEF AfterAttempt
  <2> QED BY <1>4, <2>1, <2>2
<1>6. ControlTypes'
  BY <1>2, FinalOfStatus DEF AfterAttempt, End, Goto, ControlTypes, Statuses, Finals
<1>7. WorkTypes'
  BY <1>2, <1>5 DEF WorkerAttempt, AfterAttempt, WorkTypes, ControlTypes, project, release
<1>8. WorkerRecordTypes'
  <2>1. own \in AttemptStatuses \cup {NoAttempt}
    BY DEF WorkerRecordTypes, ControlTypes
  <2>2. attempts' \in [Rounds -> AttemptStatuses \cup {NoAttempt}]
    <3>1. PICK inferred \in Inferred(e.runner, e.stop, e.exitOk, left[1] \cup left[2] # {}) :
            attempts' = [attempts EXCEPT ![round] = Recorded(e.runner, own, inferred)]
      BY <1>2 DEF AfterAttempt
    <3>2. Recorded(e.runner, own, inferred) \in AttemptStatuses
      BY <2>1, InferredStatus, RecordedStatus
    <3> QED BY <3>1, <3>2 DEF WorkerRecordTypes
  <2>3. stop' \in Stops
    BY <1>2 DEF AfterAttempt, AttemptEnds, DirectEnds, ProfileEnds, CliEnds, Ends
  <2>4. secretSeen' \in BOOLEAN
    BY <1>2
    DEF AfterAttempt, AttemptEnds, DirectEnds, ProfileEnds, CliEnds, Ends, WorkerRecordTypes
  <2> QED BY <2>2, <2>3, <2>4 DEF WorkerAttempt, WorkerRecordTypes
<1>9. ReviewRecordTypes'
  BY DEF WorkerAttempt, ReviewRecordTypes
<1> QED BY <1>6, <1>7, <1>8, <1>9
LEMMA TypeChecks == TypeOK /\ (CheckAttempt \/ CheckChanges) => TypeOK'
<1> SUFFICES ASSUME TypeOK, CheckAttempt \/ CheckChanges PROVE TypeOK' OBVIOUS
<1> USE DEF TypeOK
<1>1. ControlTypes'
  BY FinalOfStatus, NextRoundInRounds
  DEF CheckAttempt, CheckChanges, NextRound, End, Goto, ControlTypes, Statuses, Finals
<1>2. WorkTypes' /\ WorkerRecordTypes' /\ ReviewRecordTypes'
  BY DEF CheckAttempt, CheckChanges, WorkTypes, WorkerRecordTypes, ReviewRecordTypes,
         work, project, release, records
<1> QED BY <1>1, <1>2

LEMMA TypeRunTests == TypeOK /\ RunTests => TypeOK'
<1> SUFFICES ASSUME TypeOK, RunTests PROVE TypeOK' OBVIOUS
<1> USE DEF TypeOK
<1>1. ControlTypes'
  <2>1. \A v, type : AfterValidationStatus(v, type) \in {"blocked", "failed"}
    BY DEF AfterValidationStatus
  <2>2. \/ \E s \in Statuses : Goto("review", s) \/ End(s)
        \/ NextRound("repair") /\ round < MaxRounds
    BY <2>1, RepairHasRound DEF RunTests, ControlTypes, Statuses
  <2> QED
    BY <2>2, FinalOfStatus, NextRoundInRounds
    DEF NextRound, End, Goto, ControlTypes, Statuses, Finals
<1>2. WorkTypes'
  BY DEF RunTests, WorkTypes, Items, TestFile, project, release
<1>3. WorkerRecordTypes'
  BY RunAssumption DEF RunTests, WorkerRecordTypes
<1>4. ReviewRecordTypes'
  BY DEF RunTests, ReviewRecordTypes
<1> QED BY <1>1, <1>2, <1>3, <1>4

\* Every report a review can leave is one the contract accepts.
LEMMA ReviewReports ==
  ASSUME TypeOK
  PROVE  /\ BlockedReport \in Reports
         /\ \A report \in Reports : SanityChecked(report) \in Reports
<1> USE DEF TypeOK
<1>1. round \in Nat /\ run \in 1 .. MaxRuns
  BY RoundsAreNat DEF ControlTypes
<1>2. /\ [severity |-> "high", category |-> "environment"] \in Findings
      /\ [severity |-> "high", category |-> "correctness"] \in Findings
  BY DEF Findings, Severities, Categories
<1>3. BlockedReport \in Reports
  BY <1>1, <1>2 DEF BlockedReport, Reports, Verdicts
<1>4. ASSUME NEW report \in Reports PROVE SanityChecked(report) \in Reports
  BY <1>2 DEF SanityChecked, Reports, Verdicts
<1> QED BY <1>3, <1>4

LEMMA TypeReview == TypeOK /\ Review => TypeOK'
<1> SUFFICES ASSUME TypeOK, Review PROVE TypeOK' OBVIOUS
<1> USE DEF TypeOK
<1>1. ControlTypes'
  BY DEF Review, Goto, ControlTypes
<1>2. WorkTypes' /\ WorkerRecordTypes'
  BY DEF Review, WorkTypes, WorkerRecordTypes, work, project, release
<1>3. reports' \in [Rounds -> Reports \cup {None}] /\ log' \in Reports \cup {None}
  <2>1. CASE reports[round] # None \/ ReviewRaises
    BY <2>1 DEF Review, ReviewRaises, ReviewWritten, ReviewRecovered, ReviewSilent, ReviewRecordTypes
  <2>2. CASE ReviewWritten
    <3>1. PICK opinion \in Opinions, stated \in {round} \cup ExtraRounds, gateRan \in BOOLEAN :
            LET report == [round |-> stated, verdict |-> opinion.verdict,
                           findings |-> opinion.findings, run |-> run, saw |-> Shown]
            IN /\ reports' = [reports EXCEPT ![round] =
                                IF gateRan THEN SanityChecked(report) ELSE report]
               /\ log' \in {log, report}
      BY <2>2 DEF ReviewWritten
    <3> DEFINE report == [round |-> stated, verdict |-> opinion.verdict,
                          findings |-> opinion.findings, run |-> run, saw |-> Shown]
    <3>2. report \in Reports
      BY RunAssumption, RoundsAreNat DEF Reports, ControlTypes, WorkTypes, Shown
    <3> QED BY <3>1, <3>2, ReviewReports DEF ReviewRecordTypes
  <2>3. CASE ReviewSilent
    BY <2>3, ReviewReports DEF ReviewSilent, ReviewRecordTypes
  <2>4. CASE ReviewRecovered
    BY <2>4, ReviewReports DEF ReviewRecovered, ReviewRecordTypes
  <2> QED BY <2>1, <2>2, <2>3, <2>4 DEF Review
<1>4. ReviewRecordTypes'
  BY <1>3 DEF Review, ReviewRecordTypes
<1> QED BY <1>1, <1>2, <1>4

LEMMA TypeArbitrateRound == TypeOK /\ ArbitrateRound => TypeOK'
<1> SUFFICES ASSUME TypeOK, ArbitrateRound PROVE TypeOK' OBVIOUS
<1> USE DEF TypeOK
<1>1. ControlTypes'
  <2>1. \/ \E s \in Statuses : Goto("apply", s) \/ End(s)
        \/ NextRound("repair") /\ round < MaxRounds
    BY RepairHasRound DEF ArbitrateRound, ControlTypes, Statuses
  <2> QED
    BY <2>1, FinalOfStatus, NextRoundInRounds
    DEF NextRound, End, Goto, ControlTypes, Statuses, Finals
<1>2. WorkTypes' /\ WorkerRecordTypes'
  BY DEF ArbitrateRound, WorkTypes, WorkerRecordTypes, work, project, release
<1>3. ReviewRecordTypes'
  BY Decisions DEF ArbitrateRound, ReviewRecordTypes
<1> QED BY <1>1, <1>2, <1>3
LEMMA TypeApply == TypeOK /\ (ApplyWorktree \/ ApplyFails) => TypeOK'
<1> SUFFICES ASSUME TypeOK, ApplyWorktree \/ ApplyFails PROVE TypeOK' OBVIOUS
<1> USE DEF TypeOK
<1>1. CASE ApplyWorktree
  <2>1. ControlTypes'
    BY <1>1, FinalOfStatus
    DEF ApplyWorktree, GotoRecorded, Goto, ControlTypes, Statuses, Finals
  <2>2. WorkTypes' /\ WorkerRecordTypes'
    BY <1>1 DEF ApplyWorktree, Patch, WorkTypes, WorkerRecordTypes, release
  <2>3. ReviewRecordTypes'
    BY <1>1 DEF ApplyWorktree, Visible, WorkTypes, ReviewRecordTypes
  <2> QED BY <2>1, <2>2, <2>3
<1>2. CASE ApplyFails
  BY <1>2, FinalOfStatus
  DEF ApplyFails, End, Statuses, Finals, project, release, records,
      ControlTypes, WorkTypes, WorkerRecordTypes, ReviewRecordTypes
<1> QED BY <1>1, <1>2

LEMMA TypeStage == TypeOK /\ Stage => TypeOK'
<1> SUFFICES ASSUME TypeOK, Stage PROVE TypeOK' OBVIOUS
<1> USE DEF TypeOK
<1>1. ControlTypes'
  BY FinalOfStatus DEF Stage, GotoRecorded, End, ControlTypes, Statuses, Finals
<1>2. WorkTypes' /\ WorkerRecordTypes'
  BY DEF Stage, WorkTypes, WorkerRecordTypes, work, release
<1>3. ReviewRecordTypes'
  BY DEF Stage, WorkTypes, ReviewRecordTypes
<1> QED BY <1>1, <1>2, <1>3

LEMMA TypeCommit == TypeOK /\ Commit => TypeOK'
<1> SUFFICES ASSUME TypeOK, Commit PROVE TypeOK' OBVIOUS
<1> USE DEF TypeOK
<1>1. ControlTypes'
  BY FinalOfStatus DEF Commit, End, Goto, ControlTypes, Statuses, Finals
<1>2. WorkTypes' /\ WorkerRecordTypes' /\ ReviewRecordTypes'
  BY DEF Commit, WorkTypes, WorkerRecordTypes, ReviewRecordTypes, release, records
<1> QED BY <1>1, <1>2

LEMMA TypePublish == TypeOK /\ (Push \/ CreatePR \/ RecordPR) => TypeOK'
<1> SUFFICES ASSUME TypeOK, Push \/ CreatePR \/ RecordPR PROVE TypeOK' OBVIOUS
<1> USE DEF TypeOK
<1>1. ControlTypes'
  BY FinalOfStatus DEF Push, CreatePR, RecordPR, End, Goto, ControlTypes, Statuses, Finals
<1>2. WorkTypes' /\ WorkerRecordTypes' /\ ReviewRecordTypes'
  BY DEF Push, CreatePR, RecordPR, WorkTypes, WorkerRecordTypes, ReviewRecordTypes,
         work, project, release, records
<1> QED BY <1>1, <1>2

LEMMA TypeStutter == TypeOK /\ UNCHANGED vars => TypeOK'
  BY DEF TypeOK, vars, control, work, project, release, records, ControlTypes, WorkTypes,
         WorkerRecordTypes, ReviewRecordTypes

LEMMA TypeNext == TypeOK /\ [Next]_vars => TypeOK'
  BY TypeRerun, TypeHumanCleans, TypeInterrupt, TypeWorkerAttempt, TypeChecks, TypeRunTests,
     TypeReview, TypeArbitrateRound, TypeApply, TypeStage, TypeCommit, TypePublish, TypeStutter
  DEF Next, Step

\* Every variable has its type, and no run goes beyond max_total_rounds: neither
\* the repair of a failed attempt nor that of a failed test or a finding.
THEOREM RunTypeCorrect == Spec => []TypeOK
<1>1. Init => TypeOK BY TypeInit
<1>2. TypeOK /\ [Next]_vars => TypeOK' BY TypeNext
<1> QED BY <1>1, <1>2, PTL DEF Spec
-----------------------------------------------------------------------------
(* What is delivered was reviewed.  It holds for a run that starts in an   *)
(* empty run directory, whose repair rounds commit nothing and which the   *)
(* syntax check of the review gate never has to correct.                   *)

Tidy == ~KeepRuntime /\ TRUE \notin Breaks /\ "commit" \notin RepairLeaves

\* A report on which the loop can only go round again or stop.
AsksForRepair(report) == report.round < MaxRounds /\ Material(report.findings) # {}

Before   == {"worker", "top", "changes", "tests", "review"}
Deciding == {"arbitrate"}
Placing  == {"apply", "stage", "commit"}
Sending  == {"push", "pr", "record"}

\* The run directory holds nothing of rounds to come, and an earlier report
\* left in the logs cannot be taken for an approval.
NothingStale ==
  /\ pc \in Before =>
       /\ \A r \in Rounds : r >= round => reports[r] = None
       /\ log = None \/ AsksForRepair(log)
  /\ pc \in Deciding =>
       /\ \A r \in Rounds : r > round => reports[r] = None
       /\ log = None \/ AsksForRepair(log) \/ log = reports[round]

\* The signals under which a review takes place.
Validated ==
  /\ pc # "ended" => ~secretSeen
  /\ pc \in {"review"} \cup Deciding => testsExit # "fail"

\* A report about to be decided on that may approve covers what is shown.
CoversWork ==
  pc \in Deciding =>
    \/ reports[round] = None
    \/ reports[round].verdict = "blocked"
    \/ AsksForRepair(reports[round])
    \/ reports[round].run = run /\ Shown \subseteq reports[round].saw

\* The report that was approved covers what is on its way to the branch.
CoversPatch ==
  /\ pc \in Placing => reports[round] # None /\ reports[round].run = run
  /\ pc = "apply" => Shown \subseteq reports[round].saw
  /\ pc = "stage" => checkout \ Hidden \subseteq reports[round].saw
  /\ pc \in Before \cup Deciding \cup {"apply", "stage"} => stagedList = {}
  /\ pc = "commit" /\ stagedList # {} =>
       /\ reports[round].verdict = "LGTM"
       /\ stagedList \subseteq reports[round].saw

Reviewed ==
  /\ reports[round] # None
  /\ reports[round].verdict = "LGTM"
  /\ reports[round].run = run
  /\ commits \subseteq reports[round].saw

\* The branch is empty until the manager commits; from then on it is reviewed.
BranchReviewed ==
  /\ pc \in Before \cup Deciding \cup Placing => commits = {} /\ ~Delivered
  /\ pc \in Sending \/ Delivered => Reviewed

ReviewInv ==
  broken = {} /\ NothingStale /\ Validated /\ CoversWork /\ CoversPatch /\ BranchReviewed
\* With passing tests and no secret the only blockers are absolute ones.
LEMMA ValidatedBlockers ==
  ASSUME NEW review, NEW v, v.testsPassed, v.secretClean
  PROVE  BlockersFor(review, v) \subseteq AbsoluteBlockers
<1>1. StopBlockers(v.stop) \subseteq AbsoluteBlockers
  BY DEF StopBlockers, AbsoluteBlockers
<1>2. Blockers(v) \subseteq AbsoluteBlockers
  BY <1>1 DEF Blockers, RecordedBlockers, AbsoluteBlockers
<1> QED BY <1>2 DEF BlockersFor

\* So a repair is decided on for what the report says, and a report that asks
\* for one is not passed.
LEMMA DecisionMeaning ==
  ASSUME NEW review, NEW v, v.testsPassed, v.secretClean
  PROVE  LET d == Arbitrate(review, v, MaxRounds)
         IN  /\ review.round \in Nat /\ d = "repair_required" => AsksForRepair(review)
             /\ review.round \in Nat /\ d \in {"proceed_to_pr", "draft_pr_with_blockers"}
                  => ~AsksForRepair(review) /\ review.verdict # "blocked"
  BY ValidatedBlockers, RunAssumption DEF Arbitrate, MustBlock, MustRepair, FinalRound, AsksForRepair

LEMMA ReviewInvInit == Init => ReviewInv
  BY DEF Init, ReviewInv, NothingStale, Validated, CoversWork, CoversPatch, BranchReviewed,
         Before, Deciding, Placing, Sending, Delivered

LEMMA ReviewInvRerun == ASSUME Tidy, TypeOK, ReviewInv, Rerun PROVE ReviewInv'
  BY DEF Tidy, TypeOK, ReviewInv, Rerun, NothingStale, Validated, CoversWork, CoversPatch,
         BranchReviewed, Before, Deciding, Placing, Sending, Delivered

LEMMA ReviewInvEnds ==
  ASSUME TypeOK, ReviewInv, HumanCleans \/ Interrupt
  PROVE  ReviewInv'
<1> USE DEF ReviewInv, NothingStale, Validated, CoversWork, CoversPatch, BranchReviewed,
            Before, Deciding, Placing, Sending, Delivered, Reviewed
<1>1. CASE HumanCleans
  BY <1>1 DEF HumanCleans, control, work, release, records
<1>2. CASE Interrupt
  BY <1>2 DEF TypeOK, ControlTypes, Interrupt, End, work, project, release, records
<1> QED BY <1>1, <1>2

\* Only a worker that commits leaves a commit behind.
LEMMA LeftCommits ==
  ASSUME NEW how \in WaysToLeave \ {"commit"}, NEW left \in LeftBy(how)
  PROVE  left[3] = commits
<1>1. CASE how = "stage"
  <2>1. PICK S \in SUBSET (tree \cup {round}) :
          left = <<(tree \cup {round}) \ S, index \cup S, commits>>
    BY <1>1 DEF LeftBy
  <2> QED BY <2>1
<1>2. CASE how # "stage" BY <1>2 DEF LeftBy, WaysToLeave
<1> QED BY <1>1, <1>2

\* A worker attempt before the last round commits nothing that stays committed,
\* and a run whose worker left a secret-like file ends.
LEMMA ReviewInvWorker ==
  ASSUME Tidy, TypeOK, ReviewInv, WorkerAttempt
  PROVE  ReviewInv'
<1> USE DEF ReviewInv, Before, Deciding, Placing, Sending
<1>1. PICK how \in (IF mode = "repair" THEN RepairLeaves ELSE Leaves), e \in AttemptEnds,
           own \in {attempts[round]} \cup AttemptStatuses :
        \E left \in LeftBy(how) : AfterAttempt(how, left, own, e)
  BY DEF WorkerAttempt
<1>2. PICK left \in LeftBy(how) : AfterAttempt(how, left, own, e)
  BY <1>1
<1>3. how \in WaysToLeave /\ (mode = "repair" => how # "commit")
  BY RunAssumption DEF Tidy
<1>4. e.breaks = FALSE /\ e.secret \in BOOLEAN
  BY RunAssumption DEF AttemptEnds, DirectEnds, ProfileEnds, CliEnds, Ends, Tidy
<1>5. /\ pc = "worker"
      /\ UNCHANGED <<run, round, release, reports, log, stagedList>>
  BY <1>2 DEF WorkerAttempt, AfterAttempt, End, Goto, release
<1>6. commits = {} /\ ~Delivered /\ ~secretSeen
  BY <1>5 DEF BranchReviewed, Validated
<1>7. broken' = {}
  BY <1>2, <1>4 DEF AfterAttempt
<1>8. \/ pc' = "ended" /\ ~Delivered'
      \/ pc' \in {"top", "changes"} /\ ~secretSeen' /\ commits' = {} /\ ~Delivered'
  <2> DEFINE kept == IF mode = "repair" THEN left ELSE Restored(left)
  <2>1. kept[3] = {}
    BY <1>3, <1>6, LeftCommits, LeftByItems, RestoredItems DEF TypeOK, ControlTypes, WorkTypes
  <2>2. \/ End("failed") \/ End("blocked")
        \/ /\ ~e.secret /\ secretSeen' = (secretSeen \/ e.secret) /\ commits' = kept[3]
           /\ Goto("changes", status) \/ Goto("top", status)
    BY <1>2 DEF AfterAttempt
  <2> QED BY <1>4, <1>5, <1>6, <2>1, <2>2 DEF End, Goto, Delivered, release
<1>9. NothingStale' /\ Validated' /\ CoversWork' /\ CoversPatch'
  BY <1>5, <1>8 DEF NothingStale, Validated, CoversWork, CoversPatch, AsksForRepair
<1>10. BranchReviewed'
  BY <1>8 DEF BranchReviewed
<1> QED BY <1>7, <1>9, <1>10

LEMMA ReviewInvChecks ==
  ASSUME Tidy, TypeOK, ReviewInv, CheckAttempt \/ CheckChanges
  PROVE  ReviewInv'
<1> USE DEF ReviewInv, Before, Deciding, Placing, Sending
<1>1. /\ pc \in {"top", "changes"}
      /\ UNCHANGED <<work, project, release, records, run>>
      /\ \/ pc' = "ended" /\ status' \in {"blocked", "failed", "no_changes"}
         \/ pc' \in {"worker", "changes", "tests"} /\ status' \in {status, "repairing"}
      /\ round' = round \/ round' = round + 1
  BY DEF CheckAttempt, CheckChanges, End, Goto, NextRound
<1>2. ~Delivered' /\ broken' = {}
  BY <1>1 DEF BranchReviewed, Delivered, release, work
<1>3. NothingStale'
  BY <1>1, RoundsAreNat DEF NothingStale, records, TypeOK, ControlTypes
<1>4. Validated' /\ CoversWork' /\ CoversPatch'
  BY <1>1 DEF Validated, CoversWork, CoversPatch, records
<1>5. BranchReviewed'
  BY <1>1, <1>2 DEF BranchReviewed, work
<1> QED BY <1>2, <1>3, <1>4, <1>5

\* A review only follows tests whose recorded exit code is not a failure.
LEMMA ReviewInvTests ==
  ASSUME Tidy, TypeOK, ReviewInv, RunTests
  PROVE  ReviewInv'
<1> USE DEF ReviewInv, Before, Deciding, Placing, Sending
<1>1. /\ pc = "tests" /\ run' = run
      /\ UNCHANGED <<commits, broken, onSide, release, secretSeen, reports, log, stagedList>>
      /\ \/ pc' = "ended" /\ status' \in {"blocked", "failed"} /\ round' = round
         \/ pc' = "worker" /\ status' = "repairing" /\ round' = round + 1
         \/ pc' = "review" /\ status' \in {status, "failed"} /\ round' = round
            /\ testsExit' # "fail"
  <2>1. \A v, type : AfterValidationStatus(v, type) \in {"blocked", "failed"}
    BY DEF AfterValidationStatus
  <2>2. ASSUME NEW exit, NEW type,
               AfterValidation(round, MaxRounds, Validation(exit), type) = "review"
        PROVE  exit # "fail"
    BY <2>2 DEF AfterValidation, Validation
  <2>3. PICK outcome \in {"pass", "fail", "died"}, type \in {"current-task", "environment"} :
          LET exit  == IF outcome = "died" THEN testsExit ELSE outcome
              v     == Validation(exit)
              after == AfterValidation(round, MaxRounds, v, type)
          IN  /\ testsExit' = exit
              /\ \/ outcome = "pass" /\ Goto("review", status)
                 \/ outcome # "pass" /\ after = "review" /\ Goto("review", "failed")
                 \/ outcome # "pass" /\ after = "repair" /\ NextRound("repair")
                 \/ outcome # "pass" /\ after = "block" /\ End(AfterValidationStatus(v, type))
    BY DEF RunTests
  <2>4. \/ pc' = "ended" /\ status' \in {"blocked", "failed"} /\ round' = round /\ run' = run
        \/ pc' = "worker" /\ status' = "repairing" /\ round' = round + 1 /\ run' = run
        \/ pc' = "review" /\ status' \in {status, "failed"} /\ round' = round /\ run' = run
           /\ testsExit' # "fail"
    BY <2>1, <2>2, <2>3 DEF End, Goto, NextRound
  <2> QED BY <2>4 DEF RunTests
<1>2. ~Delivered' /\ broken' = {}
  BY <1>1 DEF BranchReviewed, Delivered, release
<1>3. NothingStale'
  BY <1>1, RoundsAreNat DEF NothingStale, TypeOK, ControlTypes, AsksForRepair
<1>4. Validated' /\ CoversWork' /\ CoversPatch'
  BY <1>1 DEF Validated, CoversWork, CoversPatch
<1>5. BranchReviewed'
  BY <1>1, <1>2 DEF BranchReviewed
<1> QED BY <1>2, <1>3, <1>4, <1>5

\* A report recovered from the logs asks for a repair; any other one is of what
\* its reviewer was shown, which is the present work.
LEMMA ReviewInvReview ==
  ASSUME Tidy, TypeOK, ReviewInv, Review
  PROVE  ReviewInv'
<1> USE DEF ReviewInv, Before, Deciding, Placing, Sending
<1>1. /\ pc = "review" /\ pc' = "arbitrate" /\ status' \in {status, "failed"}
      /\ round' = round /\ run' = run
      /\ UNCHANGED <<work, release, testsExit, secretSeen, listed, stagedList>>
  BY DEF Review, Goto
<1>2. /\ reports[round] = None /\ round \in Rounds
      /\ \A r \in Rounds : r > round => reports[r] = None
      /\ log = None \/ AsksForRepair(log)
  BY <1>1, RoundsAreNat DEF NothingStale, TypeOK, ControlTypes
<1>3. reports \in [Rounds -> Reports \cup {None}]
  BY DEF TypeOK, ReviewRecordTypes
<1>4. Shown' = Shown
  BY <1>1 DEF Shown, Hidden, work
<1>5. /\ \A r \in Rounds : r # round => reports'[r] = reports[r]
      /\ log' = None \/ AsksForRepair(log') \/ log' = reports'[round]
      /\ \/ reports'[round] = None
         \/ reports'[round].verdict = "blocked"
         \/ AsksForRepair(reports'[round])
         \/ reports'[round].run = run /\ Shown \subseteq reports'[round].saw
  <2>1. CASE ReviewWritten
    <3>1. PICK opinion \in Opinions, stated \in {round} \cup ExtraRounds, gateRan \in BOOLEAN :
            LET report == [round |-> stated, verdict |-> opinion.verdict,
                           findings |-> opinion.findings, run |-> run, saw |-> Shown]
            IN /\ reports' = [reports EXCEPT ![round] =
                                IF gateRan THEN SanityChecked(report) ELSE report]
               /\ log' \in {log, report}
      BY <2>1 DEF ReviewWritten
    <3> DEFINE report == [round |-> stated, verdict |-> opinion.verdict,
                          findings |-> opinion.findings, run |-> run, saw |-> Shown]
    <3>2. reports' = [reports EXCEPT ![round] = report] /\ log' \in {log, report}
      BY <3>1 DEF SanityChecked
    <3>3. report.run = run /\ report.saw = Shown
      OBVIOUS
    <3> HIDE DEF report
    <3> QED BY <1>2, <1>3, <3>2, <3>3
  <2>2. CASE ReviewSilent
    BY <1>2, <1>3, <2>2 DEF ReviewSilent, BlockedReport
  <2>3. CASE ReviewRecovered
    BY <1>2, <1>3, <2>3 DEF ReviewRecovered, BlockedReport
  <2>4. CASE ReviewRaises
    BY <1>2, <2>4 DEF ReviewRaises
  <2> QED BY <1>2, <2>1, <2>2, <2>3, <2>4 DEF Review
<1>6. ~Delivered' /\ commits' = {} /\ broken' = {}
  BY <1>1 DEF BranchReviewed, Delivered, release, work
<1>7. NothingStale'
  BY <1>1, <1>2, <1>5, RoundsAreNat DEF NothingStale
<1>8. Validated' /\ CoversPatch' /\ BranchReviewed'
  BY <1>1, <1>6 DEF Validated, CoversPatch, BranchReviewed
<1>9. CoversWork'
  BY <1>1, <1>4, <1>5 DEF CoversWork
<1> QED BY <1>6, <1>7, <1>8, <1>9

\* What arbitration lets pass is a report of this run on the present work.
LEMMA ReviewInvArbitrate ==
  ASSUME Tidy, TypeOK, ReviewInv, ArbitrateRound
  PROVE  ReviewInv'
<1> USE DEF ReviewInv, Before, Deciding, Placing, Sending
<1> DEFINE report == reports[round]
           v == Validation(testsExit)
           d == Arbitrate(report, v, MaxRounds)
<1>1. /\ pc = "arbitrate" /\ round \in Rounds
      /\ UNCHANGED <<run, work, project, release, testsExit, secretSeen, listed, reports,
                     log, stagedList>>
  BY DEF ArbitrateRound, End, Goto, NextRound, TypeOK, ControlTypes
<1>2. v.testsPassed /\ v.secretClean
  BY <1>1 DEF Validated, Validation
<1>3. report # None => report.round \in Nat
  BY <1>1 DEF TypeOK, ReviewRecordTypes, Reports
<1>4. /\ report # None /\ d = "repair_required" => AsksForRepair(report)
      /\ report # None /\ d \in {"proceed_to_pr", "draft_pr_with_blockers"}
           => ~AsksForRepair(report) /\ report.verdict # "blocked"
  BY <1>2, <1>3, DecisionMeaning
<1>5. /\ AfterArbitration(d, round, MaxRounds) = "proceed"
           => d \in {"proceed_to_pr", "draft_pr_with_blockers"}
      /\ AfterArbitration(d, round, MaxRounds) = "repair" => d = "repair_required"
  BY Decisions DEF AfterArbitration
<1>6. \/ pc' = "ended" /\ status' = "blocked" /\ round' = round
      \/ /\ pc' = "apply" /\ status' = status /\ round' = round
         /\ report # None /\ report.run = run /\ Shown \subseteq report.saw
      \/ /\ pc' = "worker" /\ status' = "repairing" /\ round' = round + 1
         /\ AsksForRepair(report)
  <2>1. CASE report = None
    BY <2>1 DEF ArbitrateRound, End
  <2>2. CASE report # None
    <3> HIDE DEF d, v
    <3>1. \/ AfterArbitration(d, round, MaxRounds) = "proceed" /\ Goto("apply", status)
          \/ AfterArbitration(d, round, MaxRounds) = "block" /\ End("blocked")
          \/ AfterArbitration(d, round, MaxRounds) = "repair" /\ NextRound("repair")
      BY <2>2 DEF ArbitrateRound, d, v
    <3> QED BY <1>1, <1>4, <1>5, <2>2, <3>1 DEF CoversWork, Goto, End, NextRound
  <2> QED BY <2>1, <2>2
<1> HIDE DEF d, v
<1>7. Shown' = Shown
  BY <1>1 DEF Shown, Hidden, work
<1>8. ~Delivered' /\ commits' = {} /\ broken' = {} /\ stagedList' = {}
  BY <1>1, <1>6 DEF BranchReviewed, CoversPatch, Delivered, release, work
<1>9. NothingStale'
  BY <1>1, <1>6, RoundsAreNat DEF NothingStale, AsksForRepair
<1>10. Validated' /\ CoversWork' /\ BranchReviewed'
  BY <1>1, <1>6, <1>8 DEF Validated, CoversWork, BranchReviewed
<1>11. CoversPatch'
  BY <1>1, <1>6, <1>7, <1>8 DEF CoversPatch
<1> QED BY <1>8, <1>9, <1>10, <1>11

\* The patch that reaches the checkout is what the reviewer was shown, but for
\* the files on side effect paths; the staging gate takes exactly that.
LEMMA ReviewInvPlacing ==
  ASSUME Tidy, TypeOK, ReviewInv, ApplyWorktree \/ ApplyFails \/ Stage
  PROVE  ReviewInv'
<1> USE DEF ReviewInv, Before, Deciding, Placing, Sending
<1>1. /\ pc \in {"apply", "stage"} /\ broken' = broken
      /\ UNCHANGED <<commits, onSide, release, secretSeen, listed, reports, round, run>>
  BY DEF ApplyWorktree, ApplyFails, Stage, End, Goto, GotoRecorded, records, work
<1>2. /\ commits = {} /\ ~Delivered /\ stagedList = {}
      /\ reports[round] # None /\ reports[round].run = run
  BY <1>1 DEF BranchReviewed, CoversPatch
<1>3. pc' \in {"stage", "commit", "ended"}
      /\ status' \in {status, "needs_human_staging", "failed", "staged"}
  BY DEF ApplyWorktree, ApplyFails, Stage, End, Goto, GotoRecorded
<1>4. ~Delivered'
  BY <1>1, <1>2, <1>3 DEF Delivered, release
<1>5. NothingStale' /\ Validated' /\ CoversWork' /\ BranchReviewed'
  BY <1>1, <1>2, <1>3, <1>4 DEF NothingStale, Validated, CoversWork, BranchReviewed
<1>6. CoversPatch'
  <2>1. Hidden' = Hidden
    BY <1>1 DEF Hidden
  <2>2. CASE ApplyWorktree
    <3>1. checkout' \ Hidden' = Shown /\ stagedList' = {}
      BY <1>2, <2>1, <2>2 DEF ApplyWorktree, Patch, Shown
    <3> QED BY <1>1, <1>2, <1>3, <2>2, <3>1 DEF CoversPatch, ApplyWorktree
  <2>3. CASE ApplyFails
    BY <2>3 DEF ApplyFails, End, CoversPatch
  <2>4. CASE Stage
    <3>1. checkout \ Hidden \subseteq reports[round].saw
      BY <2>4 DEF CoversPatch, Stage
    <3> QED BY <1>1, <1>2, <2>4, <3>1 DEF Stage, End, GotoRecorded, CoversPatch
  <2> QED BY <2>2, <2>3, <2>4
<1> QED BY <1>1, <1>5, <1>6

LEMMA ReviewInvCommit ==
  ASSUME Tidy, TypeOK, ReviewInv, Commit
  PROVE  ReviewInv'
<1> USE DEF ReviewInv, Before, Deciding, Placing, Sending
<1>1. /\ pc = "commit" /\ pc' \in {"ended", "push"}
      /\ UNCHANGED <<tree, index, broken, onSide, release, records, round, run>>
  BY DEF Commit, End, Goto
<1>2. commits = {} /\ ~Delivered /\ reports[round] # None /\ reports[round].run = run
  BY <1>1 DEF BranchReviewed, CoversPatch
<1>3. \/ pc' = "ended" /\ ~Delivered'
      \/ stagedList # {} /\ commits' = stagedList
  BY <1>1, <1>2 DEF Commit, End, Delivered, release
<1>4. pc' \in Sending \/ Delivered' => Reviewed'
  BY <1>1, <1>2, <1>3 DEF CoversPatch, Reviewed, records
<1>5. NothingStale' /\ Validated' /\ CoversWork' /\ CoversPatch'
  BY <1>1 DEF NothingStale, Validated, CoversWork, CoversPatch, records
<1>6. BranchReviewed'
  BY <1>1, <1>4 DEF BranchReviewed
<1> QED BY <1>1, <1>5, <1>6

LEMMA ReviewInvPublish ==
  ASSUME Tidy, TypeOK, ReviewInv, Push \/ CreatePR \/ RecordPR
  PROVE  ReviewInv'
<1> USE DEF ReviewInv, Before, Deciding, Placing, Sending
<1>1. /\ pc \in Sending /\ pc' \in Sending \cup {"ended"}
      /\ UNCHANGED <<work, records, round, run>>
  BY DEF Push, CreatePR, RecordPR, End, Goto
<1>2. Reviewed'
  BY <1>1 DEF BranchReviewed, Reviewed, work, records
<1>3. NothingStale' /\ Validated' /\ CoversWork' /\ CoversPatch' /\ BranchReviewed'
  BY <1>1, <1>2 DEF NothingStale, Validated, CoversWork, CoversPatch, BranchReviewed, records
<1> QED BY <1>1, <1>3 DEF work

LEMMA ReviewInvStutter ==
  ASSUME ReviewInv, UNCHANGED vars
  PROVE  ReviewInv'
<1>1. /\ UNCHANGED <<pc, run, round, tree, commits, broken, onSide, checkout, published>>
      /\ UNCHANGED <<testsExit, secretSeen, listed, reports, log, stagedList, status>>
  BY DEF vars, control, work, project, release, records
<1>2. Shown' = Shown /\ Hidden' = Hidden /\ Delivered' = Delivered /\ Reviewed' = Reviewed
  BY <1>1 DEF Shown, Hidden, Delivered, Reviewed
<1>3. NothingStale' /\ Validated' /\ CoversWork'
  BY <1>1, <1>2 DEF ReviewInv, NothingStale, Validated, CoversWork, AsksForRepair
<1>4. CoversPatch' /\ BranchReviewed'
  BY <1>1, <1>2 DEF ReviewInv, CoversPatch, BranchReviewed
<1> QED BY <1>1, <1>3, <1>4 DEF ReviewInv

LEMMA ReviewInvNext ==
  ASSUME Tidy, TypeOK, ReviewInv, [Next]_vars
  PROVE  ReviewInv'
  BY ReviewInvRerun, ReviewInvEnds, ReviewInvWorker, ReviewInvChecks, ReviewInvTests,
     ReviewInvReview, ReviewInvArbitrate, ReviewInvPlacing, ReviewInvCommit,
     ReviewInvPublish, ReviewInvStutter
  DEF Next, Step

\* Whatever workers, tests and reviewers do, however many rounds and runs there
\* are: a branch the manager has committed or pushed holds only what a reviewer
\* of the same run was shown and answered with LGTM.
THEOREM DeliveredReviewed ==
  ASSUME Tidy
  PROVE  Spec => []DeliveredWasReviewed
<1>1. Init => TypeOK /\ ReviewInv
  BY TypeInit, ReviewInvInit
<1>2. TypeOK /\ ReviewInv /\ [Next]_vars => (TypeOK /\ ReviewInv)'
  BY TypeNext, ReviewInvNext
<1>3. ReviewInv => DeliveredWasReviewed
  BY DEF ReviewInv, BranchReviewed, Reviewed, DeliveredWasReviewed
<1> QED BY <1>1, <1>2, <1>3, PTL DEF Spec

-----------------------------------------------------------------------------
(* What the decision guarantees of a pull request, for every instance.     *)

PassingStops == {"completed", "dangerous_command"}

\* The report of the round leaves nothing to repair.
Clean == reports[round] # None /\ Material(reports[round].findings) = {}

DecisionInv ==
  /\ pc \in Before \cup Deciding => ~Delivered
  /\ pc \in Placing => ~Delivered
  /\ pc \notin {"record", "ended"} => pr = "none"
  /\ pc \in Placing \cup Sending \/ Delivered => stop \in PassingStops
  /\ pc \in Placing \cup Sending /\ ~draftFlag => Clean
  /\ pr = "open" => Clean

\* What arbitration lets pass was not stopped, or was stopped by the one reason
\* an approval outweighs; it leaves findings only under a draft.
LEMMA PassedDecision ==
  ASSUME NEW review, NEW v, NEW max
  PROVE  LET d == Arbitrate(review, v, max)
         IN  /\ d \in {"proceed_to_pr", "draft_pr_with_blockers"} => v.stop \in PassingStops
             /\ d = "proceed_to_pr" => Material(review.findings) = {}
<1>1. v.stop \notin PassingStops => "unsafe_filesystem_access" \in BlockersFor(review, v)
  BY DEF PassingStops, BlockersFor, Blockers
<1>2. v.stop \notin PassingStops => MustBlock(review, v, max)
  BY <1>1 DEF MustBlock, AbsoluteBlockers
<1> QED BY <1>2 DEF Arbitrate

LEMMA DecisionInvArbitrate ==
  ASSUME TypeOK, DecisionInv, ArbitrateRound
  PROVE  DecisionInv'
<1> USE DEF DecisionInv, Before, Deciding, Placing, Sending
<1> DEFINE report == reports[round]
           v == Validation(testsExit)
           d == Arbitrate(report, v, MaxRounds)
<1>1. /\ pc = "arbitrate" /\ ~Delivered /\ pr = "none"
      /\ UNCHANGED <<release, stop, reports>>
  BY DEF ArbitrateRound
<1>2. /\ d \in {"proceed_to_pr", "draft_pr_with_blockers"} => stop \in PassingStops
      /\ d = "proceed_to_pr" => Material(report.findings) = {}
  BY PassedDecision DEF Validation
<1>3. AfterArbitration(d, round, MaxRounds) = "proceed"
        => d \in {"proceed_to_pr", "draft_pr_with_blockers"}
  BY Decisions DEF AfterArbitration
<1> HIDE DEF d, v
<1>4. \/ pc' \in {"ended", "worker"} /\ status' \in {"blocked", "repairing"}
      \/ /\ pc' = "apply" /\ status' = status /\ round' = round /\ report # None
         /\ AfterArbitration(d, round, MaxRounds) = "proceed"
         /\ draftFlag' = (draftFlag \/ d = "draft_pr_with_blockers")
  BY DEF ArbitrateRound, End, Goto, NextRound, d, v
<1>5. ~Delivered' /\ pr' = "none"
  BY <1>1, <1>4 DEF Delivered, release
<1>6. pc' = "apply" => stop' \in PassingStops /\ (~draftFlag' => Clean')
  BY <1>1, <1>2, <1>3, <1>4 DEF Clean
<1> QED BY <1>4, <1>5, <1>6

LEMMA DecisionInvPlacing ==
  ASSUME TypeOK, DecisionInv, ApplyWorktree \/ ApplyFails \/ Stage \/ Commit
  PROVE  DecisionInv'
<1> USE DEF DecisionInv, Before, Deciding, Placing, Sending
<1>1. /\ pc \in Placing /\ pc' \in {"stage", "commit", "push", "ended"}
      /\ UNCHANGED <<release, stop, reports, round, draftFlag>>
      /\ pc' \in {"stage", "commit"} =>
           status' \in {status, "needs_human_staging", "failed", "staged"}
  BY DEF ApplyWorktree, ApplyFails, Stage, Commit, End, Goto, GotoRecorded, records
<1>2. ~Delivered /\ pr = "none" /\ pr' = "none" /\ stop' \in PassingStops
  BY <1>1 DEF release
<1>3. pc' \in {"stage", "commit"} => ~Delivered'
  BY <1>1, <1>2 DEF Delivered, release
<1>4. ~draftFlag' /\ pc' # "ended" => Clean'
  BY <1>1 DEF Clean
<1> QED BY <1>1, <1>2, <1>3, <1>4

LEMMA DecisionInvPublish ==
  ASSUME TypeOK, DecisionInv, Push \/ CreatePR \/ RecordPR
  PROVE  DecisionInv'
<1> USE DEF DecisionInv, Before, Deciding, Placing, Sending
<1>1. /\ pc \in Sending /\ pc' \in {"pr", "record", "ended"}
      /\ UNCHANGED <<stop, reports, round, draftFlag>>
      /\ \/ pr' = pr
         \/ pr' = (IF draftFlag THEN "draft" ELSE "open") /\ pc' = "record"
      /\ pc' = "pr" => pr' = pr /\ pc = "push"
  <2>1. CASE Push BY <2>1 DEF Push, End, Goto, records
  <2>2. CASE CreatePR BY <2>2 DEF CreatePR, End, Goto, records
  <2>3. CASE RecordPR BY <2>3 DEF RecordPR, End, Goto, release, records
  <2> QED BY <2>1, <2>2, <2>3
<1>2. stop' \in PassingStops /\ Clean' = Clean
  BY <1>1 DEF Clean
<1>3. pr' = "open" => Clean'
  BY <1>1, <1>2
<1> QED BY <1>1, <1>2, <1>3

\* The steps before the decision, and the end of a run.
LEMMA DecisionInvOther ==
  ASSUME TypeOK, DecisionInv,
         \/ WorkerAttempt \/ CheckAttempt \/ CheckChanges \/ RunTests \/ Review
         \/ Rerun \/ HumanCleans \/ Interrupt \/ UNCHANGED vars
  PROVE  DecisionInv'
<1> USE DEF DecisionInv, Before, Deciding, Placing, Sending
<1>1. CASE WorkerAttempt \/ CheckAttempt \/ CheckChanges \/ RunTests \/ Review
  <2>1. /\ pc \in Before /\ pc' \in Before \cup Deciding \cup {"ended"}
        /\ UNCHANGED release
    BY <1>1 DEF WorkerAttempt, AfterAttempt, CheckAttempt, CheckChanges, RunTests, Review,
                End, Goto, NextRound
  <2>2. \A w, type : AfterValidationStatus(w, type) \in {"blocked", "failed"}
    BY DEF AfterValidationStatus
  <2>3. status' \in {status, "repairing", "failed", "blocked", "no_changes"}
    BY <1>1, <2>2 DEF WorkerAttempt, AfterAttempt, CheckAttempt, CheckChanges, RunTests,
                      Review, End, Goto, NextRound
  <2> QED BY <2>1, <2>3 DEF Delivered, release
<1>2. CASE Rerun
  BY <1>2 DEF Rerun, Delivered
<1>3. CASE HumanCleans \/ Interrupt
  <2>1. /\ pc' \in {pc, "ended"}
        /\ UNCHANGED <<release, stop, reports, round, draftFlag, status>>
    BY <1>3 DEF HumanCleans, Interrupt, End, control, records
  <2> QED BY <1>3, <2>1 DEF Clean, Delivered, release, HumanCleans, Interrupt, End, control
<1>4. CASE UNCHANGED vars
  BY <1>4 DEF vars, control, release, records, Clean, Delivered
<1> QED BY <1>1, <1>2, <1>3, <1>4

LEMMA DecisionInvHolds == Spec => []DecisionInv
<1>1. Init => DecisionInv
  BY DEF Init, DecisionInv, Before, Deciding, Placing, Sending, Delivered
<1>2. TypeOK /\ DecisionInv /\ [Next]_vars => DecisionInv'
  BY DecisionInvArbitrate, DecisionInvPlacing, DecisionInvPublish, DecisionInvOther
  DEF Next, Step
<1> QED BY <1>1, <1>2, RunTypeCorrect, PTL DEF Spec

\* A pull request with findings left to repair is a draft, also when the run
\* directory is an old one and when an old draft flag lies in it.
THEOREM ResidueStaysInDraft == Spec => []ResidueOnlyInDraft
<1>1. DecisionInv => ResidueOnlyInDraft
  BY DEF DecisionInv, Clean, ResidueOnlyInDraft
<1> QED BY <1>1, DecisionInvHolds, PTL

\* Nothing is delivered of a worker the monitor stopped, but for one reason.
THEOREM StoppedWorkIsKept == Spec => []StoppedWorkStays
<1>1. DecisionInv => StoppedWorkStays
  BY DEF DecisionInv, PassingStops, StoppedWorkStays
<1> QED BY <1>1, DecisionInvHolds, PTL
=============================================================================
