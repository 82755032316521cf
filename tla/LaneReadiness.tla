---------------------------- MODULE LaneReadiness ----------------------------
(***************************************************************************)
(* Is a lane ready to merge? The fan-out of review_fanout.py, the two reads*)
(* of GitHub in pr_readiness.py, and the reads of the checkout and the     *)
(* repair brief in merge_readiness.py. One job runs at a time, and what it *)
(* looks at changes between its reads.                                     *)
(***************************************************************************)
EXTENDS ReviewSignals

CONSTANTS
  Sources,      \* the review sources, as ReviewSources gives them
  Outputs,      \* what a source may say
  Workers,      \* HOCA_REVIEW_FANOUT_MAX_WORKERS
  Fanout,       \* HOCA_REVIEW_FANOUT_ENABLED
  Checks,       \* checks a pull request may have
  Artifacts,    \* what the run directory of the lane may hold
  SecretFiles, HighRiskFiles, UiFiles

\* The lists of files of a run directory, the words of its status, whether
\* there is a screenshot, and whether one is required.
ArtifactType == [after : SUBSET STRING, changed : SUBSET STRING, reviewed : SUBSET STRING,
                 reviewedAfter : SUBSET STRING, ref : BOOLEAN, base : BOOLEAN,
                 screenshot : BOOLEAN, required : BOOLEAN]

ASSUME ReadinessAssumption ==
  /\ Artifacts \subseteq ArtifactType /\ Workers \in Nat
  /\ Names \in Seq(STRING)
  /\ Sources \in Seq([name : ToSet(Names), where : Nat, command : BOOLEAN])

VARIABLES
  job,     \* the job that runs or ran last
  github,  \* the pull request
  repo,    \* the checkout of the lane
  brief    \* merge-repair-brief.json of the run directory, or None

vars == <<job, github, repo, brief>>

-----------------------------------------------------------------------------
\* What the code makes of the status and the conclusion of a check; stale stands
\* for every other word.
CheckStates == {"queued", "success", "failure", "stale"}
Decisions == {"none", "approved", "changes_requested", "review_required"}

\* What is left out is empty in every answer about the pull request.
PrType == [open : BOOLEAN, draft : BOOLEAN, conflicts : BOOLEAN, protected : BOOLEAN,
           decision : Decisions, checks : UNION {[S -> CheckStates] : S \in SUBSET Checks},
           leftOut : SUBSET {"state", "merge state"}]

Pending(pr) == pr.decision \in {"changes_requested", "review_required"}

\* The checkout is on a branch, its index has no whitespace errors, the base
\* resolves and HEAD contains it, changed files hold conflict markers, HEAD
\* differs from the base.
RepoStates(files) ==
  {r \in [named : BOOLEAN, tidy : BOOLEAN, resolves : BOOLEAN, contains : BOOLEAN,
          markers : SUBSET files, differs : BOOLEAN] : r.contains => r.resolves}

NoPr == [open |-> FALSE, draft |-> FALSE, conflicts |-> FALSE, protected |-> FALSE,
         decision |-> "none", checks |-> <<>>, leftOut |-> {}]
NoRepo == [named |-> FALSE, tidy |-> FALSE, contains |-> FALSE, resolves |-> FALSE,
           markers |-> {}, differs |-> FALSE]

\* The first list that is not empty.
FirstList(a, b) == IF a # {} THEN a ELSE b
ChangedFiles(run) == FirstList(run.after, run.changed)
ReviewedFiles(run) == FirstList(run.reviewed, run.reviewedAfter)

Over == job.at = "over"
Free == job.kind = "none"
Running(kind) == job.kind = kind /\ ~Over

\* A read that times out is an exception, and the job gives no result.
Raise == job' = [job EXCEPT !.at = "over", !.raised = TRUE] /\ UNCHANGED <<github, repo, brief>>

NewJob(kind, at, run) ==
  [kind |-> kind, at |-> at, run |-> run, raised |-> FALSE, loaded |-> <<>>, signals |-> {},
   ci |-> "missing", status |-> "not_ready", issues |-> {}, sent |-> FALSE]

Init ==
  /\ job = NewJob("none", "over", None)
  /\ github = NoPr /\ repo = NoRepo /\ brief = None

\* The caller takes the result; what the next job looks at is anything.
Return ==
  /\ Over /\ ~Free
  /\ job' = NewJob("none", "over", None) /\ github' = NoPr /\ repo' = NoRepo
  /\ UNCHANGED brief

-----------------------------------------------------------------------------
(* Review signals *)

StartSignals ==
  /\ Free /\ job' = NewJob("signals", "load", None)
  /\ UNCHANGED <<github, repo, brief>>

Loaded == {l.source : l \in ToSet(job.loaded)}

\* The pool starts the sources in their order and their results arrive in any.
Arriving(i) ==
  /\ Running("signals") /\ Sources[i] \notin Loaded
  /\ i <= Len(job.loaded) + InFlight(Fanout, Workers, Len(Sources))

Load(i) ==
  /\ Arriving(i)
  /\ \E raw \in Outputs \cup {None} :
       job' = [job EXCEPT !.loaded = Append(@, [source |-> Sources[i], raw |-> raw])]
  /\ UNCHANGED <<github, repo, brief>>

\* Only the failure to start a command is caught.
LoadTimesOut(i) == Arriving(i) /\ Sources[i].command /\ Raise

Collect ==
  /\ Running("signals") /\ Len(job.loaded) = Len(Sources)
  /\ job' = [job EXCEPT !.at = "over", !.signals = Merged(Sorted(job.loaded))]
  /\ UNCHANGED <<github, repo, brief>>

-----------------------------------------------------------------------------
(* The pull request *)

Unsettled(pr) == \E c \in DOMAIN pr.checks : pr.checks[c] \in {"queued", "failure"}

\* GitHub's verdict on the pull request of this moment. It is not known while
\* it is computed.
MergeStates(pr) ==
  IF "merge state" \in pr.leftOut THEN {""}
  ELSE {IF pr.draft THEN "DRAFT"
        ELSE IF pr.conflicts THEN "DIRTY"
        ELSE IF pr.protected /\ Pending(pr) THEN "BLOCKED"
        ELSE IF Unsettled(pr) THEN "UNSTABLE"
        ELSE "CLEAN", "UNKNOWN"}

\* Without a reference to the pull request the report is done.
StartPr ==
  /\ Free
  /\ \E run \in Artifacts, pr \in PrType :
       /\ job' = IF run.ref THEN NewJob("pr", "checks", run)
                 ELSE [NewJob("pr", "over", run) EXCEPT !.issues = {"reference"}]
       /\ github' = pr
  /\ UNCHANGED <<repo, brief>>

\* An answer gh does not give, or gives no sense to, is unknown; so is a pull
\* request without checks, and one with a check of another conclusion.
ClassifyChecks(answered, checks) ==
  LET states == {checks[c] : c \in DOMAIN checks}
  IN  IF ~answered \/ states = {} THEN "unknown"
      ELSE IF "queued" \in states THEN "pending"
      ELSE IF "failure" \in states THEN "failed"
      ELSE IF states = {"success"} THEN "passed"
      ELSE "unknown"

ReadChecks ==
  /\ Running("pr") /\ job.at = "checks"
  /\ \E answered \in BOOLEAN :
       LET ci == ClassifyChecks(answered, github.checks)
       IN job' = [job EXCEPT !.at = "view", !.ci = ci,
                    !.status = IF ci = "passed" THEN "ready"
                               ELSE IF ci = "pending" THEN "not_ready" ELSE "blocked",
                    !.issues = IF ci = "passed" THEN {} ELSE {ci}]
  /\ UNCHANGED <<github, repo, brief>>

\* A state that is left out is taken for an open one.
Closed(pr) == ~pr.open /\ "state" \notin pr.leftOut

\* Mutant: the state GitHub computes is left to GitHub.
ViewWithoutState(answered, pr, state) ==
  IF ~answered \/ Closed(pr) THEN "blocked"
  ELSE IF pr.draft THEN "not_ready"
  ELSE IF Pending(pr) THEN "draft_ready"
  ELSE "ready"

\* gh names the mergeability in a word, which is never the FALSE the code
\* compares it with: the merge state decides, if there is one.
ClassifyView(answered, pr, state) ==
  IF ~answered \/ Closed(pr) THEN "blocked"
  ELSE IF pr.draft THEN "not_ready"
  ELSE IF state \notin {"CLEAN", "MERGEABLE", ""} THEN "blocked"
  ELSE IF Pending(pr) THEN "draft_ready"
  ELSE "ready"

AfterView(status, view) ==
  IF view = "ready" THEN status
  ELSE IF view = "draft_ready" THEN (IF status = "ready" THEN view ELSE status)
  ELSE IF view = "not_ready" THEN (IF status = "blocked" THEN status ELSE view)
  ELSE "blocked"

NeedsScreenshot(run) ==
  run.required /\ ChangedFiles(run) \cap UiFiles # {} /\ ~run.screenshot

ReadView ==
  /\ Running("pr") /\ job.at = "view"
  /\ \E answered \in BOOLEAN, state \in MergeStates(github) :
       LET view   == ClassifyView(answered, github, state)
           status == AfterView(job.status, view)
           last   == IF NeedsScreenshot(job.run) /\ status \in {"ready", "draft_ready"}
                     THEN "blocked" ELSE status
           issues == job.issues \cup (IF view = "ready" THEN {} ELSE {view})
                       \cup (IF NeedsScreenshot(job.run) THEN {"screenshot"} ELSE {})
       IN job' = [job EXCEPT !.at = "over", !.status = last,
                             !.issues = IF last = "ready" THEN {} ELSE issues]
  /\ UNCHANGED <<github, repo, brief>>

PrTimesOut == Running("pr") /\ Raise

\* What happens to the pull request meanwhile.
PrMoves ==
  /\ Running("pr")
  /\ \/ \E c \in DOMAIN github.checks, s \in CheckStates \ {"queued"} :
          github.checks[c] = "queued" /\ github' = [github EXCEPT !.checks[c] = s]
     \/ github' = [github EXCEPT !.checks = [c \in DOMAIN @ |-> "queued"]]
     \/ \E d \in Decisions : github' = [github EXCEPT !.decision = d]
     \/ github' = [github EXCEPT !.draft = ~@]
     \/ github' = [github EXCEPT !.open = FALSE]
     \/ github' = [github EXCEPT !.conflicts = ~@]
  /\ UNCHANGED <<job, repo, brief>>

-----------------------------------------------------------------------------
(* The checkout *)

StartLocal ==
  /\ Free
  /\ \E run \in Artifacts : \E r \in RepoStates(ChangedFiles(run)) :
       /\ job' = [NewJob("local", "branch", run) EXCEPT !.status = "ready"]
       /\ repo' = r
  /\ UNCHANGED <<github, brief>>

\* An issue that is found, and the status when it is.
Found(cond, issue, status) ==
  IF cond THEN [job EXCEPT !.issues = @ \cup {issue}, !.status = status] ELSE job

CheckBranch ==
  /\ Running("local") /\ job.at = "branch"
  /\ job' = [Found(~repo.named, "detached", "blocked") EXCEPT !.at = "diff check"]
  /\ UNCHANGED <<github, repo, brief>>

CheckDiff ==
  /\ Running("local") /\ job.at = "diff check"
  /\ job' = [Found(~repo.tidy, "whitespace", "blocked") EXCEPT !.at = "base"]
  /\ UNCHANGED <<github, repo, brief>>

\* A missing base makes the lane not ready, whatever was found before.
CheckBase ==
  /\ Running("local") /\ job.at = "base"
  /\ job' = IF ~job.run.base
            THEN [Found(TRUE, "no base", "not_ready") EXCEPT !.at = "diff"]
            ELSE IF repo.contains THEN [job EXCEPT !.at = "diff"]
            ELSE [job EXCEPT !.at = "plan", !.issues = @ \cup {"diverged"}]
  /\ UNCHANGED <<github, repo, brief>>

\* evaluate_merge_repair_plan looks at the base and the files anew.
Plan(run, r) ==
  LET conflict  == r.markers \cap ChangedFiles(run) # {}
      readiness == IF ~run.base THEN "not_ready" ELSE IF r.contains THEN "ready"
                   ELSE IF conflict THEN "merge_conflict" ELSE "needs_rebase"
  IN  [readiness |-> readiness,
       escalate  |-> ~run.base \/ (readiness = "merge_conflict"
                                    /\ ChangedFiles(run) \cap HighRiskFiles # {}),
       auto      |-> readiness = "needs_rebase"]

\* The brief is written when there is something to repair.
Brief(plan) == IF plan.readiness \in {"merge_conflict", "needs_rebase"} THEN plan ELSE brief

\* Mutant: the report takes the words of the plan.
PlanWords ==
  /\ Running("local") /\ job.at = "plan"
  /\ brief' = Brief(Plan(job.run, repo))
  /\ job' = [job EXCEPT !.at = "diff", !.status = Plan(job.run, repo).readiness]
  /\ UNCHANGED <<github, repo>>

PlanRepair ==
  /\ Running("local") /\ job.at = "plan"
  /\ brief' = Brief(Plan(job.run, repo))
  /\ job' = [job EXCEPT !.at = "diff", !.status = "blocked",
                        !.issues = @ \cup (IF Plan(job.run, repo).escalate THEN {"escalate"} ELSE {})]
  /\ UNCHANGED <<github, repo>>

\* Mutant: an empty diff outweighs what was found before.
EmptyDiffWins(status, base, r) ==
  IF ~base \/ ~r.differs THEN "not_ready" ELSE IF ~r.resolves THEN "blocked" ELSE status

AfterDiff(status, base, r) ==
  IF base /\ ~r.resolves THEN "blocked"
  ELSE IF (~base \/ ~r.differs) /\ status = "ready" THEN "not_ready"
  ELSE status

\* The last reads: the diff against the base, the list of reviewed files, and
\* the names of the changed ones.
Judge ==
  /\ Running("local") /\ job.at = "diff"
  /\ LET run        == job.run
         changed    == ChangedFiles(run)
         reviewed   == ReviewedFiles(run)
         unreviewed == reviewed # {} /\ ~(changed \subseteq reviewed)
         secret     == changed \cap SecretFiles # {}
         s1 == AfterDiff(job.status, run.base, repo)
         s2 == IF (reviewed = {} /\ s1 = "ready") \/ unreviewed \/ secret THEN "blocked" ELSE s1
         s3 == IF s2 = "ready" /\ changed = {} THEN "not_ready" ELSE s2
     IN job' = [job EXCEPT !.at = "over", !.status = s3,
                  !.issues = @ \cup (IF run.base /\ ~repo.resolves THEN {"diff failed"} ELSE {})
                               \cup (IF run.base /\ repo.resolves /\ ~repo.differs
                                     THEN {"no diff"} ELSE {})
                               \cup (IF reviewed = {} THEN {"no evidence"} ELSE {})
                               \cup (IF unreviewed THEN {"unreviewed"} ELSE {})
                               \cup (IF secret THEN {"secret"} ELSE {})
                               \cup (IF s2 = "ready" /\ changed = {} THEN {"no files"} ELSE {})]
  /\ UNCHANGED <<github, repo, brief>>

\* send_merge_repair_through_adapter: the brief goes to the adapter when the
\* plan of this moment can be repaired.
Repair ==
  /\ Free
  /\ \E run \in Artifacts, sender \in BOOLEAN : \E r \in RepoStates(ChangedFiles(run)) :
       /\ repo' = r /\ brief' = Brief(Plan(run, r))
       /\ job' = [NewJob("repair", "over", run) EXCEPT !.sent = sender /\ Plan(run, r).auto]
  /\ UNCHANGED github

LocalTimesOut == Running("local") /\ Raise

\* What happens to the checkout and its base meanwhile.
RepoMoves ==
  /\ Running("local")
  /\ \/ repo' = [repo EXCEPT !.contains = FALSE]
     \/ \E m \in SUBSET ChangedFiles(job.run) :
          repo.resolves /\ repo' = [repo EXCEPT !.contains = m = {}, !.markers = m]
     \/ repo' = [repo EXCEPT !.named = ~@]
     \/ repo' = [repo EXCEPT !.tidy = ~@]
     \/ repo' = [repo EXCEPT !.differs = ~@]
  /\ UNCHANGED <<job, github, brief>>

-----------------------------------------------------------------------------
Next ==
  \/ Return
  \/ StartSignals \/ Collect
  \/ \E i \in DOMAIN Sources : Load(i) \/ LoadTimesOut(i)
  \/ StartPr \/ ReadChecks \/ ReadView \/ PrTimesOut \/ PrMoves
  \/ StartLocal \/ CheckBranch \/ CheckDiff \/ CheckBase \/ PlanRepair \/ Judge
  \/ Repair \/ LocalTimesOut \/ RepoMoves

Spec == Init /\ [][Next]_vars

-----------------------------------------------------------------------------
(* Properties *)

States == {"not_ready", "ready", "draft_ready", "blocked"}
Done(kind) == job.kind = kind /\ Over /\ ~job.raised

\* The values of the variables; the status is one the contract of a report
\* accepts (fleet_contracts.py:55).
ReadinessTypeOK ==
  /\ job.kind \in {"none", "signals", "pr", "local", "repair"}
  /\ job.status \in States /\ job.ci \in {"missing", "unknown", "pending", "failed", "passed"}
  /\ github = NoPr \/ github \in PrType
  /\ repo = NoRepo \/ repo \in RepoStates(ChangedFiles(job.run))
  /\ brief = None \/ brief.readiness \in {"merge_conflict", "needs_rebase"}

\* The signals do not depend on the order in which adapters finish: of equal
\* ones the list holds the one of the source that is first by name.
FirstSourceWins ==
  Done("signals") =>
    \A k \in job.signals, l \in ToSet(job.loaded) :
      (\E s \in Normalize(l.raw, l.source.name) : Key(s) = Key(k.signal)) =>
        l.source = k.from \/ ~Before(l, [source |-> k.from])

\* No verdict is lost in the merge: what one source blocks is among the blocked
\* signals, although another says the same of it with another verdict.
NoVerdictLost ==
  Done("signals") =>
    \A l \in ToSet(job.loaded) : \A s \in Normalize(l.raw, l.source.name) :
      \E k \in Aggregated(job.signals)[s.verdict] :
        k.signal.id = s.id /\ k.signal.summary = s.summary

\* A pull request reported ready was so at one moment, that of the second read:
\* no draft and with no pending review, open unless GitHub leaves out the state,
\* and unless it leaves out the merge state without conflicts and with no check
\* that failed or still runs, although the checks were read before and may have
\* been started anew. Without the merge state only the earlier read of the checks
\* speaks for them, and nothing for the conflicts.
ReadyWasReadyAtOnce ==
  [][Running("pr") /\ Done("pr")' /\ job'.status = "ready" =>
       /\ job.ci = "passed" /\ ~github.draft /\ ~Pending(github)
       /\ github.open \/ "state" \in github.leftOut
       /\ \/ ~github.conflicts /\ ~Unsettled(github)
          \/ "merge state" \in github.leftOut]_vars

Blocking == {"detached", "whitespace", "diverged", "diff failed", "unreviewed", "secret"}

\* What one check of the checkout finds no later one takes back: the lane is
\* ready only when nothing was found, and blocked when something that blocks was
\* found and its base is known.
FindingsStand ==
  Done("local") =>
    /\ job.status = "ready" <=> job.issues = {}
    /\ job.issues \cap Blocking # {} /\ job.run.base => job.status = "blocked"
=============================================================================
