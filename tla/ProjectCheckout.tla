--------------------------- MODULE ProjectCheckout ---------------------------
(***************************************************************************)
(* The runs of one project in the one checkout of that project. A lane has *)
(* a leased worktree, but run-lane-agent.sh starts run-hoca-task.sh on the *)
(* project itself: a run works in a disposable worktree of its own and     *)
(* then publishes from the shared checkout, with its one HEAD, its one     *)
(* working tree and its one index. Every git command is a step.            *)
(*                                                                         *)
(* A run changes some files and makes at most one commit, known by its     *)
(* name; a branch is the set of the commits it has and its base has not,   *)
(* and the branch of a run is known by the name of the run. Runs may have  *)
(* files in common: a task that is run again, a run started by hand, a     *)
(* file no task declares. The working tree, the index and a commit say of  *)
(* each file whose changes it has; the scripts only see which files differ.*)
(***************************************************************************)
EXTENDS FiniteSets

CONSTANTS
  Runs,
  Files,
  Changes,  \* the files each run changes
  Dev,    \* the development branch, which is the default branch of origin
  None    \* nowhere

ASSUME CheckoutAssumption ==
  /\ Dev \notin Runs /\ None \notin Runs \cup {Dev}
  /\ Changes \in [Runs -> (SUBSET Files) \ {{}}]

Branches == Runs \cup {Dev}

\* Whose changes each file has: nobody's, or those of one run alone.
Contents == [Files -> SUBSET Runs]
Nothing == [f \in Files |-> {}]
Own(r) == [f \in Files |-> IF f \in Changes[r] THEN {r} ELSE {}]

\* What git diff --name-only and git status show of it.
Names(contents) == {f \in Files : contents[f] # {}}

VARIABLES
  pc,         \* what each run does next
  head,       \* the branch the checkout is on
  dirty,      \* the changes in the working tree that HEAD has not
  staged,     \* the changes in the index that HEAD has not
  local,      \* the commits of each branch of the repository
  remote,     \* the commits of each branch of origin
  prs,        \* the branches with an open pull request
  commit,     \* the changes in the commit of each run
  landed,     \* the branch that was checked out when the run committed
  opened,     \* the branch of the pull request each run opened
  url,        \* the branch of the pull request the run recorded as its own
  overlapped, \* the runs that were live together with another
  clashed     \* the runs that changed a file in which another's change was

vars == <<pc, head, dirty, staged, local, remote, prs, commit, landed, opened, url,
          overlapped, clashed>>

Unbranched == {"switch", "sync", "branch"}
Publishing == {"work", "checkout", "apply", "changed", "index", "add", "verify",
               "staged", "commit", "committed", "push", "open", "url"}
Restoring == {"restore", "back", "restore again", "back again"}
Live(r) == pc[r] \notin {"idle", "done"}

Init ==
  /\ pc = [r \in Runs |-> "idle"] /\ head = Dev
  /\ dirty = Nothing /\ staged = Nothing
  /\ local = [b \in Branches |-> {}] /\ remote = [b \in Branches |-> {}] /\ prs = {}
  /\ commit = [r \in Runs |-> Nothing]
  /\ landed = [r \in Runs |-> None] /\ opened = [r \in Runs |-> None]
  /\ url = [r \in Runs |-> None]
  /\ overlapped = {} /\ clashed = {}

Goto(r, at) == pc' = [pc EXCEPT ![r] = at]
Check(r, ok, at, else) == Goto(r, IF ok THEN at ELSE else)
Clean == dirty = Nothing

\* git takes along what is not committed, but refuses when a file with such
\* changes is not the same on both branches: the script then gives up.
Differing(b) ==
  UNION {Names(commit[c]) : c \in (local[head] \ local[b]) \cup (local[b] \ local[head])}
Checkout(b) == Names(dirty) \cap Differing(b) = {} /\ head' = b

tree == <<dirty, staged, clashed>>
refs == <<local, remote, prs>>
history == <<commit, landed, opened, url>>

-----------------------------------------------------------------------------
(* A run starts *)

\* Only a clean working tree will do. The branch is read just before, here in
\* the same step: a run that finds Dev will not switch, whatever is checked out
\* later.
Begin(r) ==
  /\ pc[r] = "idle"
  /\ Check(r, Clean, IF head = Dev THEN "sync" ELSE "switch", "done")
  /\ LET others == {s \in Runs : Live(s)} IN
       overlapped' = IF Clean /\ others # {} THEN overlapped \cup others \cup {r}
                     ELSE overlapped
  /\ UNCHANGED <<head, tree, refs, history>>

SwitchToDev(r) ==
  /\ pc[r] = "switch" /\ Checkout(Dev) /\ Goto(r, "sync")
  /\ UNCHANGED <<tree, refs, history, overlapped>>

\* The working tree is looked at again, and the development branch is fetched.
Sync(r) ==
  /\ pc[r] = "sync" /\ Check(r, Clean, "branch", "done")
  /\ UNCHANGED <<head, tree, refs, history, overlapped>>

\* Mutant: the branch of a run starts from what is checked out.
BranchFromHead(r) ==
  /\ pc[r] = "branch" /\ Check(r, Clean, "work", "done")
  /\ local' = IF Clean THEN [local EXCEPT ![r] = local[head]] ELSE local
  /\ UNCHANGED <<head, tree, remote, prs, history, overlapped>>

\* And again; then the branch starts from the development branch of origin, as
\* it does where one is found and HOCA_SYNC_DEV_BRANCH is not turned off.
CreateBranch(r) ==
  /\ pc[r] = "branch" /\ Check(r, Clean, "work", "done")
  /\ local' = IF Clean THEN [local EXCEPT ![r] = remote[Dev]] ELSE local
  /\ UNCHANGED <<head, tree, remote, prs, history, overlapped>>

\* The rounds go by in the disposable worktree, which is then removed.
Work(r) ==
  /\ pc[r] = "work" /\ Goto(r, "checkout")
  /\ UNCHANGED <<head, tree, refs, history, overlapped>>

-----------------------------------------------------------------------------
(* It publishes *)

CheckoutBranch(r) ==
  /\ pc[r] = "checkout" /\ Checkout(r) /\ Goto(r, "apply")
  /\ UNCHANGED <<tree, refs, history, overlapped>>

\* The patch goes on top of what a file has, if git finds its place; a file that
\* is new to the run is unpacked, over whatever is there.
ApplyPatch(r) ==
  /\ pc[r] = "apply" /\ Goto(r, "changed")
  /\ \E new \in SUBSET Changes[r] :
       dirty' = [f \in Files |-> IF f \in new THEN {r}
                                ELSE dirty[f] \cup Own(r)[f]]
  /\ clashed' = IF \A f \in Changes[r] : dirty[f] \subseteq {r} THEN clashed
                ELSE clashed \cup {r}
  /\ UNCHANGED <<head, staged, refs, history, overlapped>>

\* Mutant: files nobody intended may be changed too.
CheckIntendedOnly(r) ==
  /\ pc[r] = "changed" /\ Check(r, Changes[r] \subseteq Names(dirty), "index", "compare")
  /\ UNCHANGED <<head, tree, refs, history, overlapped>>

\* Safe staging wants the changed files to be the intended ones ...
CheckChanged(r) ==
  /\ pc[r] = "changed" /\ Check(r, Names(dirty) = Changes[r], "index", "compare")
  /\ UNCHANGED <<head, tree, refs, history, overlapped>>

\* ... and the index to be empty; it adds the files as they are by then ...
CheckIndex(r) ==
  /\ pc[r] = "index" /\ Check(r, staged = Nothing, "add", "compare")
  /\ UNCHANGED <<head, tree, refs, history, overlapped>>

Add(r) ==
  /\ pc[r] = "add" /\ Goto(r, "verify")
  /\ staged' = [f \in Files |-> IF f \in Changes[r] THEN dirty[f] ELSE staged[f]]
  /\ UNCHANGED <<head, dirty, clashed, refs, history, overlapped>>

\* ... and looks for them, and for nothing else, in the index, as the commit
\* script does once more.
CheckStaged(r) ==
  /\ \/ pc[r] = "verify" /\ Check(r, Names(staged) = Changes[r], "staged", "compare")
     \/ pc[r] = "staged" /\ Check(r, Names(staged) = Changes[r], "commit", "compare")
  /\ UNCHANGED <<head, tree, refs, history, overlapped>>

\* git commit takes the index, if there is anything in it by then, to the branch
\* that is checked out.
Commit(r) ==
  /\ pc[r] = "commit" /\ staged # Nothing /\ Goto(r, "committed")
  /\ commit' = [commit EXCEPT ![r] = staged] /\ landed' = [landed EXCEPT ![r] = head]
  /\ local' = [local EXCEPT ![head] = @ \cup {r}]
  /\ dirty' = [f \in Files |-> dirty[f] \ staged[f]] /\ staged' = Nothing
  /\ UNCHANGED <<head, remote, prs, opened, url, overlapped, clashed>>

SkipPullRequest(r) ==
  /\ pc[r] = "committed" /\ Goto(r, "restore")
  /\ UNCHANGED <<head, tree, refs, history, overlapped>>

\* No pull request is made from the default branch. What is pushed and what
\* the pull request is made from is read again each time.
CheckBranch(r) ==
  /\ pc[r] = "committed" /\ Check(r, head # Dev, "push", "compare")
  /\ UNCHANGED <<head, tree, refs, history, overlapped>>

Push(r) ==
  /\ pc[r] = "push" /\ remote' = [remote EXCEPT ![head] = local[head]] /\ Goto(r, "open")
  /\ UNCHANGED <<head, tree, local, prs, history, overlapped>>

\* A branch with nothing new, or with a pull request, gets none.
Proposable(b) == b \notin prs \cup {Dev} /\ remote[b] \ remote[Dev] # {}
OpenPullRequest(r) ==
  /\ pc[r] = "open" /\ Check(r, Proposable(head), "url", "compare")
  /\ \/ /\ Proposable(head)
        /\ prs' = prs \cup {head} /\ opened' = [opened EXCEPT ![r] = head]
     \/ ~Proposable(head) /\ UNCHANGED <<prs, opened>>
  /\ UNCHANGED <<head, tree, local, remote, commit, landed, url, overlapped>>

\* gh pr view names the pull request of the branch that is checked out by now;
\* if there is none, the run takes the one it has been told of.
RecordUrl(r) ==
  /\ pc[r] = "url" /\ Goto(r, "restore")
  /\ url' = [url EXCEPT ![r] = IF head \in prs THEN head ELSE opened[r]]
  /\ UNCHANGED <<head, tree, refs, commit, landed, opened, overlapped>>

-----------------------------------------------------------------------------
(* It ends *)

\* A run that delivered goes back to the development branch, unless the
\* working tree is dirty, and its trap on exit does so once more.
CheckRestore(r) ==
  /\ \/ /\ pc[r] = "restore"
        /\ Check(r, Clean /\ head # Dev, "back", "restore again")
     \/ /\ pc[r] = "restore again"
        /\ Check(r, Clean /\ head # Dev, "back again", "compare")
  /\ UNCHANGED <<head, tree, refs, history, overlapped>>

Restore(r) ==
  /\ \/ pc[r] = "back" /\ Goto(r, "restore again")
     \/ pc[r] = "back again" /\ Goto(r, "compare")
  /\ Checkout(Dev)
  /\ UNCHANGED <<tree, refs, history, overlapped>>

\* A branch without pull request that is where its base is, is deleted ...
CompareBranch(r) ==
  /\ pc[r] = "compare"
  /\ Check(r, url[r] = None /\ local[r] = remote[Dev], "delete", "done")
  /\ UNCHANGED <<head, tree, refs, history, overlapped>>

\* ... which git refuses for the branch that is checked out.
DeleteBranch(r) ==
  /\ pc[r] = "delete" /\ Goto(r, "done")
  /\ local' = IF head = r THEN local ELSE [local EXCEPT ![r] = {}]
  /\ UNCHANGED <<head, tree, remote, prs, history, overlapped>>

\* Any command may fail, a round may block the run, safe staging may refuse a
\* file, people may have to stage, a signal may come: the trap cleans up, once
\* there is something to clean up.
GiveUp(r) ==
  /\ \/ pc[r] \in Unbranched /\ Goto(r, "done")
     \/ pc[r] \in Publishing /\ Goto(r, "compare")
     \/ pc[r] \in Restoring /\ Goto(r, "restore again")
  /\ UNCHANGED <<head, tree, refs, history, overlapped>>

\* The process is killed, and everything stays as it is.
Kill(r) ==
  /\ Live(r) /\ Goto(r, "done")
  /\ UNCHANGED <<head, tree, refs, history, overlapped>>

Starts(r) == Begin(r) \/ SwitchToDev(r) \/ Sync(r) \/ CreateBranch(r) \/ Work(r)
Stages(r) ==
  \/ CheckoutBranch(r) \/ ApplyPatch(r) \/ CheckChanged(r) \/ CheckIndex(r)
  \/ Add(r) \/ CheckStaged(r)
Delivers(r) ==
  \/ Commit(r) \/ SkipPullRequest(r) \/ CheckBranch(r) \/ Push(r)
  \/ OpenPullRequest(r) \/ RecordUrl(r)
Ends(r) ==
  \/ CheckRestore(r) \/ Restore(r) \/ CompareBranch(r) \/ DeleteBranch(r)
  \/ GiveUp(r) \/ Kill(r)

Next == \E r \in Runs : Starts(r) \/ Stages(r) \/ Delivers(r) \/ Ends(r)

Spec == Init /\ [][Next]_vars

-----------------------------------------------------------------------------
(* Properties *)

\* Every variable has its type, and a file that differs in the index differs in
\* the working tree.
CheckoutTypeOK ==
  /\ pc \in [Runs -> {"idle", "compare", "delete", "done"}
                       \cup Unbranched \cup Publishing \cup Restoring]
  /\ head \in Branches
  /\ staged \in Contents /\ dirty \in Contents /\ Names(staged) \subseteq Names(dirty)
  /\ local \in [Branches -> SUBSET Runs] /\ remote \in [Branches -> SUBSET Runs]
  /\ prs \subseteq Branches
  /\ commit \in [Runs -> Contents]
  /\ landed \in [Runs -> Branches \cup {None}]
  /\ opened \in [Runs -> Branches \cup {None}] /\ url \in [Runs -> Branches \cup {None}]
  /\ overlapped \subseteq Runs /\ clashed \subseteq Runs

\* As long as no run applied its patch to a file in which another run's change
\* was, every commit has the changes of the run that makes it, all of them and no
\* others -- whatever other runs do to the working tree and the index between the
\* checks of safe staging and git commit, and whatever failed and killed runs
\* left there. The checks compare names: once two runs met in one file, a commit
\* may have anything of any run, of those that did not meet as well.
CommitsAreOneRuns ==
  clashed = {} => \A r \in Runs : landed[r] # None => commit[r] = Own(r)

\* A run that no other run overlapped commits all its changes and no others, on
\* its own branch, keeps that commit there, and records a pull request of that
\* branch that brings its own commit alone -- on whatever branch, with whatever in
\* the working tree, in the index and on the development branch earlier runs left
\* the checkout, overlapped ones and clashes among them. Its branch starts from
\* origin; from the local branch it would take along what others left there.
AloneDeliversItsWork ==
  \A r \in Runs \ overlapped :
    /\ landed[r] # None => landed[r] = r /\ r \in local[r] /\ commit[r] = Own(r)
    /\ url[r] # None => url[r] = r /\ remote[r] \ remote[Dev] = {r}
=============================================================================
