------------------------ MODULE ProjectCheckoutProofs ------------------------
(***************************************************************************)
(* Theorems about ProjectCheckout, for any number of runs.                 *)
(***************************************************************************)
EXTENDS ProjectCheckout, TLAPS

-----------------------------------------------------------------------------
(* The inductive invariant *)

\* Before its branch is there and before its changes are; between the check of
\* the changed files and the commit; between the checkout of the run's branch and
\* the end; before the commit; before the URL.
Unapplied == {"work", "checkout", "apply"} \cup Unbranched
Passed == {"index", "add", "verify", "staged", "commit"}
Applied == Passed \cup {"changed"}
CheckedOut == Applied \cup {"apply", "committed", "push", "open", "url"}
Uncommitted == {"idle"} \cup Unapplied \cup Applied
Unrecorded == Uncommitted \cup {"committed", "push", "open", "url"}

\* The working tree is the lock, as long as no two changes meet in one file: the
\* check of the changed files lets a run pass only when the tree has its own
\* changes and no others, and from then on the tree has them until the commit
\* takes them, so no second run passes.
Exclusive ==
  clashed = {} =>
    /\ \A f \in Files : \A s, t \in dirty[f] : s = t /\ f \in Changes[s]
    /\ \A f \in Files : staged[f] \subseteq dirty[f]
    /\ \A r \in Runs : pc[r] \in Applied => \A f \in Changes[r] : r \in dirty[f]
    /\ \A r \in Runs : pc[r] \in Passed => \A f \in Files : staged[f] \subseteq {r}
    /\ \A r, s \in Runs : pc[r] \in Passed /\ pc[s] \in Passed => r = s
    /\ \A r \in Runs : pc[r] \in {"staged", "commit"} => staged = Own(r)

\* A commit is on the branch it was made on and on those that started from the
\* development branch of origin after it got there.
History ==
  /\ \A r \in Runs : pc[r] \in Uncommitted => landed[r] = None
  /\ \A r \in Runs : pc[r] \in Unrecorded => url[r] = None
  /\ remote[Dev] \subseteq local[Dev]
  /\ \A r \in Runs, b \in Branches :
       r \in local[b] \cup remote[b] => landed[r] \in {b, Dev}

\* Who is alone, and that nobody else comes back to its branch.
AloneNow ==
  \A r \in Runs \ overlapped : \A s \in Runs \ {r} :
    /\ Live(r) => ~Live(s)
    /\ pc[s] \in CheckedOut => head # r

\* What a run that is alone finds in the working tree and in the index.
TreeOf(r) ==
  /\ pc[r] \in Unapplied => dirty = Nothing /\ staged = Nothing
  /\ pc[r] \in Applied => dirty = Own(r) /\ staged \in {Nothing, Own(r)}
  /\ pc[r] \in {"staged", "commit"} => staged = Own(r)
AloneTree == \A r \in Runs \ overlapped : TreeOf(r)

\* What a run that is alone has reached.
AloneSteps ==
  \A r \in Runs \ overlapped :
    /\ pc[r] \in CheckedOut => head = r
    /\ local[r] \subseteq remote[Dev] \cup {r}
    /\ pc[r] = "delete" => landed[r] = None
    /\ pc[r] = "open" => remote[r] = local[r]
    /\ pc[r] = "url" => opened[r] = r /\ remote[r] \ remote[Dev] = {r}

IInv ==
  /\ CheckoutTypeOK /\ Exclusive /\ CommitsAreOneRuns /\ History
  /\ AloneNow /\ AloneTree /\ AloneSteps /\ AloneDeliversItsWork

-----------------------------------------------------------------------------
(* What the files have *)

\* The names of a run's own changes are those of the files it changes, and there
\* are some.
LEMMA OwnNames ==
  ASSUME NEW r \in Runs
  PROVE  /\ Own(r) \in Contents /\ Names(Own(r)) = Changes[r]
         /\ Changes[r] \subseteq Files /\ Changes[r] # {}
         /\ Nothing \in Contents /\ Names(Nothing) = {} /\ Own(r) # Nothing
<1>1. Changes[r] \subseteq Files /\ Changes[r] # {}
  BY CheckoutAssumption
<1>2. Own(r) \in Contents /\ Nothing \in Contents
  BY DEF Own, Nothing, Contents
<1>3. Names(Own(r)) = Changes[r] /\ Names(Nothing) = {}
  BY <1>1 DEF Names, Own, Nothing
<1> QED BY <1>1, <1>2, <1>3

\* Contents without names are nothing, and contents of one run with the names of
\* what it changes are its own changes.
LEMMA ByName ==
  ASSUME NEW c \in Contents
  PROVE  /\ Names(c) = {} => c = Nothing
         /\ \A r \in Runs : Names(c) = Changes[r] /\ (\A f \in Files : c[f] \subseteq {r})
                            => c = Own(r)
<1>1. Names(c) = {} => c = Nothing
  BY DEF Names, Nothing, Contents
<1>2. ASSUME NEW r \in Runs, Names(c) = Changes[r], \A f \in Files : c[f] \subseteq {r}
     PROVE  c = Own(r)
  <2>1. \A f \in Files : c[f] = IF f \in Changes[r] THEN {r} ELSE {}
    BY <1>2 DEF Names
  <2> QED BY <2>1 DEF Own, Contents
<1> QED BY <1>1, <1>2

\* A patch brings the changes of its run to the files it changes, leaves the
\* other files alone, and replaces nothing unless it meets another's change.
LEMMA Patched ==
  ASSUME CheckoutTypeOK, NEW r \in Runs, ApplyPatch(r)
  PROVE  /\ dirty' \in Contents
         /\ \A f \in Files : dirty'[f] \subseteq dirty[f] \cup {r}
         /\ \A f \in Files \ Changes[r] : dirty'[f] = dirty[f]
         /\ \A f \in Changes[r] : r \in dirty'[f]
         /\ clashed' = {} =>
              /\ clashed = {} /\ \A f \in Changes[r] : dirty[f] \subseteq {r}
              /\ \A f \in Files : dirty[f] \subseteq dirty'[f]
<1>1. PICK new \in SUBSET Changes[r] :
        dirty' = [f \in Files |-> IF f \in new THEN {r} ELSE dirty[f] \cup Own(r)[f]]
  BY DEF ApplyPatch
<1>2. Changes[r] \subseteq Files
  BY OwnNames
<1>3. \A f \in Files : dirty[f] \subseteq Runs /\ Own(r)[f] = IF f \in Changes[r] THEN {r} ELSE {}
  BY DEF CheckoutTypeOK, Contents, Own
<1>4. \A f \in Files : dirty'[f] = IF f \in new THEN {r}
                                 ELSE IF f \in Changes[r] THEN dirty[f] \cup {r} ELSE dirty[f]
  BY <1>1, <1>3
<1>5. dirty' \in Contents
  BY <1>1, <1>3 DEF Contents
<1>6. clashed' = {} => clashed = {} /\ \A f \in Changes[r] : dirty[f] \subseteq {r}
  BY DEF ApplyPatch
<1> QED BY <1>2, <1>4, <1>5, <1>6

-----------------------------------------------------------------------------
(* The steps *)

\* What the actions that only move a run towards its end do.
LEMMA Retreats ==
  ASSUME CheckoutTypeOK, NEW r \in Runs, CheckRestore(r) \/ Restore(r) \/ GiveUp(r)
  PROVE  /\ \E at \in {"done", "compare", "restore again", "back", "back again"} :
              pc' = [pc EXCEPT ![r] = at]
         /\ Live(r) /\ head' \in {head, Dev}
         /\ UNCHANGED <<dirty, staged, local, remote, prs, commit,
                        landed, opened, url, overlapped, clashed>>
<1>1. CASE CheckRestore(r)
  BY <1>1 DEF CheckRestore, Check, Goto, Live, tree, refs, history
<1>2. CASE Restore(r)
  BY <1>2 DEF Restore, Checkout, Goto, Live, tree, refs, history
<1>3. CASE GiveUp(r)
  BY <1>3 DEF GiveUp, Goto, Live, Unbranched, Publishing, Restoring, tree, refs, history
<1> QED BY <1>1, <1>2, <1>3

\* Every step keeps the types.
LEMMA TypeStep == CheckoutTypeOK /\ [Next]_vars => CheckoutTypeOK'
<1> SUFFICES ASSUME CheckoutTypeOK, [Next]_vars PROVE CheckoutTypeOK'
  OBVIOUS
<1> USE CheckoutAssumption
<1>0. CASE UNCHANGED vars
  BY <1>0 DEF vars, CheckoutTypeOK, Branches, Unbranched, Publishing, Restoring
<1>1. ASSUME NEW r \in Runs, Starts(r) \/ Stages(r) \/ Delivers(r) \/ Ends(r)
     PROVE CheckoutTypeOK'
  <2>1. CASE Begin(r)
    BY <2>1 DEF Begin, Check, Live, tree, refs, history, Goto, CheckoutTypeOK,
         Branches, Unbranched, Publishing, Restoring
  <2>2. CASE SwitchToDev(r)
    BY <2>2 DEF SwitchToDev, Goto, Checkout, tree, refs, history, CheckoutTypeOK,
         Branches, Unbranched, Publishing, Restoring
  <2>3. CASE Sync(r)
    BY <2>3 DEF Sync, Check, tree, refs, history, Goto, CheckoutTypeOK, Branches,
         Unbranched, Publishing, Restoring
  <2>4. CASE CreateBranch(r)
    BY <2>4 DEF CreateBranch, Check, tree, history, Goto, CheckoutTypeOK, Branches,
         Unbranched, Publishing, Restoring
  <2>5. CASE Work(r)
    BY <2>5 DEF Work, Goto, tree, refs, history, CheckoutTypeOK, Branches,
         Unbranched, Publishing, Restoring
  <2>6. CASE CheckoutBranch(r)
    BY <2>6 DEF CheckoutBranch, Goto, Checkout, tree, refs, history, CheckoutTypeOK,
         Branches, Unbranched, Publishing, Restoring
  <2>7. CASE ApplyPatch(r)
    <3>1. dirty' \in Contents /\ Names(staged') \subseteq Names(dirty')
      <4>1. \A f \in Files : dirty[f] # {} => dirty'[f] # {}
        BY <2>7, Patched
      <4> QED BY <2>7, <4>1, Patched DEF ApplyPatch, Names, CheckoutTypeOK
    <3>2. /\ pc' = [pc EXCEPT ![r] = "changed"] /\ clashed' \subseteq Runs
          /\ UNCHANGED <<head, staged, local, remote, prs, commit, landed, opened, url,
                         overlapped>>
      BY <2>7 DEF ApplyPatch, Goto, refs, history, CheckoutTypeOK
    <3> QED BY <3>1, <3>2 DEF CheckoutTypeOK, Branches, Unbranched, Publishing,
         Restoring
  <2>8. CASE CheckChanged(r)
    BY <2>8 DEF CheckChanged, Check, tree, refs, history, Goto, CheckoutTypeOK,
         Branches, Unbranched, Publishing, Restoring
  <2>9. CASE CheckIndex(r)
    BY <2>9 DEF CheckIndex, Check, tree, refs, history, Goto, CheckoutTypeOK,
         Branches, Unbranched, Publishing, Restoring
  <2>10. CASE Add(r)
    <3>1. staged' \in Contents /\ Names(staged') \subseteq Names(dirty')
      BY <2>10 DEF Add, Names, Contents, CheckoutTypeOK
    <3>2. /\ pc' = [pc EXCEPT ![r] = "verify"]
          /\ UNCHANGED <<head, dirty, local, remote, prs, commit, landed, opened, url,
                         overlapped, clashed>>
      BY <2>10 DEF Add, Goto, refs, history
    <3> QED BY <3>1, <3>2 DEF CheckoutTypeOK, Branches, Unbranched, Publishing,
         Restoring
  <2>11. CASE CheckStaged(r)
    BY <2>11 DEF CheckStaged, Check, tree, refs, history, Goto, CheckoutTypeOK,
         Branches, Unbranched, Publishing, Restoring
  <2>12. CASE Commit(r)
    <3>1. /\ staged' \in Contents /\ dirty' \in Contents
          /\ Names(staged') \subseteq Names(dirty')
      BY <2>12 DEF Commit, Nothing, Names, Contents, CheckoutTypeOK
    <3>2. /\ commit' \in [Runs -> Contents] /\ landed' \in [Runs -> Branches \cup {None}]
          /\ local' \in [Branches -> SUBSET Runs]
      BY <2>12 DEF Commit, CheckoutTypeOK
    <3>3. /\ pc' = [pc EXCEPT ![r] = "committed"]
          /\ UNCHANGED <<head, remote, prs, opened, url, overlapped, clashed>>
      BY <2>12 DEF Commit, Goto
    <3> QED BY <3>1, <3>2, <3>3 DEF CheckoutTypeOK, Unbranched, Publishing, Restoring
  <2>13. CASE SkipPullRequest(r)
    BY <2>13 DEF SkipPullRequest, Goto, tree, refs, history, CheckoutTypeOK,
         Branches, Unbranched, Publishing, Restoring
  <2>14. CASE CheckBranch(r)
    BY <2>14 DEF CheckBranch, Check, tree, refs, history, Goto, CheckoutTypeOK,
         Branches, Unbranched, Publishing, Restoring
  <2>15. CASE Push(r)
    BY <2>15 DEF Push, Goto, tree, history, CheckoutTypeOK, Branches, Unbranched,
         Publishing, Restoring
  <2>16. CASE OpenPullRequest(r)
    <3>1. CASE Proposable(head)
      <4>1. /\ pc' = [pc EXCEPT ![r] = "url"]
            /\ prs' = prs \cup {head} /\ opened' = [opened EXCEPT ![r] = head]
            /\ UNCHANGED <<head, dirty, staged, local, remote, commit,
                           landed, url, overlapped, clashed>>
        BY <2>16, <3>1 DEF OpenPullRequest, Check, Goto, tree
      <4> QED BY <4>1 DEF CheckoutTypeOK, Branches, Unbranched, Publishing, Restoring
    <3>2. CASE ~Proposable(head)
      BY <2>16, <3>2 DEF OpenPullRequest, Check, Goto, refs, tree, history,
           CheckoutTypeOK, Branches, Unbranched, Publishing, Restoring
    <3> QED BY <3>1, <3>2
  <2>17. CASE RecordUrl(r)
    BY <2>17 DEF RecordUrl, Goto, tree, refs, CheckoutTypeOK, Branches, Unbranched,
         Publishing, Restoring
  <2>18. CASE CheckRestore(r)
    BY <2>18 DEF CheckRestore, Check, tree, refs, history, Goto, CheckoutTypeOK,
         Branches, Unbranched, Publishing, Restoring
  <2>19. CASE Restore(r)
    BY <2>19 DEF Restore, Goto, Checkout, tree, refs, history, CheckoutTypeOK,
         Branches, Unbranched, Publishing, Restoring
  <2>20. CASE CompareBranch(r)
    BY <2>20 DEF CompareBranch, Check, tree, refs, history, Goto, CheckoutTypeOK,
         Branches, Unbranched, Publishing, Restoring
  <2>21. CASE DeleteBranch(r)
    BY <2>21 DEF DeleteBranch, Goto, tree, history, CheckoutTypeOK, Branches,
         Unbranched, Publishing, Restoring
  <2>22. CASE GiveUp(r)
    BY <2>22 DEF GiveUp, Goto, tree, refs, history, CheckoutTypeOK, Branches,
         Unbranched, Publishing, Restoring
  <2>23. CASE Kill(r)
    BY <2>23 DEF Kill, Goto, Live, tree, refs, history, CheckoutTypeOK, Branches,
         Unbranched, Publishing, Restoring
  <2> QED BY <1>1, <2>1, <2>2, <2>3, <2>4, <2>5, <2>6, <2>7, <2>8, <2>9, <2>10, <2>11,
       <2>12, <2>13, <2>14, <2>15, <2>16, <2>17, <2>18, <2>19, <2>20, <2>21, <2>22,
       <2>23 DEF Starts, Stages, Delivers, Ends
<1> QED BY <1>0, <1>1 DEF Next

\* Every step keeps the runs between check and commit apart.
LEMMA ExclusiveStep == CheckoutTypeOK /\ Exclusive /\ [Next]_vars => Exclusive'
<1> SUFFICES ASSUME CheckoutTypeOK, Exclusive, [Next]_vars PROVE Exclusive'
  OBVIOUS
<1> USE CheckoutAssumption
<1>0. CASE UNCHANGED vars
  BY <1>0 DEF vars, CheckoutTypeOK, Exclusive, Passed, Applied, Unapplied
<1>1. ASSUME NEW r \in Runs, Starts(r) \/ Stages(r) \/ Delivers(r) \/ Ends(r) PROVE Exclusive'
  <2>1. CASE Begin(r)
    BY <2>1 DEF Begin, Check, Live, tree, refs, history, Goto, CheckoutTypeOK,
         Exclusive, Passed, Applied, Unapplied
  <2>2. CASE SwitchToDev(r)
    BY <2>2 DEF SwitchToDev, Goto, Checkout, tree, refs, history, CheckoutTypeOK,
         Exclusive, Passed, Applied, Unapplied
  <2>3. CASE Sync(r)
    BY <2>3 DEF Sync, Check, tree, refs, history, Goto, CheckoutTypeOK, Exclusive,
         Passed, Applied, Unapplied
  <2>4. CASE CreateBranch(r)
    BY <2>4 DEF CreateBranch, Check, tree, history, Goto, CheckoutTypeOK, Exclusive,
         Passed, Applied, Unapplied
  <2>5. CASE Work(r)
    BY <2>5 DEF Work, Goto, tree, refs, history, CheckoutTypeOK, Exclusive, Passed,
         Applied, Unapplied
  <2>6. CASE CheckoutBranch(r)
    BY <2>6 DEF CheckoutBranch, Goto, Checkout, tree, refs, history, CheckoutTypeOK,
         Exclusive, Passed, Applied, Unapplied
  <2>7. CASE ApplyPatch(r)
    <3> SUFFICES ASSUME clashed' = {} PROVE Exclusive'
      BY DEF Exclusive
    <3>1. /\ clashed = {} /\ \A f \in Changes[r] : dirty[f] \subseteq {r}
          /\ \A f \in Files : dirty[f] \subseteq dirty'[f]
      BY <2>7, Patched
    <3>2. /\ \A s \in Runs \ {r} : pc'[s] = pc[s]
          /\ pc'[r] = "changed" /\ staged' = staged
      BY <2>7 DEF ApplyPatch, Goto, CheckoutTypeOK
    <3>3. \A f \in Files : \A s, t \in dirty'[f] : s = t /\ f \in Changes[s]
      BY <2>7, <3>1, Patched DEF Exclusive
    <3>4. \A f \in Files : staged'[f] \subseteq dirty'[f]
      BY <3>1, <3>2 DEF Exclusive
    <3>5. \A s \in Runs : pc'[s] \in Applied => \A f \in Changes[s] : s \in dirty'[f]
      BY <2>7, <3>1, <3>2, Patched, OwnNames DEF Exclusive
    <3>6. \A s \in Runs : pc'[s] \in Passed => pc[s] = pc'[s]
      BY <3>2 DEF Passed
    <3> QED BY <3>1, <3>2, <3>3, <3>4, <3>5, <3>6 DEF Exclusive, Passed
  <2>8. CASE CheckChanged(r)
    <3> SUFFICES ASSUME clashed = {}, clashed' = {} PROVE Exclusive'
      BY <2>8 DEF CheckChanged, tree, Exclusive
    <3>1. /\ UNCHANGED <<dirty, staged>> /\ pc[r] = "changed"
          /\ pc' = [pc EXCEPT ![r] = IF Names(dirty) = Changes[r] THEN "index" ELSE "compare"]
      BY <2>8 DEF CheckChanged, Check, Goto, tree
    <3>2. CASE Names(dirty) # Changes[r]
      <4>1. \A s \in Runs : pc'[s] \in Applied => pc[s] = pc'[s]
        BY <3>1, <3>2 DEF Applied, Passed, CheckoutTypeOK
      <4> QED BY <3>1, <4>1 DEF Exclusive, Applied, Passed
    <3>3. CASE Names(dirty) = Changes[r]
      <4>1. \A f \in Changes[r] : dirty[f] = {r}
        BY <3>1, OwnNames DEF Exclusive, Applied
      <4>2. \A f \in Files : dirty[f] \subseteq {r}
        BY <3>3, <4>1 DEF Names
      <4>3. ASSUME NEW s \in Runs, pc[s] \in Passed PROVE s = r
        <5>1. PICK f \in Changes[s] : f \in Files
          BY OwnNames
        <5>2. s \in dirty[f]
          BY <4>3 DEF Exclusive, Applied
        <5> QED BY <5>1, <5>2, <4>2
      <4>4. \A s \in Runs : pc'[s] \in Passed => s = r
        BY <3>1, <4>3 DEF CheckoutTypeOK
      <4>5. \A s \in Runs : pc'[s] \in Applied => pc[s] \in Applied
        BY <3>1 DEF CheckoutTypeOK, Applied
      <4>6. \A s \in Runs : pc'[s] \notin {"staged", "commit"} \/ pc[s] = pc'[s]
        BY <3>1, <3>3 DEF CheckoutTypeOK
      <4> QED BY <3>1, <4>2, <4>4, <4>5, <4>6 DEF Exclusive
    <3> QED BY <3>2, <3>3
  <2>9. CASE CheckIndex(r)
    BY <2>9 DEF CheckIndex, Check, tree, refs, history, Goto, CheckoutTypeOK,
         Exclusive, Passed, Applied, Unapplied
  <2>10. CASE Add(r)
    BY <2>10 DEF Add, Goto, refs, history, CheckoutTypeOK, Exclusive, Passed, Applied,
         Unapplied
  <2>11. CASE CheckStaged(r)
    <3> SUFFICES ASSUME clashed = {}, clashed' = {} PROVE Exclusive'
      BY <2>11 DEF CheckStaged, tree, Exclusive
    <3>1. /\ UNCHANGED <<dirty, staged>> /\ pc[r] \in {"verify", "staged"}
          /\ \/ Names(staged) = Changes[r]
                /\ \E at \in {"staged", "commit"} : pc' = [pc EXCEPT ![r] = at]
             \/ pc' = [pc EXCEPT ![r] = "compare"]
      BY <2>11 DEF CheckStaged, Check, Goto, tree
    <3>2. \A s \in Runs : pc'[s] \in Applied => pc[s] = pc'[s] \/ s = r
      BY <3>1 DEF CheckoutTypeOK
    <3>3. pc'[r] \in Applied => staged = Own(r)
      <4>1. staged \in Contents /\ \A f \in Files : staged[f] \subseteq {r}
        BY <3>1 DEF Exclusive, Passed, CheckoutTypeOK
      <4> QED BY <3>1, <4>1, ByName DEF CheckoutTypeOK, Applied, Passed
    <3> QED BY <3>1, <3>2, <3>3 DEF Exclusive, Applied, Passed
  <2>12. CASE Commit(r)
    <3> SUFFICES ASSUME clashed = {}, clashed' = {} PROVE Exclusive'
      BY <2>12 DEF Commit, Exclusive
    <3>1. /\ pc[r] = "commit" /\ pc'[r] = "committed"
          /\ \A s \in Runs \ {r} : pc'[s] = pc[s]
          /\ dirty' = [f \in Files |-> dirty[f] \ staged[f]] /\ staged' = Nothing
      BY <2>12 DEF Commit, Goto, CheckoutTypeOK
    <3>2. \A f \in Files : dirty'[f] = IF f \in Changes[r] THEN dirty[f] \ {r} ELSE dirty[f]
      BY <3>1 DEF Exclusive, Own
    <3>3. \A s \in Runs : pc'[s] \notin Passed
      BY <3>1 DEF Exclusive, Passed
    <3>4. ASSUME NEW s \in Runs, pc'[s] \in Applied, NEW f \in Changes[s]
         PROVE  s \in dirty'[f]
      <4>1. s # r /\ pc[s] \in Applied
        BY <3>1, <3>4 DEF Applied, Passed
      <4>2. f \in Files /\ s \in dirty[f]
        BY <4>1, OwnNames DEF Exclusive
      <4> QED BY <3>2, <4>1, <4>2
    <3>5. \A f \in Files : staged'[f] = {}
      BY <3>1 DEF Nothing
    <3>6. \A f \in Files : \A s, t \in dirty'[f] : s = t /\ f \in Changes[s]
      <4>1. \A f \in Files : dirty'[f] \subseteq dirty[f]
        BY <3>2
      <4> QED BY <4>1 DEF Exclusive
    <3> QED BY <3>3, <3>4, <3>5, <3>6 DEF Exclusive, Passed
  <2>13. CASE SkipPullRequest(r)
    BY <2>13 DEF SkipPullRequest, Goto, tree, refs, history, CheckoutTypeOK,
         Exclusive, Passed, Applied, Unapplied
  <2>14. CASE CheckBranch(r)
    BY <2>14 DEF CheckBranch, Check, tree, refs, history, Goto, CheckoutTypeOK,
         Exclusive, Passed, Applied, Unapplied
  <2>15. CASE Push(r)
    BY <2>15 DEF Push, Goto, tree, history, CheckoutTypeOK, Exclusive, Passed,
         Applied, Unapplied
  <2>16. CASE OpenPullRequest(r)
    BY <2>16 DEF OpenPullRequest, Check, Proposable, tree, Goto, CheckoutTypeOK,
         Exclusive, Passed, Applied, Unapplied
  <2>17. CASE RecordUrl(r)
    BY <2>17 DEF RecordUrl, Goto, tree, refs, CheckoutTypeOK, Exclusive, Passed,
         Applied, Unapplied
  <2>18. CASE CompareBranch(r)
    BY <2>18 DEF CompareBranch, Check, tree, refs, history, Goto, CheckoutTypeOK,
         Exclusive, Passed, Applied, Unapplied
  <2>19. CASE DeleteBranch(r)
    BY <2>19 DEF DeleteBranch, Goto, tree, history, CheckoutTypeOK, Exclusive, Passed,
         Applied, Unapplied
  <2>20. CASE CheckRestore(r) \/ Restore(r) \/ GiveUp(r)
    <3>1. PICK at \in {"done", "compare", "restore again", "back", "back again"} :
                 pc' = [pc EXCEPT ![r] = at]
      BY <2>20, Retreats
    <3>2. /\ Live(r) /\ head' \in {head, Dev}
          /\ UNCHANGED <<dirty, staged, local, remote, prs, commit,
                         landed, opened, url, overlapped, clashed>>
      BY <2>20, Retreats
    <3>3. \A s \in Runs : pc'[s] \in Applied => pc[s] = pc'[s]
      BY <3>1 DEF CheckoutTypeOK, Applied, Passed
    <3> QED BY <3>2, <3>3 DEF Exclusive, Applied, Passed
  <2>21. CASE Kill(r)
    BY <2>21 DEF Kill, Goto, Live, tree, refs, history, CheckoutTypeOK, Exclusive,
         Passed, Applied, Unapplied
  <2> QED BY <1>1, <2>1, <2>2, <2>3, <2>4, <2>5, <2>6, <2>7, <2>8, <2>9, <2>10, <2>11,
       <2>12, <2>13, <2>14, <2>15, <2>16, <2>17, <2>18, <2>19, <2>20, <2>21 DEF
       Starts, Stages, Delivers, Ends
<1> QED BY <1>0, <1>1 DEF Next

\* So a commit takes the change of its own run only.
LEMMA CommitStep ==
  CheckoutTypeOK /\ Exclusive /\ CommitsAreOneRuns /\ [Next]_vars => CommitsAreOneRuns'
<1> SUFFICES ASSUME CheckoutTypeOK, Exclusive, CommitsAreOneRuns, [Next]_vars
    PROVE CommitsAreOneRuns'
  OBVIOUS
<1> USE CheckoutAssumption
<1>0. CASE UNCHANGED vars
  BY <1>0 DEF vars, CheckoutTypeOK, Exclusive, CommitsAreOneRuns
<1>1. ASSUME NEW r \in Runs, Starts(r) \/ Stages(r) \/ Delivers(r) \/ Ends(r)
     PROVE CommitsAreOneRuns'
  <2>1. CASE Begin(r)
    BY <2>1 DEF Begin, Check, Live, tree, refs, history, Goto, CheckoutTypeOK,
         Exclusive, CommitsAreOneRuns
  <2>2. CASE SwitchToDev(r)
    BY <2>2 DEF SwitchToDev, Goto, Checkout, tree, refs, history, CheckoutTypeOK,
         Exclusive, CommitsAreOneRuns
  <2>3. CASE Sync(r)
    BY <2>3 DEF Sync, Check, tree, refs, history, Goto, CheckoutTypeOK, Exclusive,
         CommitsAreOneRuns
  <2>4. CASE CreateBranch(r)
    BY <2>4 DEF CreateBranch, Check, tree, history, Goto, CheckoutTypeOK, Exclusive,
         CommitsAreOneRuns
  <2>5. CASE Work(r)
    BY <2>5 DEF Work, Goto, tree, refs, history, CheckoutTypeOK, Exclusive,
         CommitsAreOneRuns
  <2>6. CASE CheckoutBranch(r)
    BY <2>6 DEF CheckoutBranch, Goto, Checkout, tree, refs, history, CheckoutTypeOK,
         Exclusive, CommitsAreOneRuns
  <2>7. CASE ApplyPatch(r)
    BY <2>7 DEF ApplyPatch, Goto, refs, history, CheckoutTypeOK, Exclusive,
         CommitsAreOneRuns
  <2>8. CASE CheckChanged(r)
    BY <2>8 DEF CheckChanged, Check, tree, refs, history, Goto, CheckoutTypeOK,
         Exclusive, CommitsAreOneRuns
  <2>9. CASE CheckIndex(r)
    BY <2>9 DEF CheckIndex, Check, tree, refs, history, Goto, CheckoutTypeOK,
         Exclusive, CommitsAreOneRuns
  <2>10. CASE Add(r)
    BY <2>10 DEF Add, Goto, refs, history, CheckoutTypeOK, Exclusive, CommitsAreOneRuns
  <2>11. CASE CheckStaged(r)
    BY <2>11 DEF CheckStaged, Check, tree, refs, history, Goto, CheckoutTypeOK,
         Exclusive, CommitsAreOneRuns
  <2>12. CASE Commit(r)
    BY <2>12 DEF Commit, Goto, CheckoutTypeOK, Exclusive, CommitsAreOneRuns
  <2>13. CASE SkipPullRequest(r)
    BY <2>13 DEF SkipPullRequest, Goto, tree, refs, history, CheckoutTypeOK,
         Exclusive, CommitsAreOneRuns
  <2>14. CASE CheckBranch(r)
    BY <2>14 DEF CheckBranch, Check, tree, refs, history, Goto, CheckoutTypeOK,
         Exclusive, CommitsAreOneRuns
  <2>15. CASE Push(r)
    BY <2>15 DEF Push, Goto, tree, history, CheckoutTypeOK, Exclusive, CommitsAreOneRuns
  <2>16. CASE OpenPullRequest(r)
    BY <2>16 DEF OpenPullRequest, Check, Proposable, tree, Goto, CheckoutTypeOK,
         Exclusive, CommitsAreOneRuns
  <2>17. CASE RecordUrl(r)
    BY <2>17 DEF RecordUrl, Goto, tree, refs, CheckoutTypeOK, Exclusive,
         CommitsAreOneRuns
  <2>18. CASE CheckRestore(r)
    BY <2>18 DEF CheckRestore, Check, tree, refs, history, Goto, CheckoutTypeOK,
         Exclusive, CommitsAreOneRuns
  <2>19. CASE Restore(r)
    BY <2>19 DEF Restore, Goto, Checkout, tree, refs, history, CheckoutTypeOK,
         Exclusive, CommitsAreOneRuns
  <2>20. CASE CompareBranch(r)
    BY <2>20 DEF CompareBranch, Check, tree, refs, history, Goto, CheckoutTypeOK,
         Exclusive, CommitsAreOneRuns
  <2>21. CASE DeleteBranch(r)
    BY <2>21 DEF DeleteBranch, Goto, tree, history, CheckoutTypeOK, Exclusive,
         CommitsAreOneRuns
  <2>22. CASE GiveUp(r)
    BY <2>22 DEF GiveUp, Goto, Unbranched, Publishing, Restoring, tree, refs, history,
         CheckoutTypeOK, Exclusive, CommitsAreOneRuns
  <2>23. CASE Kill(r)
    BY <2>23 DEF Kill, Goto, Live, tree, refs, history, CheckoutTypeOK, Exclusive,
         CommitsAreOneRuns
  <2> QED BY <1>1, <2>1, <2>2, <2>3, <2>4, <2>5, <2>6, <2>7, <2>8, <2>9, <2>10, <2>11,
       <2>12, <2>13, <2>14, <2>15, <2>16, <2>17, <2>18, <2>19, <2>20, <2>21, <2>22,
       <2>23 DEF Starts, Stages, Delivers, Ends
<1> QED BY <1>0, <1>1 DEF Next

\* Every step keeps commits where they were made.
LEMMA HistoryStep == CheckoutTypeOK /\ History /\ [Next]_vars => History'
<1> SUFFICES ASSUME CheckoutTypeOK, History, [Next]_vars PROVE History'
  OBVIOUS
<1> USE CheckoutAssumption
<1>0. CASE UNCHANGED vars
  BY <1>0 DEF vars, CheckoutTypeOK, History, Unrecorded, Uncommitted, Passed, Applied,
       Unapplied, Unbranched, Branches
<1>1. ASSUME NEW r \in Runs, Starts(r) \/ Stages(r) \/ Delivers(r) \/ Ends(r) PROVE History'
  <2>1. CASE Begin(r)
    BY <2>1 DEF Begin, Check, Live, tree, refs, history, Goto, CheckoutTypeOK,
         History, Unrecorded, Uncommitted, Passed, Applied, Unapplied, Unbranched,
         Branches
  <2>2. CASE SwitchToDev(r)
    BY <2>2 DEF SwitchToDev, Goto, Checkout, tree, refs, history, CheckoutTypeOK,
         History, Unrecorded, Uncommitted, Passed, Applied, Unapplied, Unbranched,
         Branches
  <2>3. CASE Sync(r)
    BY <2>3 DEF Sync, Check, tree, refs, history, Goto, CheckoutTypeOK, History,
         Unrecorded, Uncommitted, Passed, Applied, Unapplied, Unbranched, Branches
  <2>4. CASE CreateBranch(r)
    BY <2>4 DEF CreateBranch, Check, tree, history, Goto, CheckoutTypeOK, History,
         Unrecorded, Uncommitted, Passed, Applied, Unapplied, Unbranched, Branches
  <2>5. CASE Work(r)
    BY <2>5 DEF Work, Goto, tree, refs, history, CheckoutTypeOK, History,
         Unrecorded, Uncommitted, Passed, Applied, Unapplied, Unbranched, Branches
  <2>6. CASE CheckoutBranch(r)
    BY <2>6 DEF CheckoutBranch, Goto, Checkout, tree, refs, history, CheckoutTypeOK,
         History, Unrecorded, Uncommitted, Passed, Applied, Unapplied, Unbranched,
         Branches
  <2>7. CASE ApplyPatch(r)
    BY <2>7 DEF ApplyPatch, Goto, refs, history, CheckoutTypeOK, History,
         Unrecorded, Uncommitted, Passed, Applied, Unapplied, Unbranched, Branches
  <2>8. CASE CheckChanged(r)
    BY <2>8 DEF CheckChanged, Check, tree, refs, history, Goto, CheckoutTypeOK,
         History, Unrecorded, Uncommitted, Passed, Applied, Unapplied, Unbranched,
         Branches
  <2>9. CASE CheckIndex(r)
    BY <2>9 DEF CheckIndex, Check, tree, refs, history, Goto, CheckoutTypeOK, History,
         Unrecorded, Uncommitted, Passed, Applied, Unapplied, Unbranched, Branches
  <2>10. CASE Add(r)
    BY <2>10 DEF Add, Goto, refs, history, CheckoutTypeOK, History, Unrecorded,
         Uncommitted, Passed, Applied, Unapplied, Unbranched, Branches
  <2>11. CASE CheckStaged(r)
    BY <2>11 DEF CheckStaged, Check, tree, refs, history, Goto, CheckoutTypeOK,
         History, Unrecorded, Uncommitted, Passed, Applied, Unapplied, Unbranched,
         Branches
  <2>12. CASE Commit(r)
    BY <2>12 DEF Commit, Goto, CheckoutTypeOK, History, Unrecorded, Uncommitted,
         Passed, Applied, Unapplied, Unbranched, Branches
  <2>13. CASE SkipPullRequest(r)
    BY <2>13 DEF SkipPullRequest, Goto, tree, refs, history, CheckoutTypeOK, History,
         Unrecorded, Uncommitted, Passed, Applied, Unapplied, Unbranched, Branches
  <2>14. CASE CheckBranch(r)
    BY <2>14 DEF CheckBranch, Check, tree, refs, history, Goto, CheckoutTypeOK,
         History, Unrecorded, Uncommitted, Passed, Applied, Unapplied, Unbranched,
         Branches
  <2>15. CASE Push(r)
    BY <2>15 DEF Push, Goto, tree, history, CheckoutTypeOK, History, Unrecorded,
         Uncommitted, Passed, Applied, Unapplied, Unbranched, Branches
  <2>16. CASE OpenPullRequest(r)
    BY <2>16 DEF OpenPullRequest, Check, Proposable, tree, Goto, CheckoutTypeOK,
         History, Unrecorded, Uncommitted, Passed, Applied, Unapplied, Unbranched,
         Branches
  <2>17. CASE RecordUrl(r)
    BY <2>17 DEF RecordUrl, Goto, tree, refs, CheckoutTypeOK, History, Unrecorded,
         Uncommitted, Passed, Applied, Unapplied, Unbranched, Branches
  <2>18. CASE CompareBranch(r)
    BY <2>18 DEF CompareBranch, Check, tree, refs, history, Goto, CheckoutTypeOK,
         History, Unrecorded, Uncommitted, Passed, Applied, Unapplied, Unbranched,
         Branches
  <2>19. CASE DeleteBranch(r)
    BY <2>19 DEF DeleteBranch, Goto, tree, history, CheckoutTypeOK, History,
         Unrecorded, Uncommitted, Passed, Applied, Unapplied, Unbranched, Branches
  <2>20. CASE CheckRestore(r) \/ Restore(r) \/ GiveUp(r)
    <3>1. PICK at \in {"done", "compare", "restore again", "back", "back again"} :
                 pc' = [pc EXCEPT ![r] = at]
      BY <2>20, Retreats
    <3>2. /\ Live(r) /\ head' \in {head, Dev}
          /\ UNCHANGED <<dirty, staged, local, remote, prs, commit,
                         landed, opened, url, overlapped, clashed>>
      BY <2>20, Retreats
    <3> QED BY <3>1, <3>2 DEF CheckoutTypeOK, History, Unrecorded, Uncommitted,
         Passed, Applied, Unapplied, Unbranched, Branches
  <2>21. CASE Kill(r)
    BY <2>21 DEF Kill, Goto, Live, tree, refs, history, CheckoutTypeOK, History,
         Unrecorded, Uncommitted, Passed, Applied, Unapplied, Unbranched, Branches
  <2> QED BY <1>1, <2>1, <2>2, <2>3, <2>4, <2>5, <2>6, <2>7, <2>8, <2>9, <2>10, <2>11,
       <2>12, <2>13, <2>14, <2>15, <2>16, <2>17, <2>18, <2>19, <2>20, <2>21 DEF
       Starts, Stages, Delivers, Ends
<1> QED BY <1>0, <1>1 DEF Next

\* A run that starts next to another ends its being alone.
LEMMA AloneNowStep == CheckoutTypeOK /\ AloneNow /\ [Next]_vars => AloneNow'
<1> SUFFICES ASSUME CheckoutTypeOK, AloneNow, [Next]_vars PROVE AloneNow'
  OBVIOUS
<1> USE CheckoutAssumption
<1>0. CASE UNCHANGED vars
  BY <1>0 DEF vars, CheckoutTypeOK, AloneNow, CheckedOut, Passed, Applied, Unapplied,
       Live, Branches
<1>1. ASSUME NEW r \in Runs, Starts(r) \/ Stages(r) \/ Delivers(r) \/ Ends(r) PROVE AloneNow'
  <2>1. CASE Begin(r)
    BY <2>1 DEF Begin, Check, tree, refs, history, Goto, CheckoutTypeOK, AloneNow,
         CheckedOut, Passed, Applied, Unapplied, Live, Branches
  <2>2. CASE SwitchToDev(r)
    BY <2>2 DEF SwitchToDev, Goto, Checkout, tree, refs, history, CheckoutTypeOK,
         AloneNow, CheckedOut, Passed, Applied, Unapplied, Live, Branches
  <2>3. CASE Sync(r)
    BY <2>3 DEF Sync, Check, tree, refs, history, Goto, CheckoutTypeOK, AloneNow,
         CheckedOut, Passed, Applied, Unapplied, Live, Branches
  <2>4. CASE CreateBranch(r)
    BY <2>4 DEF CreateBranch, Check, tree, history, Goto, CheckoutTypeOK, AloneNow,
         CheckedOut, Passed, Applied, Unapplied, Live, Branches
  <2>5. CASE Work(r)
    BY <2>5 DEF Work, Goto, tree, refs, history, CheckoutTypeOK, AloneNow,
         CheckedOut, Passed, Applied, Unapplied, Live, Branches
  <2>6. CASE CheckoutBranch(r)
    BY <2>6 DEF CheckoutBranch, Goto, Checkout, tree, refs, history, CheckoutTypeOK,
         AloneNow, CheckedOut, Passed, Applied, Unapplied, Live, Branches
  <2>7. CASE ApplyPatch(r)
    BY <2>7 DEF ApplyPatch, Goto, refs, history, CheckoutTypeOK, AloneNow,
         CheckedOut, Passed, Applied, Unapplied, Live, Branches
  <2>8. CASE CheckChanged(r)
    BY <2>8 DEF CheckChanged, Check, tree, refs, history, Goto, CheckoutTypeOK,
         AloneNow, CheckedOut, Passed, Applied, Unapplied, Live, Branches
  <2>9. CASE CheckIndex(r)
    BY <2>9 DEF CheckIndex, Check, tree, refs, history, Goto, CheckoutTypeOK,
         AloneNow, CheckedOut, Passed, Applied, Unapplied, Live, Branches
  <2>10. CASE Add(r)
    BY <2>10 DEF Add, Goto, refs, history, CheckoutTypeOK, AloneNow, CheckedOut,
         Passed, Applied, Unapplied, Live, Branches
  <2>11. CASE CheckStaged(r)
    BY <2>11 DEF CheckStaged, Check, tree, refs, history, Goto, CheckoutTypeOK,
         AloneNow, CheckedOut, Passed, Applied, Unapplied, Live, Branches
  <2>12. CASE Commit(r)
    BY <2>12 DEF Commit, Goto, CheckoutTypeOK, AloneNow, CheckedOut, Passed, Applied,
         Unapplied, Live, Branches
  <2>13. CASE SkipPullRequest(r)
    BY <2>13 DEF SkipPullRequest, Goto, tree, refs, history, CheckoutTypeOK,
         AloneNow, CheckedOut, Passed, Applied, Unapplied, Live, Branches
  <2>14. CASE CheckBranch(r)
    BY <2>14 DEF CheckBranch, Check, tree, refs, history, Goto, CheckoutTypeOK,
         AloneNow, CheckedOut, Passed, Applied, Unapplied, Live, Branches
  <2>15. CASE Push(r)
    BY <2>15 DEF Push, Goto, tree, history, CheckoutTypeOK, AloneNow, CheckedOut,
         Passed, Applied, Unapplied, Live, Branches
  <2>16. CASE OpenPullRequest(r)
    BY <2>16 DEF OpenPullRequest, Check, Proposable, tree, Goto, CheckoutTypeOK,
         AloneNow, CheckedOut, Passed, Applied, Unapplied, Live, Branches
  <2>17. CASE RecordUrl(r)
    BY <2>17 DEF RecordUrl, Goto, tree, refs, CheckoutTypeOK, AloneNow, CheckedOut,
         Passed, Applied, Unapplied, Live, Branches
  <2>18. CASE CompareBranch(r)
    BY <2>18 DEF CompareBranch, Check, tree, refs, history, Goto, CheckoutTypeOK,
         AloneNow, CheckedOut, Passed, Applied, Unapplied, Live, Branches
  <2>19. CASE DeleteBranch(r)
    BY <2>19 DEF DeleteBranch, Goto, tree, history, CheckoutTypeOK, AloneNow,
         CheckedOut, Passed, Applied, Unapplied, Live, Branches
  <2>20. CASE CheckRestore(r) \/ Restore(r) \/ GiveUp(r)
    <3>1. PICK at \in {"done", "compare", "restore again", "back", "back again"} :
                 pc' = [pc EXCEPT ![r] = at]
      BY <2>20, Retreats
    <3>2. /\ Live(r) /\ head' \in {head, Dev}
          /\ UNCHANGED <<dirty, staged, local, remote, prs, commit,
                         landed, opened, url, overlapped, clashed>>
      BY <2>20, Retreats
    <3> QED BY <3>1, <3>2 DEF CheckoutTypeOK, AloneNow, CheckedOut, Passed, Applied,
         Unapplied, Live, Branches
  <2>21. CASE Kill(r)
    BY <2>21 DEF Kill, Goto, tree, refs, history, CheckoutTypeOK, AloneNow,
         CheckedOut, Passed, Applied, Unapplied, Live, Branches
  <2> QED BY <1>1, <2>1, <2>2, <2>3, <2>4, <2>5, <2>6, <2>7, <2>8, <2>9, <2>10, <2>11,
       <2>12, <2>13, <2>14, <2>15, <2>16, <2>17, <2>18, <2>19, <2>20, <2>21 DEF
       Starts, Stages, Delivers, Ends
<1> QED BY <1>0, <1>1 DEF Next

\* After its start a run is live at every step, and moves nobody else.
LEMMA OneMoves ==
  ASSUME CheckoutTypeOK, NEW r \in Runs,
         Starts(r) \/ Stages(r) \/ Delivers(r) \/ Ends(r), ~Begin(r)
  PROVE  /\ Live(r) /\ overlapped' = overlapped
         /\ \A s \in Runs \ {r} : pc'[s] = pc[s]
<1>1. CASE Starts(r)
  BY <1>1 DEF Starts, SwitchToDev, Sync, CreateBranch, Work, Check, Goto, Live,
       CheckoutTypeOK
<1>2. CASE Stages(r)
  BY <1>2 DEF Stages, CheckoutBranch, ApplyPatch, CheckChanged, CheckIndex, Add,
       CheckStaged, Check, Goto, Live, CheckoutTypeOK
<1>3. CASE Delivers(r)
  BY <1>3 DEF Delivers, Commit, SkipPullRequest, CheckBranch, Push, OpenPullRequest,
       RecordUrl, Check, Goto, Live, CheckoutTypeOK
<1>4. CASE CheckRestore(r) \/ Restore(r) \/ GiveUp(r)
  BY <1>4, Retreats DEF CheckoutTypeOK
<1>5. CASE CompareBranch(r) \/ DeleteBranch(r) \/ Kill(r)
  BY <1>5 DEF CompareBranch, DeleteBranch, Kill, Check, Goto, Live, CheckoutTypeOK
<1> QED BY <1>1, <1>2, <1>3, <1>4, <1>5 DEF Ends

\* A run that is alone starts with a clean tree, and nobody else changes it.
LEMMA AloneTreeStep ==
  CheckoutTypeOK /\ AloneNow /\ AloneTree /\ [Next]_vars => AloneTree'
<1> SUFFICES ASSUME CheckoutTypeOK, AloneNow, AloneTree, [Next]_vars PROVE AloneTree'
  OBVIOUS
<1>0. CASE UNCHANGED vars
  BY <1>0 DEF vars, AloneTree, TreeOf, Nothing, Own
<1>1. ASSUME NEW r \in Runs, Begin(r) PROVE AloneTree'
  <2>1. Clean => staged = Nothing
    BY OwnNames, ByName, <1>1 DEF Clean, CheckoutTypeOK
  <2>2. /\ UNCHANGED <<dirty, staged>> /\ overlapped \subseteq overlapped'
        /\ \A s \in Runs \ {r} : pc'[s] = pc[s]
        /\ pc'[r] = "done" \/ (Clean /\ pc'[r] \in {"sync", "switch"})
    <3>1. UNCHANGED <<dirty, staged>> /\ overlapped \subseteq overlapped'
      BY <1>1 DEF Begin, tree
    <3>2. pc' = [pc EXCEPT ![r] = IF Clean THEN IF head = Dev THEN "sync" ELSE "switch"
                                  ELSE "done"]
      BY <1>1 DEF Begin, Check, Goto
    <3>3. CASE Clean
      BY <3>1, <3>2, <3>3 DEF CheckoutTypeOK
    <3>4. CASE ~Clean
      BY <3>1, <3>2, <3>4 DEF CheckoutTypeOK
    <3> QED BY <3>3, <3>4
  <2>3. TreeOf(r)'
    BY <2>1, <2>2 DEF TreeOf, Clean, Unapplied, Applied, Passed, Unbranched
  <2>4. \A s \in Runs \ {r} : s \notin overlapped' => TreeOf(s)'
    BY <2>2 DEF AloneTree, TreeOf
  <2> QED BY <2>3, <2>4 DEF AloneTree
<1>2. ASSUME NEW r \in Runs, Starts(r) \/ Stages(r) \/ Delivers(r) \/ Ends(r), ~Begin(r)
     PROVE AloneTree'
  <2>1. /\ Live(r) /\ overlapped' = overlapped
        /\ \A s \in Runs \ {r} : pc'[s] = pc[s]
    BY <1>2, OneMoves
  <2>2. \A s \in Runs \ {r} : s \notin overlapped' => TreeOf(s)'
    <3> SUFFICES ASSUME NEW s \in Runs \ {r}, s \notin overlapped PROVE TreeOf(s)'
      BY <2>1
    <3>1. pc'[s] \in {"idle", "done"}
      BY <2>1 DEF AloneNow, Live
    <3> QED BY <3>1 DEF TreeOf, Unapplied, Applied, Passed, Unbranched
  <2> SUFFICES ASSUME r \notin overlapped PROVE TreeOf(r)'
    BY <2>1, <2>2 DEF AloneTree
  <2>3. CASE ApplyPatch(r)
    <3>1. dirty = Nothing /\ staged = Nothing /\ pc'[r] = "changed" /\ staged' = staged
      BY <2>3 DEF ApplyPatch, Goto, AloneTree, TreeOf, Unapplied, CheckoutTypeOK
    <3>2. /\ dirty' \in Contents /\ \A f \in Files : dirty'[f] \subseteq {r}
          /\ Names(dirty') = Changes[r]
      BY <2>3, <3>1, Patched, OwnNames DEF Names, Nothing
    <3>3. dirty' = Own(r)
      BY <3>2, ByName
    <3> QED BY <3>1, <3>3 DEF TreeOf, Unapplied, Applied, Passed, Unbranched, Own,
         Nothing
  <2>4. CASE Add(r)
    <3>1. /\ dirty = Own(r) /\ staged \in {Nothing, Own(r)} /\ dirty' = dirty
          /\ pc'[r] = "verify"
          /\ staged' = [f \in Files |-> IF f \in Changes[r] THEN dirty[f] ELSE staged[f]]
      BY <2>4 DEF Add, Goto, AloneTree, TreeOf, Applied, Passed, CheckoutTypeOK
    <3>2. staged' = Own(r)
      BY <3>1 DEF Own, Nothing
    <3> QED BY <3>1, <3>2 DEF TreeOf, Unapplied, Applied, Passed, Unbranched, Own
  <2>5. CASE CheckStaged(r)
    <3>1. /\ pc[r] \in {"verify", "staged"} /\ UNCHANGED <<dirty, staged>>
          /\ \/ pc'[r] \in {"staged", "commit"} /\ Names(staged) = Changes[r]
             \/ pc'[r] = "compare"
      BY <2>5 DEF CheckStaged, Check, Goto, tree, CheckoutTypeOK
    <3>2. dirty = Own(r) /\ staged \in {Nothing, Own(r)}
      BY <3>1 DEF AloneTree, TreeOf, Applied, Passed
    <3>3. Names(staged) = Changes[r] => staged = Own(r)
      BY <3>2, OwnNames
    <3> QED BY <3>1, <3>2, <3>3 DEF TreeOf, Unapplied, Applied, Passed, Unbranched, Own
  <2>6. CASE Commit(r)
    <3>1. pc'[r] = "committed"
      BY <2>6 DEF Commit, Goto, CheckoutTypeOK
    <3> QED BY <3>1 DEF TreeOf, Unapplied, Applied, Passed, Unbranched
  <2>7. CASE CheckRestore(r) \/ Restore(r) \/ GiveUp(r)
    <3>1. pc'[r] \notin Unapplied \cup Applied
      <4>1. PICK at \in {"done", "compare", "restore again", "back", "back again"} :
                   pc' = [pc EXCEPT ![r] = at]
        BY <2>7, Retreats
      <4> QED BY <4>1 DEF CheckoutTypeOK, Unapplied, Applied, Passed, Unbranched
    <3> QED BY <3>1 DEF TreeOf, Applied, Passed
  <2>8. CASE SwitchToDev(r) \/ Sync(r) \/ CreateBranch(r) \/ Work(r) \/ CheckoutBranch(r)
    <3>1. /\ UNCHANGED <<dirty, staged>> /\ pc[r] \in Unapplied
          /\ pc'[r] \in Unapplied \cup {"done"}
      BY <2>8 DEF SwitchToDev, Sync, CreateBranch, Work, CheckoutBranch, Check, Goto,
           tree, CheckoutTypeOK, Unapplied, Unbranched
    <3> QED BY <3>1 DEF AloneTree, TreeOf, Unapplied, Applied, Passed, Unbranched,
         Nothing
  <2>9. CASE CheckChanged(r) \/ CheckIndex(r)
    <3>1. /\ UNCHANGED <<dirty, staged>> /\ pc[r] \in Applied
          /\ pc'[r] \in {"index", "add", "compare"}
      BY <2>9 DEF CheckChanged, CheckIndex, Check, Goto, tree, CheckoutTypeOK, Applied,
           Passed
    <3> QED BY <3>1 DEF AloneTree, TreeOf, Unapplied, Applied, Passed, Unbranched,
         Nothing, Own
  <2>10. CASE SkipPullRequest(r) \/ CheckBranch(r) \/ Push(r) \/ OpenPullRequest(r)
              \/ RecordUrl(r)
    <3>1. pc'[r] \in {"restore", "push", "compare", "open", "url"}
      BY <2>10 DEF SkipPullRequest, CheckBranch, Push, OpenPullRequest, RecordUrl,
           Check, Goto, CheckoutTypeOK
    <3> QED BY <3>1 DEF TreeOf, Unapplied, Applied, Passed, Unbranched
  <2>11. CASE CompareBranch(r) \/ DeleteBranch(r) \/ Kill(r)
    <3>1. pc'[r] \in {"delete", "done"}
      BY <2>11 DEF CompareBranch, DeleteBranch, Kill, Check, Goto, CheckoutTypeOK
    <3> QED BY <3>1 DEF TreeOf, Unapplied, Applied, Passed, Unbranched
  <2> QED BY <1>2, <2>3, <2>4, <2>5, <2>6, <2>7, <2>8, <2>9, <2>10, <2>11
       DEF Starts, Stages, Delivers, Ends
<1> QED BY <1>0, <1>1, <1>2 DEF Next

\* Every step of a run that is alone brings it further, and none of another
\* run takes it back.
LEMMA AloneStepsStep == IInv /\ [Next]_vars => AloneSteps'
<1> SUFFICES ASSUME IInv, [Next]_vars PROVE AloneSteps'
  OBVIOUS
<1> USE CheckoutAssumption
<1>0. CASE UNCHANGED vars
  BY <1>0 DEF vars, IInv, CheckoutTypeOK, History, AloneNow, AloneSteps,
       AloneDeliversItsWork, Live, CheckedOut, Uncommitted, Unrecorded, Passed,
       Applied, Unapplied, Unbranched, Branches
<1>1. ASSUME NEW r \in Runs, Starts(r) \/ Stages(r) \/ Delivers(r) \/ Ends(r) PROVE AloneSteps'
  <2>1. CASE Begin(r)
    BY <2>1 DEF Begin, Check, tree, refs, history, Goto, IInv, CheckoutTypeOK,
         History, AloneNow, AloneSteps, AloneDeliversItsWork, Live, CheckedOut,
         Uncommitted, Unrecorded, Passed, Applied, Unapplied, Unbranched, Branches
  <2>2. CASE SwitchToDev(r)
    BY <2>2 DEF SwitchToDev, Goto, Checkout, tree, refs, history, IInv,
         CheckoutTypeOK, History, AloneNow, AloneSteps, AloneDeliversItsWork, Live,
         CheckedOut, Uncommitted, Unrecorded, Passed, Applied, Unapplied, Unbranched,
         Branches
  <2>3. CASE Sync(r)
    BY <2>3 DEF Sync, Check, tree, refs, history, Goto, IInv, CheckoutTypeOK,
         History, AloneNow, AloneSteps, AloneDeliversItsWork, Live, CheckedOut,
         Uncommitted, Unrecorded, Passed, Applied, Unapplied, Unbranched, Branches
  <2>4. CASE CreateBranch(r)
    BY <2>4 DEF CreateBranch, Check, tree, history, Goto, IInv, CheckoutTypeOK,
         History, AloneNow, AloneSteps, AloneDeliversItsWork, Live, CheckedOut,
         Uncommitted, Unrecorded, Passed, Applied, Unapplied, Unbranched, Branches
  <2>5. CASE Work(r)
    BY <2>5 DEF Work, Goto, tree, refs, history, IInv, CheckoutTypeOK, History,
         AloneNow, AloneSteps, AloneDeliversItsWork, Live, CheckedOut, Uncommitted,
         Unrecorded, Passed, Applied, Unapplied, Unbranched, Branches
  <2>6. CASE CheckoutBranch(r)
    BY <2>6 DEF CheckoutBranch, Goto, Checkout, tree, refs, history, IInv,
         CheckoutTypeOK, History, AloneNow, AloneSteps, AloneDeliversItsWork, Live,
         CheckedOut, Uncommitted, Unrecorded, Passed, Applied, Unapplied, Unbranched,
         Branches
  <2>7. CASE ApplyPatch(r)
    BY <2>7 DEF ApplyPatch, Goto, refs, history, IInv, CheckoutTypeOK, History,
         AloneNow, AloneSteps, AloneDeliversItsWork, Live, CheckedOut, Uncommitted,
         Unrecorded, Passed, Applied, Unapplied, Unbranched, Branches
  <2>8. CASE CheckChanged(r)
    BY <2>8 DEF CheckChanged, Check, tree, refs, history, Goto, IInv, CheckoutTypeOK,
         History, AloneNow, AloneSteps, AloneDeliversItsWork, Live, CheckedOut,
         Uncommitted, Unrecorded, Passed, Applied, Unapplied, Unbranched, Branches
  <2>9. CASE CheckIndex(r)
    BY <2>9 DEF CheckIndex, Check, tree, refs, history, Goto, IInv, CheckoutTypeOK,
         History, AloneNow, AloneSteps, AloneDeliversItsWork, Live, CheckedOut,
         Uncommitted, Unrecorded, Passed, Applied, Unapplied, Unbranched, Branches
  <2>10. CASE Add(r)
    BY <2>10 DEF Add, Goto, refs, history, IInv, CheckoutTypeOK, History, AloneNow,
         AloneSteps, AloneDeliversItsWork, Live, CheckedOut, Uncommitted,
         Unrecorded, Passed, Applied, Unapplied, Unbranched, Branches
  <2>11. CASE CheckStaged(r)
    BY <2>11 DEF CheckStaged, Check, tree, refs, history, Goto, IInv, CheckoutTypeOK,
         History, AloneNow, AloneSteps, AloneDeliversItsWork, Live, CheckedOut,
         Uncommitted, Unrecorded, Passed, Applied, Unapplied, Unbranched, Branches
  <2>12. CASE Commit(r)
    BY <2>12 DEF Commit, Goto, IInv, CheckoutTypeOK, History, AloneNow, AloneSteps,
         AloneDeliversItsWork, Live, CheckedOut, Uncommitted, Unrecorded, Passed,
         Applied, Unapplied, Unbranched, Branches
  <2>13. CASE SkipPullRequest(r)
    BY <2>13 DEF SkipPullRequest, Goto, tree, refs, history, IInv, CheckoutTypeOK,
         History, AloneNow, AloneSteps, AloneDeliversItsWork, Live, CheckedOut,
         Uncommitted, Unrecorded, Passed, Applied, Unapplied, Unbranched, Branches
  <2>14. CASE CheckBranch(r)
    BY <2>14 DEF CheckBranch, Check, tree, refs, history, Goto, IInv, CheckoutTypeOK,
         History, AloneNow, AloneSteps, AloneDeliversItsWork, Live, CheckedOut,
         Uncommitted, Unrecorded, Passed, Applied, Unapplied, Unbranched, Branches
  <2>15. CASE Push(r)
    BY <2>15 DEF Push, Goto, tree, history, IInv, CheckoutTypeOK, History, AloneNow,
         AloneSteps, AloneDeliversItsWork, Live, CheckedOut, Uncommitted,
         Unrecorded, Passed, Applied, Unapplied, Unbranched, Branches
  <2>16. CASE OpenPullRequest(r)
    BY <2>16 DEF OpenPullRequest, Check, Proposable, tree, Goto, IInv, CheckoutTypeOK,
         History, AloneNow, AloneSteps, AloneDeliversItsWork, Live, CheckedOut,
         Uncommitted, Unrecorded, Passed, Applied, Unapplied, Unbranched, Branches
  <2>17. CASE RecordUrl(r)
    BY <2>17 DEF RecordUrl, Goto, tree, refs, IInv, CheckoutTypeOK, History,
         AloneNow, AloneSteps, AloneDeliversItsWork, Live, CheckedOut, Uncommitted,
         Unrecorded, Passed, Applied, Unapplied, Unbranched, Branches
  <2>18. CASE CompareBranch(r)
    BY <2>18 DEF CompareBranch, Check, tree, refs, history, Goto, IInv,
         CheckoutTypeOK, History, AloneNow, AloneSteps, AloneDeliversItsWork, Live,
         CheckedOut, Uncommitted, Unrecorded, Passed, Applied, Unapplied, Unbranched,
         Branches
  <2>19. CASE DeleteBranch(r)
    BY <2>19 DEF DeleteBranch, Goto, tree, history, IInv, CheckoutTypeOK, History,
         AloneNow, AloneSteps, AloneDeliversItsWork, Live, CheckedOut, Uncommitted,
         Unrecorded, Passed, Applied, Unapplied, Unbranched, Branches
  <2>20. CASE CheckRestore(r) \/ Restore(r) \/ GiveUp(r)
    <3>1. PICK at \in {"done", "compare", "restore again", "back", "back again"} :
                 pc' = [pc EXCEPT ![r] = at]
      BY <2>20, Retreats DEF IInv
    <3>2. /\ Live(r) /\ head' \in {head, Dev}
          /\ UNCHANGED <<dirty, staged, local, remote, prs, commit,
                         landed, opened, url, overlapped, clashed>>
      BY <2>20, Retreats DEF IInv
    <3> QED BY <3>1, <3>2 DEF IInv, CheckoutTypeOK, History, AloneNow, AloneSteps,
         AloneDeliversItsWork, Live, CheckedOut, Uncommitted, Unrecorded, Passed,
         Applied, Unapplied, Unbranched, Branches
  <2>21. CASE Kill(r)
    BY <2>21 DEF Kill, Goto, tree, refs, history, IInv, CheckoutTypeOK, History,
         AloneNow, AloneSteps, AloneDeliversItsWork, Live, CheckedOut, Uncommitted,
         Unrecorded, Passed, Applied, Unapplied, Unbranched, Branches
  <2> QED BY <1>1, <2>1, <2>2, <2>3, <2>4, <2>5, <2>6, <2>7, <2>8, <2>9, <2>10, <2>11,
       <2>12, <2>13, <2>14, <2>15, <2>16, <2>17, <2>18, <2>19, <2>20, <2>21 DEF
       Starts, Stages, Delivers, Ends
<1> QED BY <1>0, <1>1 DEF Next

\* Nor does a later run undo what it delivered.
LEMMA AloneDeliversStep == IInv /\ [Next]_vars => AloneDeliversItsWork'
<1> SUFFICES ASSUME IInv, [Next]_vars PROVE AloneDeliversItsWork'
  OBVIOUS
<1> USE CheckoutAssumption
<1>0. CASE UNCHANGED vars
  BY <1>0 DEF vars, IInv, CheckoutTypeOK, History, AloneNow, AloneSteps,
       AloneDeliversItsWork, Live, CheckedOut, Uncommitted, Unrecorded, Passed,
       Applied, Unapplied, Unbranched, Branches
<1>1. ASSUME NEW r \in Runs, Starts(r) \/ Stages(r) \/ Delivers(r) \/ Ends(r)
     PROVE AloneDeliversItsWork'
  <2>1. CASE Begin(r)
    BY <2>1 DEF Begin, Check, tree, refs, history, Goto, IInv, CheckoutTypeOK,
         History, AloneNow, AloneSteps, AloneDeliversItsWork, Live, CheckedOut,
         Uncommitted, Unrecorded, Passed, Applied, Unapplied, Unbranched, Branches
  <2>2. CASE SwitchToDev(r)
    BY <2>2 DEF SwitchToDev, Goto, Checkout, tree, refs, history, IInv,
         CheckoutTypeOK, History, AloneNow, AloneSteps, AloneDeliversItsWork, Live,
         CheckedOut, Uncommitted, Unrecorded, Passed, Applied, Unapplied, Unbranched,
         Branches
  <2>3. CASE Sync(r)
    BY <2>3 DEF Sync, Check, tree, refs, history, Goto, IInv, CheckoutTypeOK,
         History, AloneNow, AloneSteps, AloneDeliversItsWork, Live, CheckedOut,
         Uncommitted, Unrecorded, Passed, Applied, Unapplied, Unbranched, Branches
  <2>4. CASE CreateBranch(r)
    <3>1. landed[r] = None
      BY <2>4 DEF CreateBranch, IInv, History, Uncommitted, Unapplied, Unbranched
    <3>2. /\ UNCHANGED <<remote, commit, landed, url, overlapped>>
          /\ \A s \in Runs \ {r} : local'[s] = local[s]
      BY <2>4 DEF CreateBranch, IInv, CheckoutTypeOK, Branches, history
    <3> QED BY <3>1, <3>2 DEF IInv, AloneDeliversItsWork
  <2>5. CASE Work(r)
    BY <2>5 DEF Work, Goto, tree, refs, history, IInv, CheckoutTypeOK, History,
         AloneNow, AloneSteps, AloneDeliversItsWork, Live, CheckedOut, Uncommitted,
         Unrecorded, Passed, Applied, Unapplied, Unbranched, Branches
  <2>6. CASE CheckoutBranch(r)
    BY <2>6 DEF CheckoutBranch, Goto, Checkout, tree, refs, history, IInv,
         CheckoutTypeOK, History, AloneNow, AloneSteps, AloneDeliversItsWork, Live,
         CheckedOut, Uncommitted, Unrecorded, Passed, Applied, Unapplied, Unbranched,
         Branches
  <2>7. CASE ApplyPatch(r)
    BY <2>7 DEF ApplyPatch, Goto, refs, history, IInv, CheckoutTypeOK, History,
         AloneNow, AloneSteps, AloneDeliversItsWork, Live, CheckedOut, Uncommitted,
         Unrecorded, Passed, Applied, Unapplied, Unbranched, Branches
  <2>8. CASE CheckChanged(r)
    BY <2>8 DEF CheckChanged, Check, tree, refs, history, Goto, IInv, CheckoutTypeOK,
         History, AloneNow, AloneSteps, AloneDeliversItsWork, Live, CheckedOut,
         Uncommitted, Unrecorded, Passed, Applied, Unapplied, Unbranched, Branches
  <2>9. CASE CheckIndex(r)
    BY <2>9 DEF CheckIndex, Check, tree, refs, history, Goto, IInv, CheckoutTypeOK,
         History, AloneNow, AloneSteps, AloneDeliversItsWork, Live, CheckedOut,
         Uncommitted, Unrecorded, Passed, Applied, Unapplied, Unbranched, Branches
  <2>10. CASE Add(r)
    BY <2>10 DEF Add, Goto, refs, history, IInv, CheckoutTypeOK, History, AloneNow,
         AloneSteps, AloneDeliversItsWork, Live, CheckedOut, Uncommitted,
         Unrecorded, Passed, Applied, Unapplied, Unbranched, Branches
  <2>11. CASE CheckStaged(r)
    BY <2>11 DEF CheckStaged, Check, tree, refs, history, Goto, IInv, CheckoutTypeOK,
         History, AloneNow, AloneSteps, AloneDeliversItsWork, Live, CheckedOut,
         Uncommitted, Unrecorded, Passed, Applied, Unapplied, Unbranched, Branches
  <2>12. CASE Commit(r)
    <3>1. /\ commit' = [commit EXCEPT ![r] = staged] /\ landed' = [landed EXCEPT ![r] = head]
          /\ local' = [local EXCEPT ![head] = @ \cup {r}] /\ pc[r] = "commit"
          /\ UNCHANGED <<remote, url, overlapped>>
      BY <2>12 DEF Commit
    <3>2. r \notin overlapped => staged = Own(r) /\ head = r
      BY <3>1 DEF IInv, AloneTree, TreeOf, AloneSteps, CheckedOut, Applied, Passed
    <3>3. \A b \in Branches : local[b] \subseteq local'[b]
      BY <3>1 DEF IInv, CheckoutTypeOK
    <3>4. \A s \in Runs : Own(s)' = Own(s)
      BY DEF Own
    <3> QED BY <3>1, <3>2, <3>3, <3>4 DEF IInv, AloneDeliversItsWork, CheckoutTypeOK,
         Branches
  <2>13. CASE SkipPullRequest(r)
    BY <2>13 DEF SkipPullRequest, Goto, tree, refs, history, IInv, CheckoutTypeOK,
         History, AloneNow, AloneSteps, AloneDeliversItsWork, Live, CheckedOut,
         Uncommitted, Unrecorded, Passed, Applied, Unapplied, Unbranched, Branches
  <2>14. CASE CheckBranch(r)
    BY <2>14 DEF CheckBranch, Check, tree, refs, history, Goto, IInv, CheckoutTypeOK,
         History, AloneNow, AloneSteps, AloneDeliversItsWork, Live, CheckedOut,
         Uncommitted, Unrecorded, Passed, Applied, Unapplied, Unbranched, Branches
  <2>15. CASE Push(r)
    BY <2>15 DEF Push, Goto, tree, history, IInv, CheckoutTypeOK, History, AloneNow,
         AloneSteps, AloneDeliversItsWork, Live, CheckedOut, Uncommitted,
         Unrecorded, Passed, Applied, Unapplied, Unbranched, Branches
  <2>16. CASE OpenPullRequest(r)
    BY <2>16 DEF OpenPullRequest, Check, Proposable, tree, Goto, IInv, CheckoutTypeOK,
         History, AloneNow, AloneSteps, AloneDeliversItsWork, Live, CheckedOut,
         Uncommitted, Unrecorded, Passed, Applied, Unapplied, Unbranched, Branches
  <2>17. CASE RecordUrl(r)
    BY <2>17 DEF RecordUrl, Goto, tree, refs, IInv, CheckoutTypeOK, History,
         AloneNow, AloneSteps, AloneDeliversItsWork, Live, CheckedOut, Uncommitted,
         Unrecorded, Passed, Applied, Unapplied, Unbranched, Branches
  <2>18. CASE CompareBranch(r)
    BY <2>18 DEF CompareBranch, Check, tree, refs, history, Goto, IInv,
         CheckoutTypeOK, History, AloneNow, AloneSteps, AloneDeliversItsWork, Live,
         CheckedOut, Uncommitted, Unrecorded, Passed, Applied, Unapplied, Unbranched,
         Branches
  <2>19. CASE DeleteBranch(r)
    BY <2>19 DEF DeleteBranch, Goto, tree, history, IInv, CheckoutTypeOK, History,
         AloneNow, AloneSteps, AloneDeliversItsWork, Live, CheckedOut, Uncommitted,
         Unrecorded, Passed, Applied, Unapplied, Unbranched, Branches
  <2>20. CASE CheckRestore(r) \/ Restore(r) \/ GiveUp(r)
    <3>1. PICK at \in {"done", "compare", "restore again", "back", "back again"} :
                 pc' = [pc EXCEPT ![r] = at]
      BY <2>20, Retreats DEF IInv
    <3>2. /\ Live(r) /\ head' \in {head, Dev}
          /\ UNCHANGED <<dirty, staged, local, remote, prs, commit,
                         landed, opened, url, overlapped, clashed>>
      BY <2>20, Retreats DEF IInv
    <3> QED BY <3>1, <3>2 DEF IInv, CheckoutTypeOK, History, AloneNow, AloneSteps,
         AloneDeliversItsWork, Live, CheckedOut, Uncommitted, Unrecorded, Passed,
         Applied, Unapplied, Unbranched, Branches
  <2>21. CASE Kill(r)
    BY <2>21 DEF Kill, Goto, tree, refs, history, IInv, CheckoutTypeOK, History,
         AloneNow, AloneSteps, AloneDeliversItsWork, Live, CheckedOut, Uncommitted,
         Unrecorded, Passed, Applied, Unapplied, Unbranched, Branches
  <2> QED BY <1>1, <2>1, <2>2, <2>3, <2>4, <2>5, <2>6, <2>7, <2>8, <2>9, <2>10, <2>11,
       <2>12, <2>13, <2>14, <2>15, <2>16, <2>17, <2>18, <2>19, <2>20, <2>21 DEF
       Starts, Stages, Delivers, Ends
<1> QED BY <1>0, <1>1 DEF Next

-----------------------------------------------------------------------------
(* The theorems *)

THEOREM Invariance == Spec => []IInv
<1>1. Init => IInv
  BY CheckoutAssumption DEF Init, IInv, CheckoutTypeOK, Branches, Unbranched,
       Publishing, Exclusive, Passed, Applied, Unapplied, AloneTree, TreeOf, Contents,
       Nothing, Names, CommitsAreOneRuns, History, Uncommitted, Unrecorded, AloneNow,
       Live, CheckedOut, AloneSteps, AloneDeliversItsWork
<1>2. IInv /\ [Next]_vars => IInv'
  BY TypeStep, ExclusiveStep, CommitStep, HistoryStep, AloneNowStep, AloneTreeStep,
     AloneStepsStep, AloneDeliversStep
     DEF IInv
<1> QED BY <1>1, <1>2, PTL DEF Spec

\* In every state the variables have their types, and a file that differs in the
\* index differs in the working tree.
THEOREM CheckoutTypeCorrect == Spec => []CheckoutTypeOK
<1>1. IInv => CheckoutTypeOK
  BY DEF IInv
<1> QED BY Invariance, <1>1, PTL

\* However many runs publish from one checkout, with whatever files in common, and
\* whichever of them fail or are killed between which commands: until a run applies
\* its patch to a file that has another run's change, a commit made by way of
\* safe-stage-after-review.sh and commit-after-staging.sh has all the changes of its
\* own run and no others.
THEOREM CommitsStayApart == Spec => []CommitsAreOneRuns
<1>1. IInv => CommitsAreOneRuns
  BY DEF IInv
<1> QED BY Invariance, <1>1, PTL

\* A run that has the checkout for itself commits its own changes alone to its own
\* branch and records a pull request with that commit alone, whatever all the runs
\* before it, overlapped ones and clashes among them, left in the repository.
THEOREM AloneDelivers == Spec => []AloneDeliversItsWork
<1>1. IInv => AloneDeliversItsWork
  BY DEF IInv
<1> QED BY Invariance, <1>1, PTL
=============================================================================
