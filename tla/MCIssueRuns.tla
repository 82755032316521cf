---------------------------- MODULE MCIssueRuns -----------------------------
EXTENDS IssueRuns, TLC

File(n, ks) == [name |-> n, kinds |-> ks]

Guide == File("guide", {"doc", "in area"})
PermissionsGuide == File("permissions guide", {"doc", "risk pattern", "in area"})
Chart == File("chart", {"example", "infrastructure"})

Text(ts, ps) == [traits |-> ts, repository |-> TRUE, paths |-> ps, commands |-> {}]

\* A small task, a risky one, and one that is not ready.
MCTasks == {Text({}, {Guide}), Text({"high-risk word"}, {}), Text({"short"}, {})}
MCProject == [paths |-> {}, commands |-> {"pytest"}]

Env(keep, auto, express, rounds) ==
  [keep |-> keep, auto |-> auto, express |-> express, rounds |-> rounds, timeout |-> Unset,
   floor |-> [rounds |-> 1, timeout |-> 240], ceiling |-> [rounds |-> 3, timeout |-> 1200]]
MCEnvironments == {Env(FALSE, FALSE, FALSE, 0), Env(TRUE, TRUE, FALSE, 2), Env(TRUE, TRUE, TRUE, 3)}

Change(fs) == [files |-> fs, long |-> FALSE]
MCChanges == {Change({Guide}), Change({PermissionsGuide}), Change({Chart})}
MCJustifications == {NoJustification, [files |-> {Chart}, broad |-> FALSE]}

\* For the lock alone: one task that changes nothing, with the runtime kept or not.
LockTasks == {Text({}, {Guide})}
LockEnvironments == {Env(FALSE, FALSE, FALSE, 0), Env(TRUE, FALSE, FALSE, 0)}
LockChanges == {NoChange}
LockJustifications == {NoJustification}

Symmetry == Permutations(Runs)
=============================================================================
