-------------------------- MODULE MCFleetScheduler --------------------------
(***************************************************************************)
(* Instances of FleetScheduler for TLC: two or three tasks in one or two   *)
(* projects, with the constant functions written out.                      *)
(***************************************************************************)
EXTENDS FleetScheduler, TLC

CONSTANTS t1, t2, t3, p1, p2, area, manifest, m1, m2

OneProject == [t \in Tasks |-> p1]
TwoProjects == [t \in Tasks |-> IF t = t3 THEN p2 ELSE p1]
RankByName == [t \in Tasks |-> CASE t = t1 -> 1 [] t = t2 -> 2 [] OTHER -> 3]
UnitWeight == [t \in Tasks |-> 1]
NothingAfter == [t \in Tasks |-> {}]
SecondAfterFirst == [t \in Tasks |-> IF t = t2 THEN {t1} ELSE {}]
DisjointAreas == [t \in Tasks |-> {t}]

\* t1 and t2 overlap, t2 serialises the project, t1 and t3 may run together.
MixedAreas ==
  [t \in Tasks |-> CASE t = t1 -> {area} [] t = t2 -> {area, manifest} [] OTHER -> {t3}]

NoModels == [t \in Tasks |-> {}]
OwnModel == [t \in Tasks |-> IF t = t1 THEN {m1} ELSE {m2}]
CapTwo == [p \in Projects |-> 2]

OperatorCommands == {"project add", "task create", "task cancel", "task block",
                     "lane stop", "lane rerun", "fleet cleanup"}
AllCommands == OperatorCommands \cup {"project remove"}
=============================================================================
