----------------------------- MODULE MCRunLoop -----------------------------
(***************************************************************************)
(* Instances of RunLoop for TLC: the opinions the reviewers may hold.      *)
(***************************************************************************)
EXTENDS RunLoop, TLC

High(c)   == [severity |-> "high",   category |-> c]
Medium(c) == [severity |-> "medium", category |-> c]
Low(c)    == [severity |-> "low",    category |-> c]

Opinion(v, F) == [verdict |-> v, findings |-> F]

Approves == Opinion("LGTM", {})
ApprovesWithResidue == Opinion("LGTM", {Medium("test")})
WantsFix == Opinion("fix_required", {Medium("test")})

\* One opinion for each way a report is decided on.
AllOpinions ==
  { Approves, ApprovesWithResidue, WantsFix,
    Opinion("LGTM", {Low("style"), High("tooling")}),
    Opinion("fix_required", {}),
    Opinion("fix_required", {High("correctness")}),
    Opinion("blocked", {}) }

FewOpinions == { Approves, ApprovesWithResidue, WantsFix }
=============================================================================
