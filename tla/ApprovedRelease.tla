-------------------------- MODULE ApprovedRelease --------------------------
(***************************************************************************)
(* What a HOCA run promises about its pull request: the branch it pushes   *)
(* holds exactly the items that were approved, they were part of the work  *)
(* at the moment of the approval, and the work was not touched in between. *)
(***************************************************************************)
CONSTANTS Items, None

VARIABLES
  work,      \* what the worker has made so far
  approved,  \* what the reviewer approved of the present work, or None
  released   \* what is on the pushed branch, or None

vars == <<work, approved, released>>

Init == work = {} /\ approved = None /\ released = None

\* Any change of the work ends its approval.
Rework ==
  /\ released = None
  /\ work' \in SUBSET Items
  /\ approved' = None
  /\ UNCHANGED released

Approve ==
  /\ released = None /\ approved = None
  /\ approved' \in SUBSET work
  /\ UNCHANGED <<work, released>>

Release ==
  /\ released = None /\ approved # None
  /\ released' = approved
  /\ UNCHANGED <<work, approved>>

\* The task is run again, on another branch.
StartOver == work' = {} /\ approved' = None /\ released' = None

Next == Rework \/ Approve \/ Release \/ StartOver

Spec == Init /\ [][Next]_vars
=============================================================================
