--------------------------- MODULE MCControlFiles ---------------------------
EXTENDS ControlFiles, TLC

Update(f, o) == [file |-> f, op |-> o]

\* A tick leases a worktree and then writes the records of its lane.
MCTickWork == <<Update("leases", "put"), Update("registry", "put")>>

\* A tick without the lock, a task that is created, a renewal, a lane that is
\* taken out for a rerun.
MCCommandWork ==
  {MCTickWork, <<Update("registry", "put")>>, <<Update("leases", "renew")>>,
   <<Update("leases", "drop"), Update("registry", "drop")>>}

Symmetry == Permutations(Loops)
=============================================================================
