------------------------- MODULE ControlFilesProofs -------------------------
(***************************************************************************)
(* Theorems about ControlFiles, for any number of loops and commands and   *)
(* any work of a tick and of a command.                                    *)
(***************************************************************************)
EXTENDS ControlFiles, FiniteSetTheorems, SequenceTheorems, TLAPS

-----------------------------------------------------------------------------
(* The inductive invariant *)

\* The index the process is updating.
Target(p) == Head(proc[p].todo).file

\* What a process remembers at each step of its program.
PhaseInv ==
  \A p \in Procs :
    /\ At(p) \in {"load", "temp", "write", "replace"} => proc[p].todo # <<>>
    /\ At(p) \in {"temp", "write", "replace"} => proc[p].next # None
    /\ At(p) \in {"write", "fill"} <=> proc[p].fd # None
    /\ At(p) \in {"read", "unlink", "open", "fill", "release", "remove"} => p \in Loops

TypeInv == ControlTypeOK /\ PhaseInv

\* A file that is open for writing has no name but that of the writer's
\* temporary file or that of the index it writes, and for the pid file that one.
OpenFilesInv ==
  \A p \in Procs, n \in Names :
    name[n] # None /\ name[n] = proc[p].fd =>
      /\ At(p) = "fill" => n = "lock"
      /\ At(p) = "write" => n \in {Temp(p, Target(p)), Target(p)}

\* While no two loops have been acquiring the lock together, a loop that is
\* acquiring it or has it is the only one; the pid file it fills is still the
\* empty one it has opened, and from then on the file names it.
LockInv ==
  ~raced =>
    /\ \A p, q \in Loops : (Acquiring(p) \/ Owner(p)) /\ (Acquiring(q) \/ Owner(q)) => p = q
    /\ \A p \in Loops : At(p) = "fill" => name["lock"] = proc[p].fd /\ Content("lock") = Empty
    /\ \A p \in Loops : Owner(p) => Content("lock") = {p}

\* As long as no loop was killed, somebody is going to remove a pid file.
LeftInv ==
  name["lock"] # None =>
    \E p \in Loops : At(p) \in {"fill", "killed"} \/ Owner(p)

\* A process whose temporary file nobody else can take finds in it what it has
\* put there: always for the registry, for the leases while updates do not overlap.
TempInv ==
  \A p \in Procs, f \in Indexes :
    Updating(p, f) /\ (f = "registry" \/ f \notin clash) =>
      /\ At(p) = "write" => name[Temp(p, f)] = proc[p].fd /\ Content(Temp(p, f)) = Empty
      /\ At(p) = "replace" => name[Temp(p, f)] # None /\ Content(Temp(p, f)) = proc[p].next[2]

\* While updates do not overlap there is one at a time, and it goes from what
\* the completed ones have made.
UpdateInv ==
  \A f \in Indexes \ clash :
    /\ \A p, q \in Procs : Updating(p, f) /\ Updating(q, f) => p = q
    /\ \A p \in Procs : Updating(p, f) =>
         proc[p].next[2] = Apply(Head(proc[p].todo).op, proc[p].next[1], saved[f])
    /\ Load(f) = saved[f]

IInv ==
  /\ TypeInv /\ OpenFilesInv /\ LockInv /\ LeftInv /\ TempInv /\ UpdateInv
  /\ RegistryStaysReadable

-----------------------------------------------------------------------------
(* Names and files *)

\* The names are different from each other, and so are the files and the words
\* for having none.
LEMMA Distinct ==
  /\ \A p \in Procs, f \in Indexes :
       /\ p \notin Indexes \cup {"lock", "leases.tmp"} /\ p \in Names
       /\ Temp(p, f) \in Names /\ Temp(p, f) \notin Indexes \cup {"lock"}
  /\ \A p, q \in Procs, f, g \in Indexes :
       Temp(p, f) = Temp(q, g) => f = g /\ (f = "registry" => p = q)
  /\ "lock" \in Names /\ Indexes \subseteq Names /\ "lock" \notin Indexes
  /\ None \notin Files /\ Files \subseteq Nat
<1>1. Files \subseteq Nat
  BY FS_CardinalityType DEF Files
<1>. QED
  BY <1>1, ControlAssumption DEF Temp, Indexes, Names

\* There are finitely many names and processes.
LEMMA FiniteNames == IsFiniteSet(Names) /\ Cardinality(Names) \in Nat
                     /\ IsFiniteSet(Procs) /\ Cardinality(Procs) \in Nat
<1>1. IsFiniteSet(Procs)
  BY ControlAssumption
<1>2. IsFiniteSet({"leases", "registry"} \cup {"lock", "leases.tmp", "registry.tmp"})
  <2>1. {"leases", "registry"} \cup {"lock", "leases.tmp", "registry.tmp"}
        = {"leases"} \cup {"registry"} \cup {"lock"} \cup {"leases.tmp"} \cup {"registry.tmp"}
    OBVIOUS
  <2>. QED
    BY <2>1, FS_Singleton, FS_Union
<1>3. IsFiniteSet(Names)
  BY <1>1, <1>2, FS_Union DEF Names, Indexes
<1>. QED
  BY <1>1, <1>3, FS_CardinalityType

\* There are more files than names and open files, so one is always free.
LEMMA FreeFile == ASSUME TypeInv PROVE Free # {} /\ Free \subseteq Files
<1> DEFINE Named == {name[n] : n \in Names}
           Opened == {proc[p].fd : p \in Procs}
           opens == [p \in Procs |-> proc[p].fd]
<1>1. IsFiniteSet(Named) /\ Cardinality(Named) <= Cardinality(Names)
  <2>1. name \in Surjection(Names, Named)
    BY DEF TypeInv, ControlTypeOK, Surjection
  <2>. QED
    BY <2>1, FiniteNames, FS_Surjection
<1>2. IsFiniteSet(Opened) /\ Cardinality(Opened) <= Cardinality(Procs)
  <2>1. opens \in Surjection(Procs, Opened)
    BY DEF Surjection
  <2>. QED
    BY <2>1, FiniteNames, FS_Surjection
<1>3. /\ IsFiniteSet(Named \cup Opened)
      /\ Cardinality(Named \cup Opened) <= Cardinality(Names) + Cardinality(Procs)
  <2>1. Cardinality(Named) \in Nat /\ Cardinality(Opened) \in Nat
    BY <1>1, <1>2, FS_CardinalityType
  <2>2. /\ IsFiniteSet(Named \cup Opened) /\ Cardinality(Named \cap Opened) \in Nat
        /\ Cardinality(Named \cup Opened)
             = Cardinality(Named) + Cardinality(Opened) - Cardinality(Named \cap Opened)
    <3>1. IsFiniteSet(Named \cap Opened)
      BY <1>1, FS_Intersection
    <3>. QED
      BY <1>1, <1>2, <3>1, FS_Union, FS_CardinalityType
  <2>. QED
    BY <1>1, <1>2, <2>1, <2>2, FiniteNames
<1>4. IsFiniteSet(Files) /\ Cardinality(Files) = Cardinality(Names) + Cardinality(Procs) + 1
  <2>1. Cardinality(Names) + Cardinality(Procs) + 1 \in Nat
    BY FiniteNames
  <2>. QED
    BY <2>1, FS_Interval, FiniteNames DEF Files
<1>5. ASSUME Files \subseteq Named \cup Opened PROVE FALSE
  <2>1. Cardinality(Files) <= Cardinality(Named \cup Opened)
    BY <1>3, <1>5, FS_Subset
  <2>. QED
    BY <1>3, <1>4, <2>1, FiniteNames, FS_CardinalityType
<1>. QED
  BY <1>5 DEF Free

-----------------------------------------------------------------------------
(* How a step changes its process *)

Places == {"new", "read", "unlink", "open", "fill", "load", "temp", "write", "replace",
           "release", "remove", "done", "killed"}

Become(p, at, todo, next, fd) ==
  proc' = [proc EXCEPT ![p] = [at |-> at, todo |-> todo, next |-> next, fd |-> fd]]

\* Every step gives its process new values and leaves the other ones alone.
LEMMA Becomes ==
  ASSUME TypeInv, NEW p \in Procs, NEW at, NEW todo, NEW next, NEW fd,
         Become(p, at, todo, next, fd)
  PROVE  /\ proc'[p].at = at /\ proc'[p].todo = todo
         /\ proc'[p].next = next /\ proc'[p].fd = fd
         /\ \A q \in Procs : q # p => proc'[q] = proc[q]
         /\ [at |-> at, todo |-> todo, next |-> next, fd |-> fd] \in ProcType =>
              proc' \in [Procs -> ProcType]
  BY DEF Become, TypeInv, ControlTypeOK

\* Going to another place keeps what the process remembers, ending drops it.
LEMMA Gotos ==
  ASSUME TypeInv, NEW p \in Procs, NEW at
  PROVE  /\ Goto(p, at) => Become(p, at, proc[p].todo, proc[p].next, proc[p].fd)
         /\ Finish(p, at) => Become(p, at, <<>>, None, None)
<1>1. proc \in [Procs -> ProcType] /\ proc[p] \in ProcType
  BY DEF TypeInv, ControlTypeOK
<1>2. [proc[p] EXCEPT !.at = at]
      = [at |-> at, todo |-> proc[p].todo, next |-> proc[p].next, fd |-> proc[p].fd]
  BY <1>1 DEF ProcType
<1>. QED
  BY <1>1, <1>2 DEF Goto, Finish, Become, Idle

\* The end of an update: the process goes on with the next one or leaves.
LEMMA Leaves ==
  ASSUME TypeInv, NEW p \in Procs, At(p) \in {"load", "replace"}
  PROVE  /\ Leave(p) => Become(p, IF p \in Loops THEN "release" ELSE "done", <<>>, None, None)
         /\ NextUpdate(p) =>
              \/ Leave(p)
              \/ /\ proc[p].todo # <<>> /\ Tail(proc[p].todo) # <<>>
                 /\ Tail(proc[p].todo) \in Seq(Updates)
                 /\ Become(p, "load", Tail(proc[p].todo), None, None)
<1>1. proc \in [Procs -> ProcType] /\ proc[p] \in ProcType /\ proc[p].todo # <<>>
  BY DEF TypeInv, ControlTypeOK, PhaseInv
<1>2. proc[p].todo \in Seq(Updates)
  BY <1>1 DEF ProcType
<1>3. Len(proc[p].todo) # 1 =>
        Tail(proc[p].todo) # <<>> /\ Tail(proc[p].todo) \in Seq(Updates)
  <2>1. proc[p].todo # <<>> /\ Len(proc[p].todo) \in Nat
    BY <1>1, <1>2
  <2>2. /\ Tail(proc[p].todo) \in Seq(Updates)
        /\ Len(Tail(proc[p].todo)) = Len(proc[p].todo) - 1
    BY <1>2, <2>1, HeadTailProperties
  <2>3. ASSUME Tail(proc[p].todo) = <<>>, Len(proc[p].todo) # 1 PROVE FALSE
    <3>1. Len(Tail(proc[p].todo)) = 0
      BY <2>3, EmptySeq, Zenon
    <3>. QED
      BY <2>1, <2>2, <2>3, <3>1
  <2>. QED
    BY <2>2, <2>3
<1>4. NextUpdate(p) /\ Len(proc[p].todo) # 1 =>
        Become(p, "load", Tail(proc[p].todo), None, None)
  BY <1>1 DEF NextUpdate, Become, Idle
<1>. QED
  BY <1>1, <1>3, <1>4, Gotos DEF NextUpdate, Leave

\* Going or ending somewhere is being there afterwards.
LEMMA GotoAt ==
  ASSUME TypeInv, NEW p \in Procs, NEW at, Goto(p, at) \/ Finish(p, at)
  PROVE  At(p)' = at
<1>1. \/ Become(p, at, proc[p].todo, proc[p].next, proc[p].fd)
      \/ Become(p, at, <<>>, None, None)
  BY Gotos
<1>. QED
  BY <1>1, Becomes DEF At

\* What the two assignments of an action make of the record of a process: its
\* place and one more field.
LEMMA TodoField ==
  ASSUME NEW r \in ProcType, NEW x, NEW y
  PROVE  [r EXCEPT !.at = x, !.todo = y]
         = [at |-> x, todo |-> y, next |-> r.next, fd |-> r.fd]
<1>1. [r EXCEPT !.at = x] = [at |-> x, todo |-> r.todo, next |-> r.next, fd |-> r.fd]
  BY DEF ProcType
<1>2. [[at |-> x, todo |-> r.todo, next |-> r.next, fd |-> r.fd] EXCEPT !.todo = y]
      = [at |-> x, todo |-> y, next |-> r.next, fd |-> r.fd]
  OBVIOUS
<1>3. [r EXCEPT !.at = x, !.todo = y] = [[r EXCEPT !.at = x] EXCEPT !.todo = y]
  OBVIOUS
<1>. QED
  BY <1>1, <1>2, <1>3

\* Two fields of a process changed at once are changed one after the other.
LEMMA NextField ==
  ASSUME NEW r \in ProcType, NEW x, NEW y
  PROVE  [r EXCEPT !.at = x, !.next = y]
         = [at |-> x, todo |-> r.todo, next |-> y, fd |-> r.fd]
<1>1. [r EXCEPT !.at = x] = [at |-> x, todo |-> r.todo, next |-> r.next, fd |-> r.fd]
  BY DEF ProcType
<1>2. [[at |-> x, todo |-> r.todo, next |-> r.next, fd |-> r.fd] EXCEPT !.next = y]
      = [at |-> x, todo |-> r.todo, next |-> y, fd |-> r.fd]
  OBVIOUS
<1>3. [r EXCEPT !.at = x, !.next = y] = [[r EXCEPT !.at = x] EXCEPT !.next = y]
  OBVIOUS
<1>. QED
  BY <1>1, <1>2, <1>3

\* The same of the open file.
LEMMA FdField ==
  ASSUME NEW r \in ProcType, NEW x, NEW y
  PROVE  [r EXCEPT !.at = x, !.fd = y]
         = [at |-> x, todo |-> r.todo, next |-> r.next, fd |-> y]
<1>1. [r EXCEPT !.at = x] = [at |-> x, todo |-> r.todo, next |-> r.next, fd |-> r.fd]
  BY DEF ProcType
<1>2. [[at |-> x, todo |-> r.todo, next |-> r.next, fd |-> r.fd] EXCEPT !.fd = y]
      = [at |-> x, todo |-> r.todo, next |-> r.next, fd |-> y]
  OBVIOUS
<1>3. [r EXCEPT !.at = x, !.fd = y] = [[r EXCEPT !.at = x] EXCEPT !.fd = y]
  OBVIOUS
<1>. QED
  BY <1>1, <1>2, <1>3

\* A file is opened under its name; a new one has no other name and no reader.
LEMMA Opens ==
  ASSUME TypeInv, NEW p \in Procs, NEW n \in Names, NEW at, Open(p, n, at)
  PROVE  \E i \in Files :
           /\ name' = [name EXCEPT ![n] = i] /\ data' = [data EXCEPT ![i] = Empty]
           /\ Become(p, at, proc[p].todo, proc[p].next, i)
           /\ name[n] = i \/ (name[n] = None /\ i \in Free)
<1> DEFINE i == IF name[n] = None THEN CHOOSE j \in Free : TRUE ELSE name[n]
<1>1. i \in Files /\ (name[n] = i \/ (name[n] = None /\ i \in Free))
  BY FreeFile DEF TypeInv, ControlTypeOK
<1>2. name' = [name EXCEPT ![n] = i] /\ data' = [data EXCEPT ![i] = Empty]
  BY DEF Open
<1>3. Become(p, at, proc[p].todo, proc[p].next, i)
  <2>1. proc' = [proc EXCEPT ![p].at = at, ![p].fd = i]
    BY DEF Open
  <2>2. proc \in [Procs -> ProcType] /\ proc[p] \in ProcType
    BY DEF TypeInv, ControlTypeOK
  <2>3. ASSUME NEW j PROVE [proc EXCEPT ![p].at = at, ![p].fd = j]
          = [proc EXCEPT ![p] = [at |-> at, todo |-> proc[p].todo, next |-> proc[p].next, fd |-> j]]
    <3>1. [proc EXCEPT ![p].at = at, ![p].fd = j]
          = [proc EXCEPT ![p] = [proc[p] EXCEPT !.at = at, !.fd = j]]
      BY <2>2
    <3>2. [proc[p] EXCEPT !.at = at, !.fd = j] =
            [at |-> at, todo |-> proc[p].todo, next |-> proc[p].next, fd |-> j]
      BY <2>2, FdField
    <3>. QED
      BY <3>1, <3>2
  <2>. QED
    BY <2>1, <2>3 DEF Become
<1>. QED
  BY <1>1, <1>2, <1>3

\* What each action makes of its process.
LEMMA Moves ==
  ASSUME TypeInv, NEW p \in Procs
  PROVE  /\ Start(p) => \E at \in {"read", "open"} :
              Become(p, at, proc[p].todo, proc[p].next, proc[p].fd)
         /\ ReadLock(p) => \/ Become(p, "unlink", proc[p].todo, proc[p].next, proc[p].fd)
                           \/ Become(p, "done", <<>>, None, None)
         /\ UnlinkStale(p) => Become(p, "open", proc[p].todo, proc[p].next, proc[p].fd)
         /\ FillLock(p) => Become(p, "load", TickWork, None, None)
         /\ Release(p) => \/ Become(p, "remove", proc[p].todo, proc[p].next, proc[p].fd)
                          \/ Become(p, "done", <<>>, None, None)
         /\ RemoveLock(p) => Become(p, "done", <<>>, None, None)
         /\ StartCommand(p) => \E w \in CommandWork :
              Become(p, "load", w, proc[p].next, proc[p].fd)
         /\ WriteTemp(p) => Become(p, "replace", proc[p].todo, proc[p].next, None)
         /\ Kill(p) => Become(p, "killed", <<>>, None, None)
<1>1. proc \in [Procs -> ProcType] /\ proc[p] \in ProcType
  BY DEF TypeInv, ControlTypeOK
<1>2. Start(p) => \E at \in {"read", "open"} :
        Become(p, at, proc[p].todo, proc[p].next, proc[p].fd)
  BY Gotos DEF Start, Acquires
<1>3. ReadLock(p) => \/ Become(p, "unlink", proc[p].todo, proc[p].next, proc[p].fd)
                     \/ Become(p, "done", <<>>, None, None)
  BY Gotos DEF ReadLock, Acquires
<1>4. UnlinkStale(p) => Become(p, "open", proc[p].todo, proc[p].next, proc[p].fd)
  BY Gotos DEF UnlinkStale
<1>5. FillLock(p) => Become(p, "load", TickWork, None, None)
  BY <1>1 DEF FillLock, Become, Idle
<1>6. Release(p) => \/ Become(p, "remove", proc[p].todo, proc[p].next, proc[p].fd)
                    \/ Become(p, "done", <<>>, None, None)
  BY Gotos DEF Release
<1>7. RemoveLock(p) => Become(p, "done", <<>>, None, None)
  BY Gotos DEF RemoveLock
<1>8. StartCommand(p) => \E w \in CommandWork :
        Become(p, "load", w, proc[p].next, proc[p].fd)
  <2>1. ASSUME NEW w PROVE [proc EXCEPT ![p].at = "load", ![p].todo = w]
          = [proc EXCEPT ![p] = [at |-> "load", todo |-> w, next |-> proc[p].next,
                                 fd |-> proc[p].fd]]
    <3>1. [proc EXCEPT ![p].at = "load", ![p].todo = w]
          = [proc EXCEPT ![p] = [proc[p] EXCEPT !.at = "load", !.todo = w]]
      BY <1>1
    <3>2. [proc[p] EXCEPT !.at = "load", !.todo = w] =
            [at |-> "load", todo |-> w, next |-> proc[p].next, fd |-> proc[p].fd]
      BY <1>1, TodoField
    <3>. QED
      BY <3>1, <3>2
  <2>. QED
    BY <2>1 DEF StartCommand, Become
<1>9. WriteTemp(p) => Become(p, "replace", proc[p].todo, proc[p].next, None)
  <2>1. [proc EXCEPT ![p].at = "replace", ![p].fd = None]
        = [proc EXCEPT ![p] = [at |-> "replace", todo |-> proc[p].todo,
                               next |-> proc[p].next, fd |-> None]]
    <3>1. [proc EXCEPT ![p].at = "replace", ![p].fd = None]
          = [proc EXCEPT ![p] = [proc[p] EXCEPT !.at = "replace", !.fd = None]]
      BY <1>1
    <3>2. [proc[p] EXCEPT !.at = "replace", !.fd = None] =
            [at |-> "replace", todo |-> proc[p].todo, next |-> proc[p].next, fd |-> None]
      BY <1>1, FdField
    <3>. QED
      BY <3>1, <3>2
  <2>. QED
    BY <2>1 DEF WriteTemp, Become
<1>10. Kill(p) => Become(p, "killed", <<>>, None, None)
  BY Gotos DEF Kill
<1>. QED
  BY <1>2, <1>3, <1>4, <1>5, <1>6, <1>7, <1>8, <1>9, <1>10

\* The key an update is about is that of a process, and so are those it leaves.
LEMMA Loads ==
  ASSUME TypeInv, NEW p \in Procs, LoadIndex(p)
  PROVE  LET u == Head(proc[p].todo) IN
         /\ u \in Updates
         /\ \/ \E k \in Procs :
                 /\ Load(u.file) \in SUBSET Procs
                 /\ Apply(u.op, k, Load(u.file)) \in SUBSET Procs
                 /\ Become(p, "temp", proc[p].todo, <<k, Apply(u.op, k, Load(u.file))>>, proc[p].fd)
                 /\ clash' = clash \cup {f \in {u.file} : \E q \in Procs : Updating(q, f)}
            \/ (NextUpdate(p) \/ Leave(p)) /\ clash' = clash
<1> DEFINE u == Head(proc[p].todo)
<1>1. proc \in [Procs -> ProcType] /\ proc[p] \in ProcType /\ proc[p].todo # <<>>
  BY DEF TypeInv, ControlTypeOK, PhaseInv, LoadIndex
<1>2. u \in Updates
  BY <1>1, HeadTailProperties DEF ProcType
<1>3. Load(u.file) \in SUBSET Procs
  <2>1. u.file \in Names
    BY <1>2 DEF Updates, Names
  <2>. QED
    BY <2>1 DEF Load, Content, Contents, TypeInv, ControlTypeOK
<1>4. ASSUME NEW k, k \in (IF u.op = "put" THEN {p} ELSE Load(u.file))
      PROVE  k \in Procs /\ Apply(u.op, k, Load(u.file)) \in SUBSET Procs
  BY <1>3, <1>4 DEF Apply
<1>5. ASSUME NEW v PROVE [proc EXCEPT ![p].at = "temp", ![p].next = v]
        = [proc EXCEPT ![p] = [at |-> "temp", todo |-> proc[p].todo, next |-> v,
                               fd |-> proc[p].fd]]
  <2>1. [proc EXCEPT ![p].at = "temp", ![p].next = v]
        = [proc EXCEPT ![p] = [proc[p] EXCEPT !.at = "temp", !.next = v]]
    BY <1>1
  <2>2. [proc[p] EXCEPT !.at = "temp", !.next = v] =
          [at |-> "temp", todo |-> proc[p].todo, next |-> v, fd |-> proc[p].fd]
    BY <1>1, NextField
  <2>. QED
    BY <2>1, <2>2
<1>. HIDE DEF u
<1>6. \/ \E k \in Procs :
           /\ Apply(u.op, k, Load(u.file)) \in SUBSET Procs
           /\ Become(p, "temp", proc[p].todo, <<k, Apply(u.op, k, Load(u.file))>>, proc[p].fd)
           /\ clash' = clash \cup {f \in {u.file} : \E q \in Procs : Updating(q, f)}
      \/ (NextUpdate(p) \/ Leave(p)) /\ clash' = clash
  BY <1>4, <1>5 DEF LoadIndex, u, Become
<1>. QED
  BY <1>2, <1>3, <1>6 DEF u

-----------------------------------------------------------------------------
(* The types *)

\* A step that leaves its process with what its next place needs keeps the
\* types of the processes.
LEMMA KeepsPhase ==
  ASSUME TypeInv, NEW p \in Procs, NEW at \in Places, NEW todo \in Seq(Updates),
         NEW next \in (Procs \X SUBSET Procs) \cup {None}, NEW fd \in Files \cup {None},
         Become(p, at, todo, next, fd),
         at \in {"load", "temp", "write", "replace"} => todo # <<>>,
         at \in {"temp", "write", "replace"} => next # None,
         at \in {"write", "fill"} <=> fd # None,
         at \in {"read", "unlink", "open", "fill", "release", "remove"} => p \in Loops
  PROVE  proc' \in [Procs -> ProcType] /\ PhaseInv'
<1>1. [at |-> at, todo |-> todo, next |-> next, fd |-> fd] \in ProcType
  BY DEF ProcType, Places
<1>2. proc' \in [Procs -> ProcType]
  BY <1>1, Becomes
<1>3. /\ proc'[p].at = at /\ proc'[p].todo = todo /\ proc'[p].next = next /\ proc'[p].fd = fd
      /\ \A q \in Procs : q # p => proc'[q] = proc[q]
  BY Becomes
<1>4. PhaseInv'
  BY <1>3 DEF PhaseInv, At, TypeInv
<1>. QED
  BY <1>2, <1>4

\* The types of what a process remembers.
LEMMA ProcTypes ==
  ASSUME TypeInv, NEW p \in Procs
  PROVE  /\ At(p) \in Places /\ proc[p].todo \in Seq(Updates)
         /\ proc[p].next \in (Procs \X SUBSET Procs) \cup {None}
         /\ proc[p].fd \in Files \cup {None}
         /\ proc[p].todo # <<>> => Target(p) \in Indexes /\ Head(proc[p].todo) \in Updates
<1>1. proc[p] \in ProcType
  BY DEF TypeInv, ControlTypeOK
<1>2. proc[p].todo # <<>> => Head(proc[p].todo) \in Updates
  BY <1>1, HeadTailProperties DEF ProcType
<1>. QED
  BY <1>1, <1>2 DEF ProcType, Places, At, Target, Updates

\* The names a process may give to a file stay different.
LEMMA NameTypes ==
  ASSUME TypeInv, NEW n \in Names, NEW i \in Files \cup {None},
         i # None => \A m \in Names : m # n => name[m] # i,
         name' = [name EXCEPT ![n] = i]
  PROVE  /\ name' \in [Names -> Files \cup {None}]
         /\ \A l, m \in Names : l # m /\ name'[l] # None => name'[l] # name'[m]
  BY DEF TypeInv, ControlTypeOK

\* A step that only moves its process keeps the types when it keeps the phases.
LEMMA QuietTypes ==
  ASSUME TypeInv, proc' \in [Procs -> ProcType], PhaseInv',
         UNCHANGED <<name, data, saved>>, raced' \in BOOLEAN, clash' \subseteq Indexes
  PROVE  TypeInv'
  BY DEF TypeInv, ControlTypeOK

\* Opening a file keeps the types: its number is that of a free file or its own.
LEMMA OpenTypes ==
  ASSUME TypeInv, NEW p \in Procs, NEW n \in Names, NEW at \in {"fill", "write"},
         Open(p, n, at), UNCHANGED <<raced, clash, saved>>,
         at = "fill" => At(p) = "open", at = "write" => At(p) = "temp"
  PROVE  TypeInv'
<1>1. PICK i \in Files :
        /\ name' = [name EXCEPT ![n] = i] /\ data' = [data EXCEPT ![i] = Empty]
        /\ Become(p, at, proc[p].todo, proc[p].next, i)
        /\ name[n] = i \/ (name[n] = None /\ i \in Free)
  BY Opens
<1>2. /\ name' \in [Names -> Files \cup {None}]
      /\ \A l, m \in Names : l # m /\ name'[l] # None => name'[l] # name'[m]
  BY <1>1, NameTypes, Distinct DEF Free, TypeInv, ControlTypeOK
<1>3. data' \in [Files -> Contents]
  BY <1>1 DEF TypeInv, ControlTypeOK, Contents
<1>4. proc' \in [Procs -> ProcType] /\ PhaseInv'
  <2>1. /\ at = "fill" => p \in Loops
        /\ at = "write" => proc[p].todo # <<>> /\ proc[p].next # None
    BY DEF PhaseInv, TypeInv
  <2>2. at \in Places /\ i # None /\ i \in Files \cup {None}
    BY <1>1, Distinct DEF Places
  <2>. QED
    BY <1>1, <2>1, <2>2, ProcTypes, KeepsPhase
<1>. QED
  BY <1>2, <1>3, <1>4 DEF TypeInv, ControlTypeOK

\* What is written is an index or the number of a process, or torn.
LEMMA FillTypes ==
  ASSUME TypeInv, NEW p \in Procs, NEW c \in SUBSET Procs, Fill(p, c),
         At(p) \in {"fill", "write"}
  PROVE  /\ data' \in [Files -> Contents] /\ proc[p].fd \in Files
         /\ \E d \in {c, Torn} : /\ data' = [data EXCEPT ![proc[p].fd] = d]
                                 /\ data[proc[p].fd] = Empty => d = c
<1>1. proc[p].fd \in Files
  BY ProcTypes DEF PhaseInv, TypeInv
<1>2. PICK d \in IF data[proc[p].fd] = Empty THEN {c} ELSE {c, Torn} :
        data' = [data EXCEPT ![proc[p].fd] = d]
  BY DEF Fill
<1>. QED
  BY <1>1, <1>2 DEF TypeInv, ControlTypeOK, Contents

\* Ending an update keeps the types of the processes.
LEMMA LeaveTypes ==
  ASSUME TypeInv, NEW p \in Procs, At(p) \in {"load", "replace"}, NextUpdate(p) \/ Leave(p)
  PROVE  proc' \in [Procs -> ProcType] /\ PhaseInv'
<1>1. CASE Leave(p)
  <2>1. <<>> \in Seq(Updates)
    OBVIOUS
  <2>2. CASE p \in Loops
    <3>1. Become(p, "release", <<>>, None, None)
      BY <1>1, <2>2, Leaves
    <3>. QED
      BY <2>1, <2>2, <3>1, KeepsPhase DEF Places
  <2>3. CASE p \notin Loops
    <3>1. Become(p, "done", <<>>, None, None)
      BY <1>1, <2>3, Leaves
    <3>. QED
      BY <2>1, <3>1, KeepsPhase DEF Places
  <2>. QED
    BY <2>2, <2>3
<1>2. CASE NextUpdate(p) /\ ~Leave(p)
  <2>1. /\ Tail(proc[p].todo) # <<>> /\ Tail(proc[p].todo) \in Seq(Updates)
        /\ Become(p, "load", Tail(proc[p].todo), None, None)
    BY <1>2, Leaves
  <2>. QED
    BY <2>1, KeepsPhase DEF Places
<1>. QED
  BY <1>1, <1>2

\* Every step keeps the types.
LEMMA TypeStep == ASSUME TypeInv, NEW p \in Procs, Step(p) PROVE TypeInv'
<1> USE ProcTypes
<1>0. <<>> \in Seq(Updates) /\ PhaseInv /\ raced \in BOOLEAN /\ clash \subseteq Indexes
  BY DEF TypeInv, ControlTypeOK
<1>1. CASE Start(p)
  <2>1. PICK at \in {"read", "open"} : Become(p, at, proc[p].todo, proc[p].next, proc[p].fd)
    BY <1>1, Moves
  <2>2. proc' \in [Procs -> ProcType] /\ PhaseInv'
    BY <1>0, <1>1, <2>1, KeepsPhase DEF Places, PhaseInv, Start
  <2>3. raced' \in BOOLEAN
    BY <1>0, <1>1 DEF Start, Acquires
  <2>. QED
    BY <1>0, <1>1, <2>2, <2>3, QuietTypes DEF Start
<1>2. CASE ReadLock(p)
  <2>1. \/ Become(p, "unlink", proc[p].todo, proc[p].next, proc[p].fd)
        \/ Become(p, "done", <<>>, None, None)
    BY <1>2, Moves
  <2>2. proc' \in [Procs -> ProcType] /\ PhaseInv'
    BY <1>0, <1>2, <2>1, KeepsPhase DEF Places, PhaseInv, ReadLock
  <2>3. raced' \in BOOLEAN
    BY <1>0, <1>2 DEF ReadLock, Acquires
  <2>. QED
    BY <1>0, <1>2, <2>2, <2>3, QuietTypes DEF ReadLock
<1>3. CASE UnlinkStale(p)
  <2>1. Become(p, "open", proc[p].todo, proc[p].next, proc[p].fd)
    BY <1>3, Moves
  <2>2. proc' \in [Procs -> ProcType] /\ PhaseInv'
    BY <1>0, <1>3, <2>1, KeepsPhase DEF Places, PhaseInv, UnlinkStale
  <2>. QED
    BY <1>3, <2>2, NameTypes, Distinct DEF UnlinkStale, TypeInv, ControlTypeOK
<1>4. CASE OpenLock(p)
  BY <1>4, OpenTypes, Distinct DEF OpenLock
<1>5. CASE FillLock(p)
  <2>1. Become(p, "load", TickWork, None, None)
    BY <1>5, Moves
  <2>2. proc' \in [Procs -> ProcType] /\ PhaseInv'
    BY <1>0, <1>5, <2>1, KeepsPhase, ControlAssumption DEF Places
  <2>3. data' \in [Files -> Contents]
    BY <1>5, FillTypes DEF FillLock
  <2>. QED
    BY <1>5, <2>2, <2>3 DEF FillLock, TypeInv, ControlTypeOK
<1>6. CASE Release(p)
  <2>1. \/ Become(p, "remove", proc[p].todo, proc[p].next, proc[p].fd)
        \/ Become(p, "done", <<>>, None, None)
    BY <1>6, Moves
  <2>2. proc' \in [Procs -> ProcType] /\ PhaseInv'
    BY <1>0, <1>6, <2>1, KeepsPhase DEF Places, PhaseInv, Release
  <2>. QED
    BY <1>0, <1>6, <2>2, QuietTypes DEF Release
<1>7. CASE RemoveLock(p)
  <2>1. Become(p, "done", <<>>, None, None)
    BY <1>7, Moves
  <2>2. proc' \in [Procs -> ProcType] /\ PhaseInv'
    BY <1>0, <1>7, <2>1, KeepsPhase DEF Places
  <2>. QED
    BY <1>7, <2>2, NameTypes, Distinct DEF RemoveLock, TypeInv, ControlTypeOK
<1>8. CASE StartCommand(p)
  <2>1. PICK w \in CommandWork : Become(p, "load", w, proc[p].next, proc[p].fd)
    BY <1>8, Moves
  <2>2. proc' \in [Procs -> ProcType] /\ PhaseInv'
    <3>1. w \in Seq(Updates) /\ w # <<>>
      BY ControlAssumption
    <3>2. proc[p].fd = None
      BY <1>0, <1>8 DEF PhaseInv, StartCommand
    <3>. QED
      BY <2>1, <3>1, <3>2, KeepsPhase DEF Places
  <2>. QED
    BY <1>0, <1>8, <2>2, QuietTypes DEF StartCommand
<1>9. CASE LoadIndex(p)
  <2>1. clash' \subseteq Indexes
    BY <1>0, <1>9, Loads DEF Updates
  <2>2. proc' \in [Procs -> ProcType] /\ PhaseInv'
    <3>1. ASSUME NEW v \in Procs \X SUBSET Procs,
                 Become(p, "temp", proc[p].todo, v, proc[p].fd)
          PROVE  proc' \in [Procs -> ProcType] /\ PhaseInv'
      <4>1. v # None
        BY <3>1, ControlAssumption
      <4>. QED
        BY <1>0, <1>9, <3>1, <4>1, KeepsPhase DEF Places, PhaseInv, LoadIndex
    <3>2. CASE \E k \in Procs, S \in SUBSET Procs :
                 Become(p, "temp", proc[p].todo, <<k, S>>, proc[p].fd)
      BY <3>1, <3>2
    <3>3. CASE NextUpdate(p) \/ Leave(p)
      BY <1>9, <3>3, LeaveTypes DEF LoadIndex
    <3>. QED
      BY <1>9, <3>2, <3>3, Loads
  <2>. QED
    BY <1>0, <1>9, <2>1, <2>2, QuietTypes DEF LoadIndex
<1>10. CASE OpenTemp(p)
  <2>1. Temp(p, Target(p)) \in Names
    BY <1>0, <1>10, Distinct DEF PhaseInv, OpenTemp
  <2>. QED
    BY <1>10, <2>1, OpenTypes DEF OpenTemp, Target
<1>11. CASE WriteTemp(p)
  <2>1. Become(p, "replace", proc[p].todo, proc[p].next, None)
    BY <1>11, Moves
  <2>2. proc' \in [Procs -> ProcType] /\ PhaseInv'
    BY <1>0, <1>11, <2>1, KeepsPhase DEF Places, PhaseInv, WriteTemp
  <2>3. proc[p].next[2] \in SUBSET Procs
    BY <1>0, <1>11 DEF WriteTemp, PhaseInv
  <2>4. data' \in [Files -> Contents]
    BY <1>11, <2>3, FillTypes DEF WriteTemp
  <2>. QED
    BY <1>11, <2>2, <2>4 DEF WriteTemp, TypeInv, ControlTypeOK
<1>12. CASE Replace(p)
  <2>1. proc' \in [Procs -> ProcType] /\ PhaseInv'
    BY <1>12, LeaveTypes DEF Replace
  <2> DEFINE f == Target(p)
             t == Temp(p, f)
  <2>2. f \in Indexes /\ f \in Names /\ t \in Names /\ t # f /\ Head(proc[p].todo) \in Updates
    BY <1>0, <1>12, Distinct DEF PhaseInv, Replace
  <2>3. saved' \in [Indexes -> SUBSET Procs]
    <3>1. proc[p].next[1] \in Procs
      BY <1>0, <1>12 DEF PhaseInv, Replace
    <3>2. \A S \in SUBSET Procs : Apply(Head(proc[p].todo).op, proc[p].next[1], S) \in SUBSET Procs
      BY <3>1 DEF Apply
    <3>. QED
      BY <1>12, <2>2, <3>2 DEF Replace, Target, TypeInv, ControlTypeOK
  <2>4. /\ name' \in [Names -> Files \cup {None}]
        /\ \A l, m \in Names : l # m /\ name'[l] # None => name'[l] # name'[m]
    <3>1. \/ name' = name
          \/ name' = [name EXCEPT ![f] = name[t], ![t] = None]
      BY <1>12 DEF Replace, Target
    <3>. QED
      BY <2>2, <3>1 DEF TypeInv, ControlTypeOK
  <2>. QED
    BY <1>12, <2>1, <2>3, <2>4 DEF Replace, TypeInv, ControlTypeOK
<1>13. CASE Kill(p)
  <2>1. Become(p, "killed", <<>>, None, None)
    BY <1>13, Moves
  <2>2. proc' \in [Procs -> ProcType] /\ PhaseInv'
    BY <1>0, <2>1, KeepsPhase DEF Places
  <2>. QED
    BY <1>0, <1>13, <2>2, QuietTypes DEF Kill
<1>. QED
  BY <1>1, <1>2, <1>3, <1>4, <1>5, <1>6, <1>7, <1>8, <1>9, <1>10, <1>11, <1>12, <1>13 DEF Step

-----------------------------------------------------------------------------
(* What a step does to the files *)

\* Every step changes one process only.
LEMMA OthersStay ==
  ASSUME TypeInv, NEW p \in Procs, Step(p), NEW q \in Procs, q # p
  PROVE  proc'[q] = proc[q] /\ At(q)' = At(q) /\ \A f \in Indexes : Updating(q, f)' = Updating(q, f)
<1>1. \E at, todo, next, fd : Become(p, at, todo, next, fd)
  <2>1. CASE LoadIndex(p)
    BY <2>1, Loads, Leaves DEF LoadIndex
  <2>2. CASE Replace(p)
    BY <2>2, Leaves DEF Replace
  <2>3. CASE OpenLock(p)
    BY <2>3, Opens, Distinct DEF OpenLock
  <2>4. CASE OpenTemp(p)
    <3>1. Temp(p, Target(p)) \in Names
      BY <2>4, ProcTypes, Distinct DEF PhaseInv, TypeInv, OpenTemp
    <3>. QED
      BY <2>4, <3>1, Opens DEF OpenTemp, Target
  <2>5. CASE \/ Start(p) \/ ReadLock(p) \/ UnlinkStale(p) \/ FillLock(p) \/ Release(p)
             \/ RemoveLock(p) \/ StartCommand(p) \/ WriteTemp(p) \/ Kill(p)
    BY <2>5, Moves
  <2>. QED
    BY <2>1, <2>2, <2>3, <2>4, <2>5 DEF Step
<1>2. proc'[q] = proc[q]
  BY <1>1, Becomes
<1>. QED
  BY <1>2 DEF At, Updating

\* Where each action leaves its process.
LEMMA Arrivals ==
  ASSUME TypeInv, NEW p \in Procs
  PROVE  /\ Start(p) => At(p)' \in {"read", "open"}
         /\ ReadLock(p) => At(p)' \in {"unlink", "done"}
         /\ UnlinkStale(p) => At(p)' = "open"
         /\ OpenLock(p) => At(p)' = "fill"
         /\ FillLock(p) => At(p)' = "load"
         /\ Release(p) => At(p)' \in {"remove", "done"}
         /\ RemoveLock(p) => At(p)' = "done"
         /\ StartCommand(p) => At(p)' = "load"
         /\ LoadIndex(p) => \/ At(p)' \in {"temp", "load"}
                            \/ At(p)' = IF p \in Loops THEN "release" ELSE "done"
         /\ OpenTemp(p) => /\ At(p)' = "write" /\ proc'[p].todo = proc[p].todo
                           /\ proc'[p].next = proc[p].next
         /\ WriteTemp(p) => /\ At(p)' = "replace" /\ proc'[p].todo = proc[p].todo
                            /\ proc'[p].next = proc[p].next
         /\ Replace(p) => \/ At(p)' = "load"
                          \/ At(p)' = IF p \in Loops THEN "release" ELSE "done"
         /\ Kill(p) => At(p)' = "killed"
<1>1. ASSUME NEW at, NEW todo, NEW next, NEW fd, Become(p, at, todo, next, fd)
      PROVE  At(p)' = at /\ proc'[p].todo = todo /\ proc'[p].next = next
  BY <1>1, Becomes DEF At
<1>2. ASSUME NextUpdate(p) \/ Leave(p), At(p) \in {"load", "replace"}
      PROVE  At(p)' = "load" \/ At(p)' = IF p \in Loops THEN "release" ELSE "done"
  BY <1>1, <1>2, Leaves
<1>3. OpenLock(p) => At(p)' = "fill"
  <2>1. OpenLock(p) => \E i : Become(p, "fill", proc[p].todo, proc[p].next, i)
    BY Opens, Distinct DEF OpenLock
  <2>. QED
    BY <1>1, <2>1
<1>4. OpenTemp(p) => /\ At(p)' = "write" /\ proc'[p].todo = proc[p].todo
                     /\ proc'[p].next = proc[p].next
  <2>1. OpenTemp(p) => Temp(p, Target(p)) \in Names
    BY ProcTypes, Distinct DEF PhaseInv, TypeInv, OpenTemp
  <2>2. OpenTemp(p) => \E i : Become(p, "write", proc[p].todo, proc[p].next, i)
    BY <2>1, Opens DEF OpenTemp, Target
  <2>. QED
    BY <1>1, <2>2
<1>5. LoadIndex(p) => \/ At(p)' \in {"temp", "load"}
                      \/ At(p)' = IF p \in Loops THEN "release" ELSE "done"
  BY <1>1, <1>2, Loads DEF LoadIndex
<1>6. Replace(p) => \/ At(p)' = "load"
                    \/ At(p)' = IF p \in Loops THEN "release" ELSE "done"
  BY <1>2 DEF Replace
<1>7. Start(p) => At(p)' \in {"read", "open"}
  BY <1>1, Moves
<1>8. ReadLock(p) => At(p)' \in {"unlink", "done"}
  BY <1>1, Moves
<1>9. UnlinkStale(p) => At(p)' = "open"
  BY <1>1, Moves
<1>10. FillLock(p) => At(p)' = "load"
  BY <1>1, Moves
<1>11. Release(p) => At(p)' \in {"remove", "done"}
  BY <1>1, Moves
<1>12. RemoveLock(p) => At(p)' = "done"
  BY <1>1, Moves
<1>13. StartCommand(p) => At(p)' = "load"
  BY <1>1, Moves
<1>14. WriteTemp(p) => /\ At(p)' = "replace" /\ proc'[p].todo = proc[p].todo
                      /\ proc'[p].next = proc[p].next
  BY <1>1, Moves
<1>15. Kill(p) => At(p)' = "killed"
  BY <1>1, Moves
<1>. QED
  BY <1>3, <1>4, <1>5, <1>6, <1>7, <1>8, <1>9, <1>10, <1>11, <1>12, <1>13, <1>14, <1>15

\* Opening a file empties what its name stands for and leaves all other names.
LEMMA OpenContents ==
  ASSUME TypeInv, NEW p \in Procs, NEW n \in Names, NEW at, Open(p, n, at)
  PROVE  /\ name'[n] # None /\ name'[n] = proc'[p].fd /\ Content(n)' = Empty
         /\ \A m \in Names : m # n =>
              name'[m] = name[m] /\ name'[m] # proc'[p].fd /\ Content(m)' = Content(m)
         /\ \A q \in Procs, m \in Names : q # p /\ name'[m] = proc[q].fd => name[m] = proc[q].fd
<1>1. PICK i \in Files :
        /\ name' = [name EXCEPT ![n] = i] /\ data' = [data EXCEPT ![i] = Empty]
        /\ Become(p, at, proc[p].todo, proc[p].next, i)
        /\ name[n] = i \/ (name[n] = None /\ i \in Free)
  BY Opens
<1>2. proc'[p].fd = i
  BY <1>1, Becomes
<1>3. name \in [Names -> Files \cup {None}] /\ data \in [Files -> Contents]
  BY DEF TypeInv, ControlTypeOK
<1>4. \A m \in Names : m # n => name[m] # i
  BY <1>1, Distinct DEF Free, TypeInv, ControlTypeOK
<1>5. \A q \in Procs : i \in Free => proc[q].fd # i
  BY DEF Free
<1>6. name'[n] # None /\ name'[n] = proc'[p].fd /\ Content(n)' = Empty
  BY <1>1, <1>2, <1>3, Distinct DEF Content
<1>7. \A m \in Names : m # n =>
        name'[m] = name[m] /\ name'[m] # proc'[p].fd /\ Content(m)' = Content(m)
  BY <1>1, <1>2, <1>3, <1>4 DEF Content
<1>8. \A q \in Procs, m \in Names : q # p /\ name'[m] = proc[q].fd => name[m] = proc[q].fd
  BY <1>1, <1>3, <1>5
<1>. QED
  BY <1>6, <1>7, <1>8

\* A replace gives the temporary file the name of the index.
LEMMA ReplaceContents ==
  ASSUME TypeInv, NEW p \in Procs, Replace(p), NEW f, f = Target(p), NEW t, t = Temp(p, f)
  PROVE  /\ f \in Indexes /\ f \in Names /\ t \in Names /\ t # f
         /\ \A m \in Names : m \notin {f, t} => name'[m] = name[m] /\ Content(m)' = Content(m)
         /\ IF name[t] = None THEN UNCHANGED <<name, data, saved>>
            ELSE /\ name'[f] = name[t] /\ name'[t] = None /\ Content(f)' = Content(t)
                 /\ saved' = [saved EXCEPT ![f] =
                                Apply(Head(proc[p].todo).op, proc[p].next[1], @)]
<1>1. f \in Indexes /\ f \in Names /\ t \in Names /\ t # f
  BY ProcTypes, Distinct DEF PhaseInv, TypeInv, Replace
<1>2. IF name[t] = None THEN UNCHANGED <<name, data, saved>>
      ELSE /\ name' = [name EXCEPT ![f] = name[t], ![t] = None] /\ data' = data
           /\ saved' = [saved EXCEPT ![f] = Apply(Head(proc[p].todo).op, proc[p].next[1], @)]
  BY DEF Replace, Target
<1>3. name \in [Names -> Files \cup {None}]
  BY DEF TypeInv, ControlTypeOK
<1>4. \A m \in Names : m \notin {f, t} => name'[m] = name[m] /\ Content(m)' = Content(m)
  BY <1>1, <1>2, <1>3 DEF Content
<1>5. name[t] # None => name'[f] = name[t] /\ name'[t] = None /\ Content(f)' = Content(t)
  BY <1>1, <1>2, <1>3 DEF Content
<1>. QED
  BY <1>1, <1>2, <1>4, <1>5

\* Taking the pid file away leaves the other names.
LEMMA UnlinkContents ==
  ASSUME TypeInv, NEW p \in Procs, UnlinkStale(p) \/ RemoveLock(p)
  PROVE  /\ name'["lock"] = None
         /\ \A m \in Names : m # "lock" => name'[m] = name[m] /\ Content(m)' = Content(m)
  BY Distinct DEF UnlinkStale, RemoveLock, Content, TypeInv, ControlTypeOK

\* A name that a step is not about stands for the same file with the same
\* contents afterwards.
LEMMA Untouched ==
  ASSUME TypeInv, OpenFilesInv, NEW p \in Procs, Step(p), NEW n \in Names,
         n = "lock" => ~(UnlinkStale(p) \/ OpenLock(p) \/ FillLock(p) \/ RemoveLock(p)),
         At(p) = "temp" => n # Temp(p, Target(p)),
         At(p) = "write" => name[n] # proc[p].fd,
         At(p) = "replace" => n \notin {Temp(p, Target(p)), Target(p)}
  PROVE  name'[n] = name[n] /\ Content(n)' = Content(n)
<1>1. CASE \/ Start(p) \/ ReadLock(p) \/ Release(p) \/ StartCommand(p) \/ LoadIndex(p) \/ Kill(p)
  <2>1. UNCHANGED <<name, data>>
    BY <1>1 DEF Start, ReadLock, Release, StartCommand, LoadIndex, Kill
  <2>. QED
    BY <2>1 DEF Content
<1>2. CASE UnlinkStale(p) \/ RemoveLock(p)
  BY <1>2, UnlinkContents
<1>3. CASE OpenLock(p)
  BY <1>3, OpenContents, Distinct DEF OpenLock
<1>4. CASE OpenTemp(p)
  <2>1. Temp(p, Target(p)) \in Names
    BY <1>4, ProcTypes, Distinct DEF PhaseInv, TypeInv, OpenTemp
  <2>. QED
    BY <1>4, <2>1, OpenContents DEF OpenTemp, Target
<1>5. CASE FillLock(p) \/ WriteTemp(p)
  <2>1. At(p) \in {"fill", "write"} /\ name' = name
    BY <1>5 DEF FillLock, WriteTemp
  <2>2. name[n] # None => name[n] # proc[p].fd
    BY <1>5, <2>1 DEF OpenFilesInv, FillLock, WriteTemp
  <2>3. \E c : data' = [data EXCEPT ![proc[p].fd] = c]
    BY <1>5 DEF FillLock, WriteTemp, Fill
  <2>4. name[n] # None => name[n] \in Files /\ data'[name[n]] = data[name[n]]
    BY <2>2, <2>3 DEF TypeInv, ControlTypeOK
  <2>. QED
    BY <2>1, <2>4 DEF Content
<1>6. CASE Replace(p)
  <2>1. PICK f, t : f = Target(p) /\ t = Temp(p, f)
    OBVIOUS
  <2>. QED
    BY <1>6, <2>1, ReplaceContents DEF Replace
<1>. QED
  BY <1>1, <1>2, <1>3, <1>4, <1>5, <1>6 DEF Step

-----------------------------------------------------------------------------
(* Who has which file open *)

\* Every step keeps what is known of the names of open files.
LEMMA OpenFilesStep ==
  ASSUME TypeInv, OpenFilesInv, NEW p \in Procs, Step(p), TypeInv'
  PROVE  OpenFilesInv'
<1>1. \A q \in Procs : q # p => proc'[q] = proc[q] /\ At(q)' = At(q) /\ Target(q)' = Target(q)
  BY OthersStay DEF Target
<1>2. ASSUME proc'[p].fd = None, \A n \in Names : name'[n] \in {None, name[n]}
      PROVE  OpenFilesInv'
  BY <1>1, <1>2 DEF OpenFilesInv
<1>3. ASSUME At(p)' \notin {"fill", "write"} PROVE proc'[p].fd = None
  BY <1>3 DEF TypeInv, PhaseInv
<1>4. CASE \/ Start(p) \/ ReadLock(p) \/ Release(p) \/ StartCommand(p) \/ LoadIndex(p) \/ Kill(p)
  <2>1. proc'[p].fd = None
    BY <1>3, <1>4, Arrivals
  <2>. QED
    BY <1>2, <1>4, <2>1 DEF Start, ReadLock, Release, StartCommand, LoadIndex, Kill
<1>5. CASE UnlinkStale(p) \/ RemoveLock(p)
  <2>1. proc'[p].fd = None
    BY <1>3, <1>5, Arrivals
  <2>. QED
    BY <1>2, <1>5, <2>1, UnlinkContents
<1>6. CASE FillLock(p) \/ WriteTemp(p)
  <2>1. proc'[p].fd = None
    BY <1>3, <1>6, Arrivals
  <2>. QED
    BY <1>2, <1>6, <2>1 DEF FillLock, WriteTemp
<1>7. CASE OpenLock(p)
  <2>1. At(p)' = "fill"
    BY <1>7, Arrivals
  <2>2. \A m \in Names : name'[m] = proc'[p].fd => m = "lock"
    BY <1>7, OpenContents, Distinct DEF OpenLock
  <2>3. \A q \in Procs, m \in Names : q # p /\ name'[m] = proc[q].fd => name[m] = proc[q].fd
    BY <1>7, OpenContents, Distinct DEF OpenLock
  <2>. QED
    BY <1>1, <2>1, <2>2, <2>3 DEF OpenFilesInv
<1>8. CASE OpenTemp(p)
  <2>1. Temp(p, Target(p)) \in Names /\ Open(p, Temp(p, Target(p)), "write")
    BY <1>8, ProcTypes, Distinct DEF PhaseInv, TypeInv, OpenTemp, Target
  <2>2. At(p)' = "write" /\ Target(p)' = Target(p)
    BY <1>8, Arrivals DEF Target
  <2>3. \A m \in Names : name'[m] = proc'[p].fd => m = Temp(p, Target(p))
    BY <2>1, OpenContents
  <2>4. \A q \in Procs, m \in Names : q # p /\ name'[m] = proc[q].fd => name[m] = proc[q].fd
    BY <2>1, OpenContents
  <2>. QED
    BY <1>1, <2>2, <2>3, <2>4 DEF OpenFilesInv
<1>9. CASE Replace(p)
  <2>1. proc'[p].fd = None
    BY <1>3, <1>9, Arrivals
  <2>0. PICK f, t : f = Target(p) /\ t = Temp(p, f)
    OBVIOUS
  <2>2. CASE name[t] = None
    BY <1>2, <1>9, <2>0, <2>1, <2>2, ReplaceContents
  <2>3. CASE name[t] # None
    <3>1. /\ f \in Indexes /\ t \in Names /\ name'[f] = name[t] /\ name'[t] = None
          /\ \A m \in Names : m \notin {f, t} => name'[m] = name[m]
      BY <1>9, <2>0, <2>3, ReplaceContents
    <3>2. ASSUME NEW q \in Procs, q # p, name[t] = proc[q].fd
          PROVE  At(q) # "fill" /\ (At(q) = "write" => f = Target(q))
      <4>1. At(q) = "fill" => t = "lock"
        BY <2>3, <3>1, <3>2 DEF OpenFilesInv
      <4>2. At(q) = "write" => t \in {Temp(q, Target(q)), Target(q)} /\ Target(q) \in Indexes
        BY <2>3, <3>1, <3>2, ProcTypes DEF OpenFilesInv, PhaseInv, TypeInv
      <4>. QED
        BY <2>0, <3>1, <4>1, <4>2, Distinct
    <3>3. ASSUME NEW q \in Procs, NEW n \in Names, name'[n] # None, name'[n] = proc'[q].fd
          PROVE  /\ At(q)' = "fill" => n = "lock"
                 /\ At(q)' = "write" => n \in {Temp(q, Target(q)'), Target(q)'}
      <4>1. q # p /\ n # t
        BY <2>1, <3>1, <3>3
      <4>2. CASE n = f
        BY <1>1, <3>1, <3>2, <3>3, <4>1, <4>2
      <4>3. CASE n # f
        BY <1>1, <3>1, <3>3, <4>1, <4>3 DEF OpenFilesInv
      <4>. QED
        BY <4>2, <4>3
    <3>. QED
      BY <3>3 DEF OpenFilesInv
  <2>. QED
    BY <2>2, <2>3
<1>. QED
  BY <1>4, <1>5, <1>6, <1>7, <1>8, <1>9 DEF Step

-----------------------------------------------------------------------------
(* The lock of the loops *)

\* A set of processes is not a word for a file without a number.
LEMMA SetsAreNoWords ==
  \A S \in SUBSET Procs : S # None /\ S # Empty /\ S # Torn
  BY ControlAssumption

\* A step that is not about the pid file and makes nobody an owner keeps what is
\* known of the lock.
LEMMA LockKept ==
  ASSUME LockInv, NEW p \in Procs, raced' = raced,
         name'["lock"] = name["lock"], Content("lock")' = Content("lock"),
         \A q \in Procs : q # p => proc'[q] = proc[q],
         At(p)' \notin {"unlink", "open", "fill"}, p \in Loops /\ Owner(p)' => Owner(p)
  PROVE  LockInv'
<1>1. \A q \in Loops : q # p =>
        /\ At(q)' = At(q) /\ proc'[q].fd = proc[q].fd
        /\ Owner(q)' = Owner(q) /\ Acquiring(q)' = Acquiring(q)
  BY DEF At, Owner, Acquiring, Procs
<1>2. ~Acquiring(p)'
  BY DEF Acquiring
<1>. QED
  BY <1>1, <1>2 DEF LockInv

\* Every step keeps what is known of the lock.
LEMMA LockStep ==
  ASSUME TypeInv, OpenFilesInv, LockInv, NEW p \in Procs, Step(p)
  PROVE  LockInv'
<1>1. \A q \in Procs : q # p => proc'[q] = proc[q]
  BY OthersStay
<1>2. \A q \in Loops : q \in Procs /\ (q # p =>
        /\ At(q)' = At(q) /\ proc'[q].fd = proc[q].fd
        /\ Owner(q)' = Owner(q) /\ Acquiring(q)' = Acquiring(q))
  BY <1>1 DEF At, Owner, Acquiring, Procs
<1>3. CASE Start(p)
  <2>1. p \in Loops /\ UNCHANGED <<name, data>>
    BY <1>3 DEF Start
  <2>2. Content("lock")' = Content("lock")
    BY <2>1 DEF Content
  <2>3. CASE name["lock"] # None
    <3>1. At(p)' = "read" /\ raced' = raced
      <4>1. Goto(p, "read") /\ raced' = raced
        BY <1>3, <2>3 DEF Start
      <4>. QED
        BY <4>1, GotoAt
    <3>. QED
      BY <1>1, <2>1, <2>2, <3>1, LockKept DEF Owner
  <2>4. CASE name["lock"] = None
    <3>1. At(p)' = "open" /\ raced' = (raced \/ \E q \in Loops : Acquiring(q))
      <4>1. Goto(p, "open") /\ raced' = (raced \/ \E q \in Loops : Acquiring(q))
        BY <1>3, <2>4 DEF Start, Acquires
      <4>. QED
        BY <4>1, GotoAt
    <3>2. Content("lock") = None
      BY <2>4 DEF Content
    <3>3. ~raced => \A q \in Loops : ~Owner(q)
      <4>1. \A q \in Loops : {q} # None
        BY SetsAreNoWords DEF Procs
      <4>. QED
        BY <3>2, <4>1 DEF LockInv
    <3>4. ~raced' => \A q \in Loops : q # p => ~Acquiring(q)' /\ ~Owner(q)'
      BY <1>2, <3>1, <3>3
    <3>5. ~Owner(p)' /\ At(p)' # "fill"
      BY <3>1 DEF Owner
    <3>6. \A q \in Loops : At(q)' = "fill" => Acquiring(q)'
      BY DEF Acquiring
    <3>. QED
      BY <3>4, <3>5, <3>6 DEF LockInv
  <2>. QED
    BY <2>3, <2>4
<1>4. CASE ReadLock(p)
  <2>1. UNCHANGED <<name, data>> /\ p \in Loops
    BY <1>4 DEF ReadLock, TypeInv, PhaseInv
  <2>2. Content("lock")' = Content("lock")
    BY <2>1 DEF Content
  <2>3. CASE Finish(p, "done") /\ raced' = raced
    <3>1. At(p)' = "done"
      BY <2>3, GotoAt
    <3>. QED
      BY <1>1, <2>1, <2>2, <2>3, <3>1, LockKept DEF Owner
  <2>4. CASE /\ \/ Content("lock") = Torn
                \/ \E q \in Procs : Content("lock") = {q} /\ Ended(q)
             /\ Acquires(p, "unlink")
    <3>1. At(p)' = "unlink" /\ raced' = (raced \/ \E q \in Loops : Acquiring(q))
      <4>1. Goto(p, "unlink") /\ raced' = (raced \/ \E q \in Loops : Acquiring(q))
        BY <2>4 DEF Acquires
      <4>. QED
        BY <4>1, GotoAt
    <3>2. ~raced => \A q \in Loops : ~Owner(q)
      <4>1. ASSUME NEW o \in Loops, ~raced, Owner(o) PROVE FALSE
        <5>1. Content("lock") = {o}
          BY <4>1 DEF LockInv
        <5>2. {o} # Torn
          BY SetsAreNoWords DEF Procs
        <5>3. PICK q \in Procs : {o} = {q} /\ Ended(q)
          BY <2>4, <5>1, <5>2
        <5>4. o = q
          BY <5>3
        <5>. QED
          BY <4>1, <5>3, <5>4 DEF Ended, Owner
      <4>. QED
        BY <4>1
    <3>3. ~raced' => \A q \in Loops : q # p => ~Acquiring(q)' /\ ~Owner(q)'
      BY <1>2, <3>1, <3>2
    <3>4. ~Owner(p)' /\ At(p)' # "fill"
      BY <3>1 DEF Owner
    <3>5. \A q \in Loops : At(q)' = "fill" => Acquiring(q)'
      BY DEF Acquiring
    <3>. QED
      BY <3>3, <3>4, <3>5 DEF LockInv
  <2>. QED
    BY <1>4, <2>3, <2>4 DEF ReadLock
<1>5. CASE UnlinkStale(p) \/ RemoveLock(p)
  <2>1. raced' = raced /\ At(p)' \in {"open", "done"} /\ p \in Loops
    BY <1>5, Arrivals DEF UnlinkStale, RemoveLock, TypeInv, PhaseInv
  <2>2. Acquiring(p) \/ Owner(p)
    BY <1>5, <2>1 DEF UnlinkStale, RemoveLock, Acquiring, Owner
  <2>3. ~raced' => \A q \in Loops : q # p => ~Acquiring(q)' /\ ~Owner(q)'
    BY <1>2, <2>1, <2>2 DEF LockInv
  <2>4. ~Owner(p)' /\ At(p)' # "fill"
    BY <2>1 DEF Owner
  <2>5. \A q \in Loops : At(q)' = "fill" => Acquiring(q)'
    BY DEF Acquiring
  <2>. QED
    BY <2>3, <2>4, <2>5 DEF LockInv
<1>6. CASE OpenLock(p)
  <2>1. raced' = raced /\ At(p)' = "fill" /\ p \in Loops /\ Acquiring(p)
    BY <1>6, Arrivals DEF OpenLock, TypeInv, PhaseInv, Acquiring
  <2>2. name'["lock"] = proc'[p].fd /\ Content("lock")' = Empty
    BY <1>6, OpenContents, Distinct DEF OpenLock
  <2>3. ~raced' => \A q \in Loops : q # p => ~Acquiring(q)' /\ ~Owner(q)'
    BY <1>2, <2>1 DEF LockInv
  <2>4. ~Owner(p)'
    BY <2>1 DEF Owner
  <2>5. \A q \in Loops : At(q)' = "fill" => Acquiring(q)'
    BY DEF Acquiring
  <2>. QED
    BY <2>2, <2>3, <2>4, <2>5 DEF LockInv
<1>7. CASE FillLock(p)
  <2>1. /\ raced' = raced /\ name' = name /\ At(p) = "fill" /\ At(p)' = "load"
        /\ p \in Loops /\ Acquiring(p)
    BY <1>7, Arrivals DEF FillLock, TypeInv, PhaseInv, Acquiring
  <2>2. ~raced' => Content("lock")' = {p}
    <3>1. SUFFICES ASSUME ~raced PROVE Content("lock")' = {p}
      BY <2>1
    <3>2. name["lock"] = proc[p].fd /\ Content("lock") = Empty
      BY <2>1, <3>1 DEF LockInv
    <3>3. proc[p].fd \in Files /\ proc[p].fd # None
      BY <1>7, <2>1, FillTypes, Distinct DEF FillLock
    <3>4. data[proc[p].fd] = Empty
      BY <3>2, <3>3 DEF Content
    <3>5. data' = [data EXCEPT ![proc[p].fd] = {p}]
      BY <1>7, <3>4 DEF FillLock, Fill
    <3>6. data'[name'["lock"]] = {p} /\ name'["lock"] # None
      BY <2>1, <3>2, <3>3, <3>5 DEF TypeInv, ControlTypeOK
    <3>. QED
      BY <3>6 DEF Content
  <2>3. ~raced' => \A q \in Loops : q # p => ~Acquiring(q)' /\ ~Owner(q)'
    BY <1>2, <2>1 DEF LockInv
  <2>4. ~Acquiring(p)' /\ At(p)' # "fill"
    BY <2>1 DEF Acquiring
  <2>5. \A q \in Loops : At(q)' = "fill" => Acquiring(q)'
    BY DEF Acquiring
  <2>. QED
    BY <2>2, <2>3, <2>4, <2>5 DEF LockInv
<1>8. CASE \/ Release(p) \/ StartCommand(p) \/ LoadIndex(p) \/ OpenTemp(p)
           \/ WriteTemp(p) \/ Replace(p) \/ Kill(p)
  <2>1. raced' = raced
    BY <1>8 DEF Release, StartCommand, LoadIndex, OpenTemp, WriteTemp, Replace, Kill
  <2>2. At(p)' \notin {"unlink", "open", "fill"}
    BY <1>8, Arrivals
  <2>3. p \in Loops /\ Owner(p)' => Owner(p)
    <3>1. StartCommand(p) => p \notin Loops
      BY ControlAssumption DEF StartCommand
    <3>2. Kill(p) => ~Owner(p)'
      BY Arrivals DEF Owner
    <3>3. CASE Release(p) \/ LoadIndex(p) \/ OpenTemp(p) \/ WriteTemp(p) \/ Replace(p)
      BY <3>3 DEF Owner, Release, LoadIndex, OpenTemp, WriteTemp, Replace
    <3>. QED
      BY <1>8, <3>1, <3>2, <3>3
  <2>4. name'["lock"] = name["lock"] /\ Content("lock")' = Content("lock")
    <3>1. At(p) \in {"temp", "write", "replace"} => Target(p) \in Indexes
      BY ProcTypes DEF PhaseInv, TypeInv
    <3>2. At(p) = "write" => name["lock"] # proc[p].fd
      <4>1. At(p) = "write" => proc[p].fd # None
        BY DEF PhaseInv, TypeInv
      <4>. QED
        BY <3>1, <4>1, Distinct DEF OpenFilesInv
    <3>3. ~(UnlinkStale(p) \/ OpenLock(p) \/ FillLock(p) \/ RemoveLock(p))
      <4>1. CASE Kill(p)
        BY <4>1, Arrivals
      <4>2. CASE At(p) \in {"release", "new", "load", "temp", "write", "replace"}
        BY <4>2 DEF UnlinkStale, OpenLock, FillLock, RemoveLock
      <4>. QED
        BY <1>8, <4>1, <4>2
           DEF Release, StartCommand, LoadIndex, OpenTemp, WriteTemp, Replace
    <3>. QED
      BY <3>1, <3>2, <3>3, Untouched, Distinct
  <2>. QED
    BY <1>1, <2>1, <2>2, <2>3, <2>4, LockKept
<1>. QED
  BY <1>3, <1>4, <1>5, <1>6, <1>7, <1>8 DEF Step

-----------------------------------------------------------------------------
(* Who leaves the pid file behind *)

\* Every step keeps somebody who is going to remove a pid file.
LEMMA LeftStep ==
  ASSUME TypeInv, OpenFilesInv, LeftInv, NEW p \in Procs, Step(p)
  PROVE  LeftInv'
<1> DEFINE Keeper(q) == At(q) \in {"fill", "killed"} \/ Owner(q)
<1>1. \A q \in Loops : q \in Procs /\ (q # p => Keeper(q)' = Keeper(q))
  BY OthersStay DEF At, Owner, Procs
<1>2. ASSUME name'["lock"] # None => name["lock"] # None,
             p \in Loops /\ Keeper(p) => Keeper(p)'
      PROVE  LeftInv'
  BY <1>1, <1>2 DEF LeftInv
<1>3. CASE Start(p) \/ ReadLock(p) \/ StartCommand(p) \/ LoadIndex(p) \/ Kill(p)
  <2>1. name' = name
    BY <1>3 DEF Start, ReadLock, StartCommand, LoadIndex, Kill
  <2>2. CASE Kill(p)
    BY <1>2, <2>1, <2>2, Arrivals
  <2>3. CASE LoadIndex(p)
    BY <1>2, <2>1, <2>3, Arrivals DEF Owner
  <2>4. CASE Start(p) \/ ReadLock(p) \/ StartCommand(p)
    BY <1>2, <2>1, <2>4 DEF Owner, Start, ReadLock, StartCommand
  <2>. QED
    BY <1>3, <2>2, <2>3, <2>4
<1>4. CASE UnlinkStale(p) \/ RemoveLock(p)
  BY <1>4, UnlinkContents DEF LeftInv
<1>5. CASE OpenLock(p)
  <2>1. p \in Loops
    BY <1>5 DEF OpenLock, TypeInv, PhaseInv
  <2>. QED
    BY <1>5, <2>1, Arrivals DEF LeftInv
<1>6. CASE FillLock(p) \/ WriteTemp(p)
  BY <1>2, <1>6, Arrivals DEF FillLock, WriteTemp, Owner
<1>7. CASE Release(p)
  <2>1. CASE name["lock"] = None
    BY <1>7, <2>1 DEF Release, LeftInv
  <2>2. CASE name["lock"] # None
    <3>1. Goto(p, "remove") /\ name' = name
      BY <1>7, <2>2 DEF Release
    <3>2. At(p)' = "remove"
      BY <3>1, GotoAt
    <3>. QED
      BY <1>2, <3>1, <3>2 DEF Owner
  <2>. QED
    BY <2>1, <2>2
<1>8. CASE OpenTemp(p) \/ Replace(p)
  <2>1. At(p) \in {"temp", "replace"} /\ Target(p) \in Indexes
    BY <1>8, ProcTypes DEF OpenTemp, Replace, PhaseInv, TypeInv
  <2>2. ~(UnlinkStale(p) \/ OpenLock(p) \/ FillLock(p) \/ RemoveLock(p))
    BY <2>1 DEF UnlinkStale, OpenLock, FillLock, RemoveLock
  <2>3. name'["lock"] = name["lock"]
    BY <2>1, <2>2, Untouched, Distinct
  <2>. QED
    BY <1>2, <1>8, <2>3, Arrivals DEF Owner
<1>. QED
  BY <1>3, <1>4, <1>5, <1>6, <1>7, <1>8 DEF Step

-----------------------------------------------------------------------------
(* The indexes *)

\* The indexes whose temporary file nobody else can take from a process.
Apart(f) == f \in Indexes /\ (f = "registry" \/ f \notin clash)

\* Two processes do not have the same temporary file of such an index.
LEMMA TempsApart ==
  ASSUME TypeInv, UpdateInv, NEW p \in Procs, NEW q \in Procs, p # q,
         NEW f, Apart(f), Updating(q, f), NEW g \in Indexes, Updating(p, g)
  PROVE  Temp(p, g) # Temp(q, f)
<1>1. SUFFICES ASSUME Temp(p, g) = Temp(q, f) PROVE FALSE
  OBVIOUS
<1>2. g = f /\ f # "registry"
  BY <1>1, Distinct DEF Apart
<1>. QED
  BY <1>2 DEF Apart, UpdateInv

\* The file a writer has open is never the index itself.
LEMMA WritesNoIndex ==
  ASSUME TypeInv, OpenFilesInv, TempInv, NEW p \in Procs, At(p) = "write",
         NEW f, Apart(f)
  PROVE  name[f] # proc[p].fd
<1>1. SUFFICES ASSUME name[f] = proc[p].fd PROVE FALSE
  OBVIOUS
<1>2. proc[p].fd # None /\ Target(p) \in Indexes /\ f \in Indexes /\ f \in Names
  BY ProcTypes, Distinct DEF PhaseInv, TypeInv, Apart
<1>3. f = Target(p)
  BY <1>1, <1>2, Distinct DEF OpenFilesInv
<1>4. name[Temp(p, f)] = proc[p].fd
  BY <1>3 DEF TempInv, Updating, Target, Apart
<1>5. Temp(p, f) \in Names /\ Temp(p, f) # f
  BY <1>2, Distinct
<1>. QED
  BY <1>1, <1>2, <1>4, <1>5 DEF TypeInv, ControlTypeOK

\* An index changes in a replace of it only.
LEMMA IndexStays ==
  ASSUME TypeInv, OpenFilesInv, TempInv, NEW p \in Procs, Step(p), NEW f, Apart(f),
         ~(At(p) = "replace" /\ Target(p) = f)
  PROVE  name'[f] = name[f] /\ Content(f)' = Content(f)
<1>1. f \in Indexes /\ f \in Names /\ f # "lock"
  BY Distinct DEF Apart
<1>2. At(p) \in {"temp", "write", "replace"} => Target(p) \in Indexes
  BY ProcTypes DEF PhaseInv, TypeInv
<1>3. At(p) \in {"temp", "write", "replace"} => f # Temp(p, Target(p))
  BY <1>1, <1>2, Distinct
<1>4. At(p) = "write" => name[f] # proc[p].fd
  BY WritesNoIndex
<1>. QED
  BY <1>1, <1>3, <1>4, Untouched

\* The temporary file of such an index changes in steps of its process only.
LEMMA TempStays ==
  ASSUME TypeInv, OpenFilesInv, UpdateInv, NEW p \in Procs, Step(p),
         NEW q \in Procs, q # p, NEW f, Apart(f), Updating(q, f), NEW t, t = Temp(q, f)
  PROVE  name'[t] = name[t] /\ Content(t)' = Content(t)
<1>1. f \in Indexes /\ t \in Names /\ t # "lock" /\ t \notin Indexes
  BY Distinct DEF Apart
<1>2. At(p) \in {"temp", "write", "replace"} =>
        Target(p) \in Indexes /\ Updating(p, Target(p))
  BY ProcTypes DEF PhaseInv, TypeInv, Updating, Target
<1>3. At(p) \in {"temp", "write", "replace"} => t # Temp(p, Target(p)) /\ t # Target(p)
  BY <1>1, <1>2, TempsApart
<1>4. At(p) = "write" => name[t] # proc[p].fd
  <2>1. At(p) = "write" => proc[p].fd # None
    BY DEF PhaseInv, TypeInv
  <2>. QED
    BY <1>1, <1>3, <2>1 DEF OpenFilesInv
<1>. QED
  BY <1>1, <1>3, <1>4, Untouched

\* Every step keeps the temporary files of the indexes that are apart.
LEMMA TempStep ==
  ASSUME TypeInv, OpenFilesInv, UpdateInv, TempInv, NEW p \in Procs, Step(p)
  PROVE  TempInv'
<1>1. clash \subseteq clash'
  BY DEF Step, Start, Acquires, ReadLock, UnlinkStale, OpenLock, FillLock, Release, RemoveLock,
         StartCommand, LoadIndex, OpenTemp, WriteTemp, Replace, Kill
<1>2. SUFFICES ASSUME NEW q \in Procs, NEW f \in Indexes, Updating(q, f)', Apart(f), NEW t, t = Temp(q, f)
               PROVE  /\ At(q)' = "write" => name'[t] = proc'[q].fd /\ Content(t)' = Empty
                      /\ At(q)' = "replace" => name'[t] # None /\ Content(t)' = proc'[q].next[2]
  BY <1>1 DEF TempInv, Apart
<1>3. t \in Names
  BY <1>2, Distinct
<1>4. CASE q # p
  <2>1. proc'[q] = proc[q] /\ At(q)' = At(q) /\ Updating(q, f)
    BY <1>2, <1>4, OthersStay
  <2>2. name'[t] = name[t] /\ Content(t)' = Content(t)
    BY <1>2, <1>4, <2>1, TempStays
  <2>. QED
    BY <1>2, <2>1, <2>2 DEF TempInv, Apart
<1>5. CASE q = p /\ OpenTemp(p)
  <2>1. At(p)' = "write" /\ proc'[p].todo = proc[p].todo
    BY <1>5, Arrivals
  <2>2. f = Target(p)
    BY <1>2, <1>5, <2>1 DEF Updating, Target
  <2>3. Open(p, t, "write")
    BY <1>2, <1>5, <2>2 DEF OpenTemp, Target
  <2>. QED
    BY <1>3, <1>5, <2>1, <2>3, OpenContents
<1>6. CASE q = p /\ WriteTemp(p)
  <2>1. At(p)' = "replace" /\ proc'[p].todo = proc[p].todo /\ proc'[p].next = proc[p].next
    BY <1>6, Arrivals
  <2>2. Updating(p, f)
    BY <1>2, <1>6, <2>1 DEF Updating, WriteTemp
  <2>3. name[t] = proc[p].fd /\ Content(t) = Empty
    BY <1>2, <1>6, <2>2 DEF TempInv, WriteTemp, Apart
  <2>4. proc[p].fd \in Files /\ proc[p].fd # None
    BY <1>6, ProcTypes DEF PhaseInv, TypeInv, WriteTemp
  <2>5. data' = [data EXCEPT ![proc[p].fd] = proc[p].next[2]] /\ name' = name
    BY <1>6, <2>3, <2>4 DEF WriteTemp, Fill, Content
  <2>6. name'[t] # None /\ data'[name'[t]] = proc'[p].next[2]
    BY <2>1, <2>3, <2>4, <2>5 DEF TypeInv, ControlTypeOK
  <2>. QED
    BY <1>6, <2>1, <2>6 DEF Content
<1>7. CASE q = p /\ ~OpenTemp(p) /\ ~WriteTemp(p)
  <2>1. At(p)' \notin {"write", "replace"}
    BY <1>7, Arrivals DEF Step
  <2>. QED
    BY <1>7, <2>1
<1>. QED
  BY <1>4, <1>5, <1>6, <1>7

\* What a replace puts in the place of such an index is what its process wrote.
LEMMA Replaces ==
  ASSUME TypeInv, TempInv, NEW p \in Procs, Replace(p), NEW f, Apart(f), Target(p) = f
  PROVE  /\ Content(f)' = proc[p].next[2] /\ proc[p].next[2] \in SUBSET Procs
         /\ saved' = [saved EXCEPT ![f] = Apply(Head(proc[p].todo).op, proc[p].next[1], @)]
<1>1. PICK t : t = Temp(p, f)
  OBVIOUS
<1>2. Updating(p, f) /\ f \in Indexes /\ At(p) = "replace"
  BY DEF Replace, Updating, Target, Apart
<1>3. name[t] # None /\ Content(t) = proc[p].next[2]
  BY <1>1, <1>2 DEF TempInv, Apart
<1>4. proc[p].next[2] \in SUBSET Procs
  BY <1>2, ProcTypes DEF PhaseInv, TypeInv
<1>. QED
  BY <1>1, <1>3, <1>4, ReplaceContents

\* Every step keeps the registry readable.
LEMMA RegistryStep ==
  ASSUME TypeInv, OpenFilesInv, TempInv, RegistryStaysReadable, NEW p \in Procs, Step(p)
  PROVE  RegistryStaysReadable'
<1>1. Apart("registry")
  BY DEF Apart, Indexes
<1>2. CASE At(p) = "replace" /\ Target(p) = "registry" /\ Replace(p)
  BY <1>1, <1>2, Replaces, SetsAreNoWords DEF RegistryStaysReadable
<1>3. CASE At(p) = "replace" /\ Target(p) = "registry" /\ ~Replace(p)
  <2>1. Kill(p)
    BY <1>3 DEF Step, Start, ReadLock, UnlinkStale, OpenLock, FillLock, Release, RemoveLock,
                StartCommand, LoadIndex, OpenTemp, WriteTemp
  <2>. QED
    BY <2>1 DEF Kill, RegistryStaysReadable, Content
<1>4. CASE ~(At(p) = "replace" /\ Target(p) = "registry")
  BY <1>1, <1>4, IndexStays DEF RegistryStaysReadable
<1>. QED
  BY <1>2, <1>3, <1>4

\* Every step keeps an index without overlap at what its updates make it.
LEMMA UpdateStep ==
  ASSUME TypeInv, OpenFilesInv, UpdateInv, TempInv, NEW p \in Procs, Step(p)
  PROVE  UpdateInv'
<1>1. clash \subseteq clash'
  BY DEF Step, Start, Acquires, ReadLock, UnlinkStale, OpenLock, FillLock, Release, RemoveLock,
         StartCommand, LoadIndex, OpenTemp, WriteTemp, Replace, Kill
<1>2. ASSUME NEW f \in Indexes, f \notin clash'
      PROVE  /\ \A q, r \in Procs : Updating(q, f)' /\ Updating(r, f)' => q = r
             /\ \A q \in Procs : Updating(q, f)' =>
                  proc'[q].next[2] = Apply(Head(proc'[q].todo).op, proc'[q].next[1], saved'[f])
             /\ Load(f)' = saved'[f]
  <2>1. f \notin clash /\ Apart(f)
    BY <1>1, <1>2 DEF Apart
  <2>2. \A q \in Procs : q # p => proc'[q] = proc[q] /\ Updating(q, f)' = Updating(q, f)
    BY <1>2, OthersStay
  <2>3. /\ \A q, r \in Procs : Updating(q, f) /\ Updating(r, f) => q = r
        /\ \A q \in Procs : Updating(q, f) =>
             proc[q].next[2] = Apply(Head(proc[q].todo).op, proc[q].next[1], saved[f])
        /\ Load(f) = saved[f]
    BY <1>2, <2>1 DEF UpdateInv
  <2>4. CASE LoadIndex(p)
    <3>1. saved' = saved /\ At(p) = "load"
      BY <2>4 DEF LoadIndex
    <3>2. Load(f)' = Load(f)
      BY <2>4 DEF LoadIndex, Load, Content
    <3>3. CASE Updating(p, f)'
      <4>1. PICK k \in Procs :
              /\ Become(p, "temp", proc[p].todo,
                        <<k, Apply(Head(proc[p].todo).op, k, Load(Head(proc[p].todo).file))>>,
                        proc[p].fd)
              /\ clash' = clash \cup {g \in {Head(proc[p].todo).file} :
                                        \E q \in Procs : Updating(q, g)}
        <5>1. ~(NextUpdate(p) \/ Leave(p))
          <6>1. At(p)' \in {"temp", "write", "replace"}
            BY <3>3 DEF Updating, At
          <6>2. NextUpdate(p) \/ Leave(p) => At(p)' \in {"load", "release", "done"}
            <7>1. ASSUME NEW at, NEW todo, Become(p, at, todo, None, None) PROVE At(p)' = at
              BY <7>1, Becomes DEF At
            <7>. QED
              BY <3>1, <7>1, Leaves
          <6>. QED
            BY <6>1, <6>2
        <5>. QED
          BY <2>4, <5>1, Loads
      <4>2. /\ proc'[p].todo = proc[p].todo
            /\ proc'[p].next = <<k, Apply(Head(proc[p].todo).op, k,
                                          Load(Head(proc[p].todo).file))>>
        <5>1. ASSUME NEW at, NEW todo, NEW v, NEW fd, Become(p, at, todo, v, fd)
              PROVE  proc'[p].todo = todo /\ proc'[p].next = v
          BY <5>1, Becomes
        <5>. QED
          BY <4>1, <5>1
      <4>3. Head(proc[p].todo).file = f
        BY <3>3, <4>2 DEF Updating
      <4>4. \A q \in Procs : ~Updating(q, f)
        BY <1>2, <4>1, <4>3
      <4>5. proc'[p].next[2] = Apply(Head(proc'[p].todo).op, proc'[p].next[1], saved'[f])
        BY <2>3, <3>1, <4>2, <4>3
      <4>. QED
        BY <2>2, <2>3, <3>1, <3>2, <4>4, <4>5
    <3>4. CASE ~Updating(p, f)'
      BY <2>2, <2>3, <3>1, <3>2, <3>4
    <3>. QED
      BY <3>3, <3>4
  <2>5. CASE Replace(p) /\ Target(p) = f
    <3>1. Content(f)' = proc[p].next[2] /\ proc[p].next[2] \in SUBSET Procs
      BY <2>1, <2>5, Replaces
    <3>2. saved'[f] = Apply(Head(proc[p].todo).op, proc[p].next[1], saved[f])
      BY <2>1, <2>5, <1>2, Replaces DEF TypeInv, ControlTypeOK
    <3>3. Updating(p, f) /\ ~Updating(p, f)'
      <4>1. Updating(p, f)
        BY <2>5 DEF Replace, Updating, Target
      <4>2. At(p)' \notin {"temp", "write", "replace"}
        BY <2>5, Arrivals
      <4>. QED
        BY <4>1, <4>2 DEF Updating, At
    <3>4. saved'[f] = proc[p].next[2]
      BY <2>3, <3>2, <3>3
    <3>5. Load(f)' = saved'[f]
      BY <3>1, <3>4, SetsAreNoWords DEF Load
    <3>. QED
      BY <2>2, <2>3, <3>3, <3>5
  <2>6. CASE ~LoadIndex(p) /\ ~(Replace(p) /\ Target(p) = f)
    <3>1. saved'[f] = saved[f]
      <4>1. CASE Replace(p)
        <5>1. PICK g, t : g = Target(p) /\ t = Temp(p, g)
          OBVIOUS
        <5>. QED
          BY <1>2, <2>6, <4>1, <5>1, ReplaceContents DEF TypeInv, ControlTypeOK
      <4>2. CASE ~Replace(p)
        BY <2>6, <4>2 DEF Step, Start, ReadLock, UnlinkStale, OpenLock, FillLock, Release,
                          RemoveLock, StartCommand, OpenTemp, WriteTemp, Kill
      <4>. QED
        BY <4>1, <4>2
    <3>2. Content(f)' = Content(f)
      <4>1. CASE At(p) = "replace" /\ Target(p) = f
        <5>1. Kill(p)
          BY <2>6, <4>1 DEF Step, Start, ReadLock, UnlinkStale, OpenLock, FillLock, Release,
                            RemoveLock, StartCommand, OpenTemp, WriteTemp
        <5>. QED
          BY <5>1 DEF Kill, Content
      <4>2. CASE ~(At(p) = "replace" /\ Target(p) = f)
        BY <2>1, <4>2, IndexStays
      <4>. QED
        BY <4>1, <4>2
    <3>3. Load(f)' = saved'[f]
      BY <2>3, <3>1, <3>2 DEF Load
    <3>4. Updating(p, f)' => /\ Updating(p, f) /\ proc'[p].todo = proc[p].todo
                             /\ proc'[p].next = proc[p].next
      <4>1. CASE OpenTemp(p) \/ WriteTemp(p)
        BY <4>1, Arrivals DEF Updating, OpenTemp, WriteTemp
      <4>2. CASE ~OpenTemp(p) /\ ~WriteTemp(p)
        <5>1. At(p)' \notin {"temp", "write", "replace"}
          BY <2>6, <4>2, Arrivals DEF Step
        <5>. QED
          BY <5>1 DEF Updating, At
      <4>. QED
        BY <4>1, <4>2
    <3>. QED
      BY <2>2, <2>3, <3>1, <3>3, <3>4
  <2>. QED
    BY <2>4, <2>5, <2>6
<1>. QED
  BY <1>2 DEF UpdateInv

-----------------------------------------------------------------------------
(* The theorems *)

\* The invariant holds in the beginning ...
LEMMA InitIInv == Init => IInv
<1> SUFFICES ASSUME Init PROVE IInv
  OBVIOUS
<1>1. Idle \in ProcType
  BY DEF Idle, ProcType
<1>2. \A p \in Procs : proc[p] = Idle /\ At(p) = "new" /\ proc[p].fd = None
  BY DEF Init, At, Idle
<1>3. \A n \in Names : name[n] = None /\ Content(n) = None
  BY DEF Init, Content
<1>4. TypeInv
  <2>1. ControlTypeOK
    BY <1>1, <1>3 DEF Init, ControlTypeOK, Contents
  <2>2. PhaseInv
    BY <1>2 DEF PhaseInv
  <2>. QED
    BY <2>1, <2>2 DEF TypeInv
<1>5. OpenFilesInv /\ LockInv /\ LeftInv /\ TempInv
  BY <1>2, <1>3, Distinct
     DEF OpenFilesInv, LockInv, LeftInv, TempInv, Acquiring, Owner, Updating, Procs
<1>6. UpdateInv
  <2>1. \A f \in Indexes : Load(f) = saved[f]
    BY <1>3, Distinct DEF Load, Init
  <2>. QED
    BY <1>2, <2>1 DEF UpdateInv, Updating
<1>7. RegistryStaysReadable
  BY <1>3, Distinct, ControlAssumption DEF RegistryStaysReadable, Indexes
<1>. QED
  BY <1>4, <1>5, <1>6, <1>7 DEF IInv

\* ... and every step keeps it.
LEMMA StepIInv == IInv /\ [Next]_vars => IInv'
<1> SUFFICES ASSUME IInv, [Next]_vars PROVE IInv'
  OBVIOUS
<1>1. ASSUME NEW p \in Procs, Step(p) PROVE IInv'
  <2>1. TypeInv'
    BY <1>1, TypeStep DEF IInv
  <2>. QED
    BY <1>1, <2>1, OpenFilesStep, LockStep, LeftStep, TempStep, UpdateStep, RegistryStep
       DEF IInv
<1>2. CASE UNCHANGED vars
  BY <1>2 DEF vars, IInv, TypeInv, ControlTypeOK, PhaseInv, OpenFilesInv, LockInv, LeftInv,
              TempInv, UpdateInv, RegistryStaysReadable, At, Target, Content, Load,
              Acquiring, Owner, Updating
<1>. QED
  BY <1>1, <1>2 DEF Next

\* All of the above in every state of the control directory (scheduler.py,
\* scheduler_registry.py, fleet_leases.py).
THEOREM ControlInvariance == Spec => []IInv
  BY InitIInv, StepIInv, PTL DEF Spec

\* The directory and the processes keep to the types, and two names never stand
\* for one file.
THEOREM ControlTypeCorrect == Spec => []ControlTypeOK
<1>1. IInv => ControlTypeOK
  BY DEF IInv, TypeInv
<1>. QED
  BY ControlInvariance, <1>1, PTL

\* Any number of loops: as long as no two of them were acquiring the pid file at
\* the same time, one at most makes ticks, whoever was killed before.
THEOREM OneOwner == Spec => []OneOwnerUnlessRaced
<1>1. IInv => OneOwnerUnlessRaced
  BY DEF IInv, LockInv, OneOwnerUnlessRaced
<1>. QED
  BY ControlInvariance, <1>1, PTL

\* A pid file that outlives all loops is that of a loop that was killed.
THEOREM LockLeftByKill == Spec => []LockLeftOnlyByKill
<1>1. IInv => LockLeftOnlyByKill
  BY DEF IInv, LeftInv, LockLeftOnlyByKill, Ended, Owner
<1>. QED
  BY ControlInvariance, <1>1, PTL

\* Kills, refused updates and temporary files left behind lose no update of an
\* index: only processes that update it at the same time do.
THEOREM UpdatesSurvive == Spec => []UpdatesLostOnlyByOverlap
<1>1. IInv => UpdatesLostOnlyByOverlap
  BY DEF IInv, UpdateInv, UpdatesLostOnlyByOverlap
<1>. QED
  BY ControlInvariance, <1>1, PTL

\* A registry file is never found empty or torn, however many processes write.
THEOREM RegistryReadable == Spec => []RegistryStaysReadable
<1>1. IInv => RegistryStaysReadable
  BY DEF IInv
<1>. QED
  BY ControlInvariance, <1>1, PTL
=============================================================================
