---------------------------- MODULE ControlFiles ----------------------------
(***************************************************************************)
(* The files of the control directory, one file system call at a time: the *)
(* pid file of the scheduler loop and the two kinds of index files, which  *)
(* every process loads, changes and writes back as a whole. The registry   *)
(* files get a temporary file of their own for each write, the lease index *)
(* has a single one. Loops take the pid file first; commands of the        *)
(* operator, `scheduler tick` among them, take nothing. Any process may be *)
(* killed between two calls.                                               *)
(*                                                                         *)
(* An index is the set of its keys, and a process adds the key that is its *)
(* own name. The pid file is the set of the one process it names.          *)
(***************************************************************************)
EXTENDS Naturals, Sequences, FiniteSets

CONSTANTS
  Loops,        \* processes of `scheduler start`
  Commands,     \* processes of any other command
  TickWork,     \* the updates of a tick, in order
  CommandWork,  \* the sequences of updates a command may make
  None,         \* no file, no descriptor
  Empty,        \* what a file holds between its opening and its writing
  Torn          \* what two writers leave in one file

Procs == Loops \cup Commands
Indexes == {"leases", "registry"}
Updates == [file : Indexes, op : {"put", "renew", "drop"}]

ASSUME ControlAssumption ==
  /\ Loops \cap Commands = {} /\ IsFiniteSet(Procs)
  /\ TickWork \in Seq(Updates) \ {<<>>}
  /\ CommandWork \subseteq Seq(Updates) \ {<<>>}
  /\ Procs \cap (Indexes \cup {"lock", "leases.tmp", "registry.tmp"}) = {}
  /\ None \notin Nat /\ None \notin Procs \X SUBSET Procs
  /\ \A x \in SUBSET Procs : x \notin {None, Empty, Torn}
  /\ None # Empty /\ None # Torn /\ Empty # Torn

VARIABLES
  name,   \* the directory: the file, by number, each name stands for
  data,   \* the contents of each file
  proc,   \* the processes
  raced,  \* whether two loops were acquiring the lock at the same time
  clash,  \* the indexes two processes were updating at the same time
  saved   \* each index as the completed updates, one after another, make it

vars == <<name, data, proc, raced, clash, saved>>

\* Mutant: the registry has one temporary file, like the lease index.
OneTemp(p, f) == f \o ".tmp"

\* The temporary file of a write.
Temp(p, f) == IF f = "leases" THEN "leases.tmp" ELSE p

Names == Indexes \cup {"lock", "leases.tmp", "registry.tmp"} \cup Procs
Files == 1..(Cardinality(Names) + Cardinality(Procs) + 1)
Contents == {Empty, Torn} \cup SUBSET Procs

At(p) == proc[p].at
Ended(p) == At(p) \in {"new", "done", "killed"}
Content(n) == IF name[n] = None THEN None ELSE data[name[n]]

\* An index that is missing, empty or no JSON is taken for an empty one.
Load(f) == IF Content(f) \in {None, Empty, Torn} THEN {} ELSE Content(f)

Acquiring(p) == At(p) \in {"unlink", "open", "fill"}
Owner(p) == p \in Loops /\ At(p) \in {"load", "temp", "write", "replace", "release", "remove"}
Updating(p, f) == At(p) \in {"temp", "write", "replace"} /\ Head(proc[p].todo).file = f

Idle == [at |-> "new", todo |-> <<>>, next |-> None, fd |-> None]

Init ==
  /\ name = [n \in Names |-> None] /\ data = [i \in Files |-> Empty]
  /\ proc = [p \in Procs |-> Idle]
  /\ raced = FALSE /\ clash = {} /\ saved = [f \in Indexes |-> {}]

Goto(p, at) == proc' = [proc EXCEPT ![p].at = at]
Finish(p, at) == proc' = [proc EXCEPT ![p] = [Idle EXCEPT !.at = at]]

\* Whatever ends a tick, the loop releases its lock.
Leave(p) == Finish(p, IF p \in Loops THEN "release" ELSE "done")

\* write_text opens the file, which empties or creates it, and then fills it;
\* what another writer has put there meanwhile is overwritten from its start.
Free == Files \ ({name[n] : n \in Names} \cup {proc[p].fd : p \in Procs})
Open(p, n, at) ==
  LET i == IF name[n] = None THEN CHOOSE j \in Free : TRUE ELSE name[n]
  IN /\ name' = [name EXCEPT ![n] = i] /\ data' = [data EXCEPT ![i] = Empty]
     /\ proc' = [proc EXCEPT ![p].at = at, ![p].fd = i]
Fill(p, content) ==
  \E c \in IF data[proc[p].fd] = Empty THEN {content} ELSE {content, Torn} :
    data' = [data EXCEPT ![proc[p].fd] = c]

-----------------------------------------------------------------------------
(* The lock of the scheduler loop *)

Acquires(p, at) ==
  /\ Goto(p, at) /\ raced' = (raced \/ \E q \in Loops : Acquiring(q))

\* The pid file is looked for ...
Start(p) ==
  /\ p \in Loops /\ At(p) = "new"
  /\ IF name["lock"] = None THEN Acquires(p, "open") ELSE Goto(p, "read") /\ UNCHANGED raced
  /\ UNCHANGED <<name, data, clash, saved>>

\* Mutant: an old pid file is taken over whether its process lives or not.
ReadAnyLock(p) ==
  /\ At(p) = "read"
  /\ IF Content("lock") \in {None, Empty} THEN Finish(p, "done") /\ UNCHANGED raced
     ELSE Acquires(p, "unlink")
  /\ UNCHANGED <<name, data, clash, saved>>

\* ... and read. A loop that finds no number or a live process makes no tick.
\* The number of a process that has ended may be that of a live one by now, and
\* so may the number two writers have made.
ReadLock(p) ==
  /\ At(p) = "read"
  /\ \/ /\ Content("lock") \in {None, Empty} \/ \E q \in Procs : Content("lock") = {q} /\ ~Ended(q)
        /\ Finish(p, "done") /\ UNCHANGED raced
     \/ /\ \/ Content("lock") = Torn
           \/ \E q \in Procs : Content("lock") = {q} /\ Ended(q)
        /\ \/ Finish(p, "done") /\ UNCHANGED raced
           \/ Acquires(p, "unlink")
  /\ UNCHANGED <<name, data, clash, saved>>

UnlinkStale(p) ==
  /\ At(p) = "unlink" /\ Goto(p, "open")
  /\ name' = [name EXCEPT !["lock"] = None]
  /\ UNCHANGED <<data, raced, clash, saved>>

OpenLock(p) ==
  /\ At(p) = "open" /\ Open(p, "lock", "fill")
  /\ UNCHANGED <<raced, clash, saved>>

FillLock(p) ==
  /\ At(p) = "fill" /\ Fill(p, {p})
  /\ proc' = [proc EXCEPT ![p] = [Idle EXCEPT !.at = "load", !.todo = TickWork]]
  /\ UNCHANGED <<name, raced, clash, saved>>

\* Mutant: the loop ends without giving the lock back.
ReleaseForgotten(p) ==
  /\ At(p) = "release" /\ Finish(p, "done")
  /\ UNCHANGED <<name, data, raced, clash, saved>>

\* The file that is there is removed, whosever it is.
Release(p) ==
  /\ At(p) = "release"
  /\ IF name["lock"] = None THEN Finish(p, "done") ELSE Goto(p, "remove")
  /\ UNCHANGED <<name, data, raced, clash, saved>>
RemoveLock(p) ==
  /\ At(p) = "remove" /\ Finish(p, "done")
  /\ name' = [name EXCEPT !["lock"] = None]
  /\ UNCHANGED <<data, raced, clash, saved>>

-----------------------------------------------------------------------------
(* Updates of an index *)

StartCommand(p) ==
  /\ p \in Commands /\ At(p) = "new"
  /\ \E w \in CommandWork : proc' = [proc EXCEPT ![p].at = "load", ![p].todo = w]
  /\ UNCHANGED <<name, data, raced, clash, saved>>

NextUpdate(p) ==
  IF Len(proc[p].todo) = 1 THEN Leave(p)
  ELSE proc' = [proc EXCEPT ![p] = [Idle EXCEPT !.at = "load", !.todo = Tail(proc[p].todo)]]

Apply(op, k, index) == IF op = "drop" THEN index \ {k} ELSE index \cup {k}

\* The index is loaded and changed. When the lease or record that is to be
\* renewed or removed is not there, the command goes on or ends with an error.
LoadIndex(p) ==
  /\ At(p) = "load"
  /\ LET u == Head(proc[p].todo)
     IN \/ /\ \E k \in IF u.op = "put" THEN {p} ELSE Load(u.file) :
                proc' = [proc EXCEPT ![p].at = "temp", ![p].next = <<k, Apply(u.op, k, Load(u.file))>>]
           /\ clash' = clash \cup {f \in {u.file} : \E q \in Procs : Updating(q, f)}
        \/ /\ u.op # "put" /\ UNCHANGED clash
           /\ NextUpdate(p) \/ Leave(p)
  /\ UNCHANGED <<name, data, raced, saved>>

\* Mutant: the old index is removed before the new one is written.
WithoutTheOld(p) ==
  /\ At(p) = "temp"
  /\ LET f == Head(proc[p].todo).file
         i == CHOOSE j \in Free : TRUE
     IN /\ name' = [name EXCEPT ![f] = None, ![Temp(p, f)] = i]
        /\ data' = [data EXCEPT ![i] = Empty]
        /\ proc' = [proc EXCEPT ![p].at = "write", ![p].fd = i]
  /\ UNCHANGED <<raced, clash, saved>>

OpenTemp(p) ==
  /\ At(p) = "temp" /\ Open(p, Temp(p, Head(proc[p].todo).file), "write")
  /\ UNCHANGED <<raced, clash, saved>>

WriteTemp(p) ==
  /\ At(p) = "write" /\ Fill(p, proc[p].next[2])
  /\ proc' = [proc EXCEPT ![p].at = "replace", ![p].fd = None]
  /\ UNCHANGED <<name, raced, clash, saved>>

\* Mutant: the temporary file stays as a second name of the index.
LinkTemp(p) ==
  /\ At(p) = "replace"
  /\ LET u == Head(proc[p].todo)
         t == Temp(p, u.file)
     IN /\ name[t] # None /\ name' = [name EXCEPT ![u.file] = name[t]]
        /\ saved' = [saved EXCEPT ![u.file] = Apply(u.op, proc[p].next[1], @)]
  /\ Leave(p)
  /\ UNCHANGED <<data, raced, clash>>

\* The temporary file takes the name of the index. When another process has
\* moved it away the call raises.
Replace(p) ==
  /\ At(p) = "replace"
  /\ LET u == Head(proc[p].todo)
         t == Temp(p, u.file)
     IN IF name[t] = None THEN Leave(p) /\ UNCHANGED <<name, saved>>
        ELSE /\ name' = [name EXCEPT ![u.file] = name[t], ![t] = None]
             /\ saved' = [saved EXCEPT ![u.file] = Apply(u.op, proc[p].next[1], @)]
             /\ NextUpdate(p)
  /\ UNCHANGED <<data, raced, clash>>

-----------------------------------------------------------------------------
Kill(p) ==
  /\ ~Ended(p) /\ Finish(p, "killed")
  /\ UNCHANGED <<name, data, raced, clash, saved>>

Step(p) ==
  \/ Start(p) \/ ReadLock(p) \/ UnlinkStale(p) \/ OpenLock(p) \/ FillLock(p)
  \/ Release(p) \/ RemoveLock(p) \/ StartCommand(p)
  \/ LoadIndex(p) \/ OpenTemp(p) \/ WriteTemp(p) \/ Replace(p) \/ Kill(p)

Next == \E p \in Procs : Step(p)

Spec == Init /\ [][Next]_vars

-----------------------------------------------------------------------------
(* Properties *)

ProcType ==
  [at : {"new", "read", "unlink", "open", "fill", "load", "temp", "write", "replace",
         "release", "remove", "done", "killed"},
   todo : Seq(Updates),
   next : (Procs \X SUBSET Procs) \cup {None}, fd : Files \cup {None}]

\* The values of the variables; two names never stand for one file.
ControlTypeOK ==
  /\ name \in [Names -> Files \cup {None}] /\ data \in [Files -> Contents]
  /\ proc \in [Procs -> ProcType]
  /\ raced \in BOOLEAN /\ clash \subseteq Indexes /\ saved \in [Indexes -> SUBSET Procs]
  /\ \A m, n \in Names : m # n /\ name[m] # None => name[m] # name[n]

\* scheduler.py:68, "Scheduler already running": as long as no two loops have
\* been acquiring the lock at the same time, one loop at most makes ticks,
\* whoever was killed and whoever was turned away before.
OneOwnerUnlessRaced ==
  ~raced => \A p, q \in Loops : Owner(p) /\ Owner(q) => p = q

\* A pid file outlives all loops only when one of them was killed, also when
\* ticks failed and two loops raced for it: nothing else makes a later start
\* read-only.
LockLeftOnlyByKill ==
  name["lock"] # None /\ (\A p \in Loops : Ended(p)) => \E p \in Loops : At(p) = "killed"

\* An index is what its completed updates make it, as long as no process has
\* loaded it while another one was between its load and its replace: a kill at
\* any point of an update, a refused update and the temporary files others have
\* left lose nothing.
UpdatesLostOnlyByOverlap == \A f \in Indexes \ clash : Load(f) = saved[f]

\* The registry files are never found empty or torn, however many processes
\* write them at once, so that no update starts from nothing. The lease index,
\* with one temporary file for everybody, does not have this property.
RegistryStaysReadable == Content("registry") \notin {Empty, Torn}
=============================================================================
