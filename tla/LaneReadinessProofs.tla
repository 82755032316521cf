------------------------ MODULE LaneReadinessProofs ------------------------
(***************************************************************************)
(* Theorems about LaneReadiness for every choice of sources, outputs,      *)
(* checks and artifacts.                                                   *)
(*                                                                         *)
(* ReadinessTypeCorrect: the typing of the job and what it looks at.       *)
(* FirstOfSources, NothingLost: the merge of the signals, from what the    *)
(* sort and the normalisation give.                                        *)
(* ReadyAtOnce: what the two reads of a pull request say together.         *)
(* NoFindingTakenBack: the checks of the checkout, from an invariant on    *)
(* what each of them leaves behind.                                        *)
(***************************************************************************)
EXTENDS LaneReadiness, FiniteSetTheorems, WellFoundedInduction, TLAPS

SourceType == [name : ToSet(Names), where : Nat, command : BOOLEAN]
LoadType == [source : SourceType, raw : Outputs \cup {None}]

-----------------------------------------------------------------------------
(* The sort *)

\* The order of the sort: by name, then place, then arrival.
Prior(loaded, a, b) ==
  \/ Before(loaded[a], loaded[b])
  \/ ~Before(loaded[b], loaded[a]) /\ a < b

\* A name of a source has a rank, and only one name has it.
LEMMA Ranked ==
  ASSUME NEW x \in ToSet(Names)
  PROVE  RankIn(Names, x) \in Nat /\ Names[RankIn(Names, x)] = x
<1>1. \E i \in DOMAIN Names : Names[i] = x
  BY DEF ToSet
<1>2. RankIn(Names, x) \in DOMAIN Names /\ Names[RankIn(Names, x)] = x
  BY <1>1 DEF RankIn
<1> QED
  BY <1>2, ReadinessAssumption

\* The order is strict and total.
LEMMA PriorOrders ==
  ASSUME NEW loaded \in Seq(LoadType),
         NEW a \in DOMAIN loaded, NEW b \in DOMAIN loaded, NEW c \in DOMAIN loaded
  PROVE  /\ ~Prior(loaded, a, a)
         /\ a = b \/ Prior(loaded, a, b) \/ Prior(loaded, b, a)
         /\ Prior(loaded, a, b) /\ Prior(loaded, b, c) => Prior(loaded, a, c)
<1> DEFINE rank(i) == RankIn(Names, loaded[i].source.name)
           place(i) == loaded[i].source.where
<1>1. \A i \in DOMAIN loaded : loaded[i].source \in SourceType
  <2>1. \A i \in DOMAIN loaded : loaded[i] \in LoadType
    OBVIOUS
  <2> QED
    BY <2>1 DEF LoadType
<1>2. \A i \in DOMAIN loaded : rank(i) \in Nat /\ place(i) \in Nat /\ i \in Nat
  BY <1>1, Ranked DEF SourceType
<1>3. \A i, j \in DOMAIN loaded :
        rank(i) = rank(j) <=> loaded[i].source.name = loaded[j].source.name
  BY <1>1, Ranked DEF SourceType
<1>4. \A i, j \in DOMAIN loaded :
        Before(loaded[i], loaded[j]) <=>
          \/ rank(i) < rank(j)
          \/ rank(i) = rank(j) /\ place(i) < place(j)
  BY <1>3 DEF Before
<1>5. \A i, j \in DOMAIN loaded :
        Prior(loaded, i, j) <=>
          \/ rank(i) < rank(j)
          \/ rank(i) = rank(j) /\ place(i) < place(j)
          \/ /\ ~(rank(j) < rank(i)) /\ ~(rank(i) = rank(j) /\ place(j) < place(i))
             /\ i < j
  BY <1>4 DEF Prior
<1> HIDE DEF rank, place
<1> QED
  BY <1>2, <1>5

\* Whatever has arrived can be sorted: the number of loads before each one is
\* its position.
LEMMA SortExists ==
  ASSUME NEW loaded \in Seq(LoadType)
  PROVE  \E p \in SetToSeqs(DOMAIN loaded) :
           \A i, j \in DOMAIN loaded : i < j => Prior(loaded, p[i], p[j])
<1> DEFINE D == DOMAIN loaded
           n == Len(loaded)
           Down(i) == {j \in D : Prior(loaded, j, i)}
           r == [i \in D |-> Cardinality(Down(i)) + 1]
<1>1. D = 1 .. n /\ n \in Nat
  OBVIOUS
<1>2. IsFiniteSet(D) /\ Cardinality(D) = n
  BY <1>1, FS_Interval
<1>3. \A i \in D : /\ IsFiniteSet(Down(i)) /\ Cardinality(Down(i)) \in Nat
                   /\ Cardinality(Down(i)) < n
  <2> SUFFICES ASSUME NEW i \in D
               PROVE  /\ IsFiniteSet(Down(i)) /\ Cardinality(Down(i)) \in Nat
                      /\ Cardinality(Down(i)) < n
    OBVIOUS
  <2>1. Down(i) \in SUBSET (D \ {i})
    BY PriorOrders
  <2>2. IsFiniteSet(D \ {i}) /\ Cardinality(D \ {i}) = n - 1
    BY <1>2, FS_RemoveElement
  <2>3. IsFiniteSet(Down(i)) /\ Cardinality(Down(i)) <= n - 1
    BY <2>1, <2>2, FS_Subset
  <2>4. Cardinality(Down(i)) \in Nat
    BY <2>3, FS_CardinalityType
  <2> QED
    BY <1>1, <2>3, <2>4
<1>4. \A i, j \in D : Prior(loaded, i, j) => r[i] < r[j]
  <2> SUFFICES ASSUME NEW i \in D, NEW j \in D, Prior(loaded, i, j)
               PROVE  r[i] < r[j]
    OBVIOUS
  <2>1. Down(i) \in SUBSET Down(j) /\ i \in Down(j) /\ i \notin Down(i)
    BY PriorOrders
  <2>2. Cardinality(Down(i)) <= Cardinality(Down(j))
        /\ Cardinality(Down(i)) # Cardinality(Down(j))
    <3> HIDE DEF Down
    <3> QED
      BY <1>3, <2>1, FS_Subset
  <2>3. r[i] = Cardinality(Down(i)) + 1 /\ r[j] = Cardinality(Down(j)) + 1
    OBVIOUS
  <2> HIDE DEF Down, r, D
  <2> QED
    BY <1>3, <2>2, <2>3
<1>5. r \in [D -> 1 .. n]
  <2>1. \A i \in D : Cardinality(Down(i)) + 1 \in 1 .. n
    <3> HIDE DEF Down, D
    <3> QED
      BY <1>1, <1>3
  <2> QED
    BY <2>1
<1>6. \A i, j \in D : r[i] = r[j] => i = j
  <2> HIDE DEF r
  <2> QED
    BY <1>1, <1>4, <1>5, PriorOrders
<1>7. \A k \in 1 .. n : \E i \in D : r[i] = k
  <2>1. r \in Injection(D, 1 .. n)
    <3> HIDE DEF r
    <3> QED
      BY <1>5, <1>6 DEF Injection, IsInjective
  <2>2. IsFiniteSet(1 .. n) /\ Cardinality(D) = Cardinality(1 .. n)
    BY <1>1, <1>2
  <2>3. r \in Surjection(D, 1 .. n)
    <3> HIDE DEF r, D
    <3> QED
      BY <2>1, <2>2, FS_Injection
  <2> HIDE DEF r
  <2> QED
    BY <2>3 DEF Surjection
<1> DEFINE p == [k \in 1 .. n |-> CHOOSE i \in D : r[i] = k]
<1> HIDE DEF r
<1>8. \A k \in 1 .. n : p[k] \in D /\ r[p[k]] = k
  BY <1>7
<1>9. p \in SetToSeqs(D)
  <2>1. p \in [1 .. n -> D]
    BY <1>8
  <2>2. \A i, j \in 1 .. n : i # j => p[i] # p[j]
    <3> HIDE DEF p
    <3> QED
      BY <1>8
  <2> HIDE DEF p
  <2> QED
    BY <1>2, <2>1, <2>2 DEF SetToSeqs
<1>10. \A i, j \in D : i < j => Prior(loaded, p[i], p[j])
  <2> SUFFICES ASSUME NEW i \in D, NEW j \in D, i < j, ~Prior(loaded, p[i], p[j])
               PROVE  FALSE
    OBVIOUS
  <2>1. p[i] \in D /\ p[j] \in D /\ r[p[i]] = i /\ r[p[j]] = j
    BY <1>1, <1>8
  <2>2. p[i] = p[j] \/ Prior(loaded, p[j], p[i])
    BY <2>1, PriorOrders
  <2>3. p[i] = p[j] \/ j < i
    BY <1>4, <2>1, <2>2
  <2> HIDE DEF p
  <2> QED
    BY <1>1, <2>1, <2>3
<1> QED
  BY <1>9, <1>10

\* What is sorted is what has arrived, each load once, in the order.
LEMMA SortedLoads ==
  ASSUME NEW loaded \in Seq(LoadType)
  PROVE  \E p \in [DOMAIN loaded -> DOMAIN loaded] :
           /\ \A i \in DOMAIN loaded : \E k \in DOMAIN loaded : p[k] = i
           /\ \A i, j \in DOMAIN loaded : i < j => Prior(loaded, p[i], p[j])
           /\ Sorted(loaded) = [k \in DOMAIN loaded |-> loaded[p[k]]]
<1> DEFINE D == DOMAIN loaded
           InOrder(p) == \A i, j \in D : i < j => Prior(loaded, p[i], p[j])
           order == CHOOSE p \in SetToSeqs(D) : InOrder(p)
<1>1. order \in SetToSeqs(D) /\ InOrder(order)
  BY SortExists
<1>2. Sorted(loaded) = [k \in D |-> loaded[order[k]]]
  BY DEF Sorted, Prior
<1> HIDE DEF order
<1>3. IsFiniteSet(D) /\ D = 1 .. Cardinality(D)
  <2>1. D = 1 .. Len(loaded) /\ Len(loaded) \in Nat
    OBVIOUS
  <2>2. IsFiniteSet(1 .. Len(loaded)) /\ Cardinality(1 .. Len(loaded)) = Len(loaded)
    BY <2>1, FS_Interval
  <2> QED
    BY <2>1, <2>2
<1>4. order \in [D -> D] /\ \A i, j \in D : i # j => order[i] # order[j]
  BY <1>1, <1>3 DEF SetToSeqs
<1>5. \A i \in D : \E k \in D : order[k] = i
  <2>1. order \in Injection(D, D)
    BY <1>4 DEF Injection, IsInjective
  <2>2. order \in Surjection(D, D)
    BY <1>3, <2>1, FS_Injection
  <2> QED
    BY <2>2 DEF Surjection
<1> QED
  BY <1>1, <1>2, <1>4, <1>5

-----------------------------------------------------------------------------
(* The merge *)

\* Whatever a source says, a signal has a verdict the report counts.
LEMMA NormalVerdict ==
  ASSUME NEW raw, NEW name, NEW s \in Normalize(raw, name)
  PROVE  s.verdict \in Verdicts
<1>1. \A word : AsVerdict(word) \in Verdicts
  BY DEF AsVerdict, Verdicts
<1>2. \A id, word, summary : Signal(id, AsVerdict(word), summary).verdict \in Verdicts
  BY <1>1 DEF Signal
<1>3. \A report : \A t \in FromReport(report, name) : t.verdict \in Verdicts
  BY <1>2 DEF FromReport
<1>4. \A p : \A t \in FromPayload(p, name) : t.verdict \in Verdicts
  BY <1>2 DEF FromPayload
<1>5. \A items : \A t \in FromItems(items, name) : t.verdict \in Verdicts
  <2> SUFFICES ASSUME NEW items, NEW t \in FromItems(items, name)
               PROVE  t.verdict \in Verdicts
    OBVIOUS
  <2>1. PICK i \in DOMAIN items :
          t \in IF items[i].object THEN FromPayload(items[i].payload, name)
                ELSE {Signal(SignalId(name, i, None), "needs_work", items[i].text)}
    BY DEF FromItems
  <2>2. CASE items[i].object
    BY <1>4, <2>1, <2>2
  <2>3. CASE ~items[i].object
    BY <2>1, <2>3 DEF Signal, Verdicts
  <2> QED
    BY <2>2, <2>3
<1>6. \A t \in FromText(raw, name) : t.verdict \in Verdicts
  BY DEF FromText, Signal, Verdicts
<1> QED
  BY <1>3, <1>4, <1>5, <1>6 DEF Normalize

\* The merge holds the signals of a load that no load before it has.
LEMMA MergedIs ==
  ASSUME NEW loads \in Seq(LoadType), NEW m
  PROVE  m \in Merged(loads) <=>
           \E k \in DOMAIN loads :
             \E s \in Normalize(loads[k].raw, loads[k].source.name) :
               /\ m = [signal |-> s, from |-> loads[k].source]
               /\ \A j \in 1 .. k - 1 :
                    \A t \in Normalize(loads[j].raw, loads[j].source.name) : Key(t) # Key(s)
  BY DEF Merged

\* A merged signal is that of a load, and no earlier one has its key.
LEMMA MergedHas ==
  ASSUME NEW loads \in Seq(LoadType), NEW m, m \in Merged(loads)
  PROVE  \E k \in DOMAIN loads :
           \E s \in Normalize(loads[k].raw, loads[k].source.name) :
             /\ m = [signal |-> s, from |-> loads[k].source]
             /\ \A j \in 1 .. k - 1 :
                  \A t \in Normalize(loads[j].raw, loads[j].source.name) : Key(t) # Key(s)
  BY MergedIs

\* Of the loads with the key of a signal one is first.
LEMMA FirstWithKey ==
  ASSUME NEW loads \in Seq(LoadType), NEW l \in DOMAIN loads,
         NEW s \in Normalize(loads[l].raw, loads[l].source.name)
  PROVE  \E m \in Merged(loads) : Key(m.signal) = Key(s)
<1> DEFINE Said(k) == Normalize(loads[k].raw, loads[k].source.name)
           T == {k \in DOMAIN loads : \E t \in Said(k) : Key(t) = Key(s)}
<1>1. T \subseteq Nat /\ T # {}
  <2>1. DOMAIN loads \subseteq Nat
    OBVIOUS
  <2>2. l \in T
    OBVIOUS
  <2> QED
    BY <2>1, <2>2
<1>2. PICK k \in T : \A j \in T : ~(<<j, k>> \in OpToRel(<, Nat))
  <2> HIDE DEF T
  <2> QED
    BY <1>1, WFMin, NatLessThanWellFounded
<1>3. \A j \in T : ~(j < k)
  BY <1>1, <1>2 DEF OpToRel
<1>4. PICK t \in Said(k) : Key(t) = Key(s)
  BY <1>2
<1>5. \A j \in 1 .. k - 1 : \A u \in Said(j) : Key(u) # Key(t)
  <2> SUFFICES ASSUME NEW j \in 1 .. k - 1, NEW u \in Said(j), Key(u) = Key(t)
               PROVE  FALSE
    OBVIOUS
  <2>1. k \in DOMAIN loads /\ k \in Nat
    BY <1>1, <1>2
  <2>2. j \in DOMAIN loads /\ j < k
    BY <2>1
  <2>3. j \in T
    BY <1>4, <2>2
  <2> QED
    BY <1>3, <2>2, <2>3
<1> DEFINE m == [signal |-> t, from |-> loads[k].source]
<1>6. m \in Merged(loads)
  BY <1>2, <1>4, <1>5, MergedIs
<1> QED
  BY <1>4, <1>6

-----------------------------------------------------------------------------
(* The values of the variables *)

Kinds == {"none", "signals", "pr", "local", "repair"}
Places == {"over", "load", "checks", "view", "branch", "diff check", "base", "plan", "diff"}
CiWords == {"missing", "unknown", "pending", "failed", "passed"}

IssueWords ==
  CiWords \cup States \cup
  {"reference", "screenshot", "detached", "whitespace", "no base", "diverged", "escalate",
   "diff failed", "no diff", "no evidence", "unreviewed", "secret", "no files"}

\* The record of a job. What its signals are is said by MergeInv.
JobsWith(signals) ==
  [kind : Kinds, at : Places, run : Artifacts \cup {None}, raised : BOOLEAN,
   loaded : Seq(LoadType), signals : {signals}, ci : CiWords, status : States,
   issues : SUBSET IssueWords, sent : BOOLEAN]
JobType == JobsWith(job.signals)

\* What a job looks at is there when it runs, and gone when it is taken.
LooksInv ==
  /\ Free => Over /\ repo = NoRepo
  /\ Running("pr") => github \in PrType /\ job.run \in Artifacts
  /\ Running("local") => job.run \in Artifacts

TypeInv == ReadinessTypeOK /\ job \in JobType /\ LooksInv

\* A merge is of all that was loaded, in the order of the sources.
MergeInv == Done("signals") => job.signals = Merged(Sorted(job.loaded))

\* What the checks of the checkout leave behind: until the plan, only what
\* blocks is found; after it, the status stands for what was found.
LocalInv ==
  job.kind = "local" /\ ~job.raised =>
    /\ job.at \in {"branch", "diff check", "base"} =>
         /\ job.status = "ready" <=> job.issues = {}
         /\ job.issues # {} => job.status = "blocked"
    /\ job.at = "plan" => job.run.base /\ job.issues # {}
    /\ job.at = "diff" =>
         /\ job.status = "ready" <=> job.issues = {}
         /\ job.issues # {} /\ job.run.base => job.status = "blocked"
         /\ ~job.run.base => job.issues # {}
    /\ job.at = "over" => FindingsStand

\* A new job has the values of a job.
LEMMA NewJobType ==
  ASSUME NEW kind \in Kinds, NEW at \in Places, NEW run \in Artifacts \cup {None}
  PROVE  NewJob(kind, at, run) \in JobsWith({})
<1>1. <<>> \in Seq(LoadType)
  OBVIOUS
<1> QED
  BY <1>1 DEF JobsWith, NewJob, CiWords, States

\* An answer of GitHub is one of the words for checks, and what becomes of the
\* status is one of the words for a status.
LEMMA PrWords ==
  ASSUME NEW answered \in BOOLEAN, NEW checks, NEW pr, NEW state, NEW status \in States
  PROVE  /\ ClassifyChecks(answered, checks) \in CiWords
         /\ ClassifyView(answered, pr, state) \in States
         /\ AfterView(status, ClassifyView(answered, pr, state)) \in States
  BY DEF ClassifyChecks, ClassifyView, AfterView, States, CiWords

\* A brief speaks of something to repair.
LEMMA BriefReadiness ==
  ASSUME brief = None \/ brief.readiness \in {"merge_conflict", "needs_rebase"},
         NEW run, NEW r
  PROVE  \/ Brief(Plan(run, r)) = None
         \/ Brief(Plan(run, r)).readiness \in {"merge_conflict", "needs_rebase"}
  BY DEF Brief

\* Before the first job nothing is looked at.
LEMMA TypeInit == Init => TypeInv
<1> SUFFICES ASSUME Init PROVE TypeInv
  OBVIOUS
<1>1. job \in JobType
  <2>1. job = NewJob("none", "over", None) /\ job.signals = {}
    BY DEF Init, NewJob
  <2> QED
    BY <2>1, NewJobType DEF JobType, Kinds, Places
<1>2. ReadinessTypeOK
  BY DEF Init, NewJob, ReadinessTypeOK, States
<1>3. LooksInv
  BY DEF Init, NewJob, LooksInv, Free, Over, Running
<1> QED
  BY <1>1, <1>2, <1>3 DEF TypeInv

\* The checks of the checkout, one after the other.
LocalStep == CheckBranch \/ CheckDiff \/ CheckBase \/ PlanRepair \/ Judge

\* An issue that is found leaves a job.
LEMMA FoundType ==
  ASSUME NEW signals, job \in JobsWith(signals),
         NEW cond, NEW issue \in IssueWords, NEW status \in States, NEW at \in Places,
         job' = [Found(cond, issue, status) EXCEPT !.at = at]
  PROVE  job' \in JobsWith(signals) /\ job'.kind = job.kind /\ job'.run = job.run
<1>1. CASE cond
  BY <1>1 DEF Found, JobsWith
<1>2. CASE ~cond
  BY <1>2 DEF Found, JobsWith
<1> QED
  BY <1>1, <1>2

\* Each of them leaves the job a job, of the same kind and run.
LEMMA LocalStepType ==
  ASSUME TypeInv, LocalStep
  PROVE  /\ Running("local") /\ UNCHANGED <<github, repo>>
         /\ brief' = brief \/ brief' = Brief(Plan(job.run, repo))
         /\ job' \in JobType' /\ job'.kind = "local" /\ job'.run = job.run
<1>a. job \in JobsWith(job.signals)
  BY DEF TypeInv, JobType
<1>b. /\ Running("local") /\ UNCHANGED <<github, repo>>
      /\ brief' = brief \/ brief' = Brief(Plan(job.run, repo))
  BY DEF LocalStep, CheckBranch, CheckDiff, CheckBase, PlanRepair, Judge
<1> DEFINE Onward == job' \in JobsWith(job.signals) /\ job'.kind = job.kind /\ job'.run = job.run
<1>c. ASSUME NEW at \in Places, NEW status \in States, NEW issues \in SUBSET IssueWords,
             job' = [job EXCEPT !.at = at, !.status = status, !.issues = issues]
      PROVE  Onward
  BY <1>a, <1>c DEF JobsWith
<1>1. ASSUME CheckBranch PROVE Onward
  <2>1. "detached" \in IssueWords /\ "blocked" \in States /\ "diff check" \in Places
    BY DEF IssueWords, States, Places
  <2> QED
    BY <1>1, <1>a, <2>1, FoundType DEF CheckBranch
<1>2. ASSUME CheckDiff PROVE Onward
  <2>1. "whitespace" \in IssueWords /\ "blocked" \in States /\ "base" \in Places
    BY DEF IssueWords, States, Places
  <2> QED
    BY <1>2, <1>a, <2>1, FoundType DEF CheckDiff
<1>3. ASSUME CheckBase PROVE Onward
  <2>1. /\ "no base" \in IssueWords /\ "diverged" \in IssueWords /\ "not_ready" \in States
        /\ "diff" \in Places /\ "plan" \in Places
    BY DEF IssueWords, States, Places
  <2>2. CASE ~job.run.base
    BY <1>3, <1>a, <2>1, <2>2, FoundType DEF CheckBase
  <2>3. CASE job.run.base /\ repo.contains
    BY <1>3, <1>a, <2>1, <2>3 DEF CheckBase, JobsWith
  <2>4. CASE job.run.base /\ ~repo.contains
    BY <1>3, <1>a, <2>1, <2>4 DEF CheckBase, JobsWith
  <2> QED
    BY <2>2, <2>3, <2>4
<1>4. ASSUME PlanRepair PROVE Onward
  <2> DEFINE issues == job.issues \cup
                         (IF Plan(job.run, repo).escalate THEN {"escalate"} ELSE {})
  <2>1. issues \in SUBSET IssueWords
    BY <1>a DEF JobsWith, IssueWords
  <2>2. "diff" \in Places /\ "blocked" \in States
    BY DEF Places, States
  <2>3. job' = [job EXCEPT !.at = "diff", !.status = "blocked", !.issues = issues]
    BY <1>4 DEF PlanRepair
  <2> QED
    BY <1>c, <2>1, <2>2, <2>3
<1>5. ASSUME Judge PROVE Onward
  <2>1. \A status \in States : \A base, r : AfterDiff(status, base, r) \in States
    BY DEF AfterDiff, States
  <2>2. job.status \in States /\ job.issues \in SUBSET IssueWords
    BY <1>a DEF JobsWith
  <2>3. /\ job' = [job EXCEPT !.at = "over", !.status = job'.status, !.issues = job'.issues]
        /\ job'.status \in States /\ job'.issues \in SUBSET IssueWords
    <3> DEFINE run        == job.run
               changed    == ChangedFiles(run)
               reviewed   == ReviewedFiles(run)
               unreviewed == reviewed # {} /\ ~(changed \subseteq reviewed)
               secret     == changed \cap SecretFiles # {}
               s1 == AfterDiff(job.status, run.base, repo)
               s2 == IF (reviewed = {} /\ s1 = "ready") \/ unreviewed \/ secret
                     THEN "blocked" ELSE s1
               s3 == IF s2 = "ready" /\ changed = {} THEN "not_ready" ELSE s2
               issues == job.issues
                          \cup (IF run.base /\ ~repo.resolves THEN {"diff failed"} ELSE {})
                          \cup (IF run.base /\ repo.resolves /\ ~repo.differs
                                THEN {"no diff"} ELSE {})
                          \cup (IF reviewed = {} THEN {"no evidence"} ELSE {})
                          \cup (IF unreviewed THEN {"unreviewed"} ELSE {})
                          \cup (IF secret THEN {"secret"} ELSE {})
                          \cup (IF s2 = "ready" /\ changed = {} THEN {"no files"} ELSE {})
    <3>1. job' = [job EXCEPT !.at = "over", !.status = s3, !.issues = issues]
      BY <1>5 DEF Judge
    <3>2. s3 \in States
      BY <2>1, <2>2 DEF States
    <3>3. issues \in SUBSET IssueWords
      <4> HIDE DEF changed, reviewed, s2
      <4> QED
        BY <2>2 DEF IssueWords
    <3> HIDE DEF s3, issues
    <3> QED
      BY <1>a, <3>1, <3>2, <3>3 DEF JobsWith
  <2> HIDE DEF Onward
  <2>4. "over" \in Places
    BY DEF Places
  <2> QED
    BY <1>c, <2>3, <2>4
<1>6. Onward
  BY <1>1, <1>2, <1>3, <1>4, <1>5 DEF LocalStep
<1>7. job'.signals = job.signals /\ job.kind = "local"
  BY <1>b, <1>6 DEF JobsWith, Running
<1> QED
  BY <1>b, <1>6, <1>7 DEF JobType

\* Each job keeps the values of the variables.
LEMMA TypeStep == TypeInv /\ [Next]_vars => TypeInv'
<1> SUFFICES ASSUME TypeInv, [Next]_vars PROVE TypeInv'
  OBVIOUS
<1> USE DEF TypeInv
<1>a. job \in JobType /\ job.status \in States /\ job.kind \in Kinds
  BY DEF JobType, JobsWith
<1>1. CASE Return
  <2>1. job' = NewJob("none", "over", None) /\ job'.signals = {} /\ job'.kind = "none"
    BY <1>1 DEF Return, NewJob
  <2>2. job' \in JobType'
    BY <2>1, NewJobType DEF JobType, Kinds, Places
  <2> QED
    BY <1>1, <2>1, <2>2
       DEF Return, NewJob, ReadinessTypeOK, LooksInv, States, Free, Over, Running
<1>2. CASE StartSignals
  <2>1. job' = NewJob("signals", "load", None) /\ job'.signals = {} /\ job'.kind = "signals"
    BY <1>2 DEF StartSignals, NewJob
  <2>2. job' \in JobType'
    BY <2>1, NewJobType DEF JobType, Kinds, Places
  <2> QED
    BY <1>2, <2>1, <2>2
       DEF StartSignals, NewJob, ReadinessTypeOK, LooksInv, States, Free, Over, Running
<1>3. CASE Collect
  <2>1. job' \in JobType' /\ job'.kind = "signals"
    BY <1>3, <1>a DEF Collect, JobType, JobsWith, Places, Running
  <2> QED
    BY <1>3, <1>a, <2>1
       DEF Collect, ReadinessTypeOK, LooksInv, JobType, JobsWith, Free, Over, Running
<1>4. ASSUME NEW i \in DOMAIN Sources, Load(i) PROVE TypeInv'
  <2>1. PICK raw \in Outputs \cup {None} :
          job' = [job EXCEPT !.loaded = Append(@, [source |-> Sources[i], raw |-> raw])]
    BY <1>4 DEF Load
  <2>2. [source |-> Sources[i], raw |-> raw] \in LoadType
    <3>1. Sources \in Seq(SourceType)
      BY ReadinessAssumption DEF SourceType
    <3>2. Sources[i] \in SourceType
      BY <3>1
    <3> QED
      BY <3>2 DEF LoadType
  <2>3. Append(job.loaded, [source |-> Sources[i], raw |-> raw]) \in Seq(LoadType)
    <3>1. job.loaded \in Seq(LoadType)
      BY <1>a DEF JobType, JobsWith
    <3> QED
      BY <2>2, <3>1
  <2>4. job' \in JobType' /\ job'.kind = job.kind /\ job'.at = job.at /\ job'.run = job.run
    BY <1>a, <2>1, <2>3 DEF JobType, JobsWith
  <2> QED
    BY <1>4, <1>a, <2>1, <2>4
       DEF Load, ReadinessTypeOK, LooksInv, JobType, JobsWith, Free, Over, Running
<1>5. ASSUME Raise, \/ Running("signals") \/ Running("pr") \/ Running("local") PROVE TypeInv'
  <2>1. job' \in JobType' /\ job'.kind = job.kind /\ job'.run = job.run /\ job'.at = "over"
    BY <1>5, <1>a DEF Raise, JobType, JobsWith, Places
  <2> QED
    BY <1>5, <1>a, <2>1
       DEF Raise, ReadinessTypeOK, LooksInv, JobType, JobsWith, Free, Over, Running
<1>6. CASE StartPr
  <2>1. PICK run \in Artifacts, pr \in PrType :
          /\ job' = IF run.ref THEN NewJob("pr", "checks", run)
                    ELSE [NewJob("pr", "over", run) EXCEPT !.issues = {"reference"}]
          /\ github' = pr /\ UNCHANGED <<repo, brief>>
    BY <1>6 DEF StartPr
  <2>2. job' \in JobType' /\ job'.kind = "pr" /\ job'.run = run
    <3>1. /\ NewJob("pr", "checks", run) \in JobsWith({})
          /\ NewJob("pr", "over", run) \in JobsWith({})
      BY NewJobType DEF Kinds, Places
    <3>2. [NewJob("pr", "over", run) EXCEPT !.issues = {"reference"}] \in JobsWith({})
      BY <3>1 DEF JobsWith, IssueWords
    <3>3. job' \in JobsWith({}) /\ job'.signals = {}
      BY <2>1, <3>1, <3>2 DEF JobsWith
    <3> QED
      BY <2>1, <3>3 DEF JobType, NewJob
  <2>3. job'.status \in States /\ job'.ci \in CiWords
    BY <2>2 DEF JobType, JobsWith
  <2>4. repo = NoRepo
    BY <1>6 DEF StartPr, LooksInv
  <2> QED
    BY <2>1, <2>2, <2>3, <2>4, <1>a
       DEF ReadinessTypeOK, LooksInv, CiWords, Free, Over, Running
<1>7. CASE ReadChecks
  <2>1. PICK answered \in BOOLEAN :
          LET ci == ClassifyChecks(answered, github.checks)
          IN job' = [job EXCEPT !.at = "view", !.ci = ci,
                       !.status = IF ci = "passed" THEN "ready"
                                  ELSE IF ci = "pending" THEN "not_ready" ELSE "blocked",
                       !.issues = IF ci = "passed" THEN {} ELSE {ci}]
    BY <1>7 DEF ReadChecks
  <2>2. ClassifyChecks(answered, github.checks) \in CiWords
    BY <1>a, PrWords
  <2>3. PICK status \in States, issues \in SUBSET IssueWords :
          job' = [job EXCEPT !.at = "view", !.ci = ClassifyChecks(answered, github.checks),
                             !.status = status, !.issues = issues]
    BY <2>1, <2>2 DEF States, CiWords, IssueWords
  <2>4. job' \in JobType' /\ job'.kind = job.kind /\ job'.run = job.run /\ job'.at = "view"
    BY <1>a, <2>2, <2>3 DEF JobType, JobsWith, Places
  <2> QED
    BY <1>7, <1>a, <2>4
       DEF ReadChecks, ReadinessTypeOK, LooksInv, JobType, JobsWith, CiWords, Free, Over, Running
<1>8. CASE ReadView
  <2>1. PICK answered \in BOOLEAN, state \in MergeStates(github) :
          LET view   == ClassifyView(answered, github, state)
              status == AfterView(job.status, view)
              last   == IF NeedsScreenshot(job.run) /\ status \in {"ready", "draft_ready"}
                        THEN "blocked" ELSE status
              issues == job.issues \cup (IF view = "ready" THEN {} ELSE {view})
                          \cup (IF NeedsScreenshot(job.run) THEN {"screenshot"} ELSE {})
          IN job' = [job EXCEPT !.at = "over", !.status = last,
                                !.issues = IF last = "ready" THEN {} ELSE issues]
    BY <1>8 DEF ReadView
  <2>2. ClassifyView(answered, github, state) \in States
        /\ AfterView(job.status, ClassifyView(answered, github, state)) \in States
    BY <1>a, PrWords
  <2>3. PICK status \in States, issues \in SUBSET IssueWords :
          job' = [job EXCEPT !.at = "over", !.status = status, !.issues = issues]
    <3> DEFINE view == ClassifyView(answered, github, state)
               issues == job.issues \cup (IF view = "ready" THEN {} ELSE {view})
                           \cup (IF NeedsScreenshot(job.run) THEN {"screenshot"} ELSE {})
    <3>1. job.issues \in SUBSET IssueWords
      BY <1>a DEF JobType, JobsWith
    <3>2. issues \in SUBSET IssueWords
      BY <2>2, <3>1 DEF IssueWords
    <3> QED
      BY <2>1, <2>2, <3>2 DEF States, IssueWords
  <2>4. job' \in JobType' /\ job'.kind = job.kind /\ job'.run = job.run /\ job'.at = "over"
    BY <1>a, <2>3 DEF JobType, JobsWith, Places
  <2> QED
    BY <1>8, <1>a, <2>4
       DEF ReadView, ReadinessTypeOK, LooksInv, JobType, JobsWith, CiWords, Free, Over, Running
<1>9. CASE PrMoves
  <2>1. github \in PrType /\ Running("pr") /\ UNCHANGED <<job, repo, brief>>
    BY <1>9 DEF PrMoves, LooksInv
  <2>2. github' \in PrType
    <3>1. CASE \E c \in DOMAIN github.checks, s \in CheckStates \ {"queued"} :
                 github.checks[c] = "queued" /\ github' = [github EXCEPT !.checks[c] = s]
      <4>1. PICK c \in DOMAIN github.checks, s \in CheckStates :
              github' = [github EXCEPT !.checks[c] = s]
        BY <3>1
      <4>2. PICK S \in SUBSET Checks : github.checks \in [S -> CheckStates]
        BY <2>1 DEF PrType
      <4>3. [github.checks EXCEPT ![c] = s] \in [S -> CheckStates]
        BY <4>1, <4>2
      <4> QED
        BY <2>1, <4>1, <4>2, <4>3 DEF PrType
    <3>2. CASE github' = [github EXCEPT !.checks = [c \in DOMAIN @ |-> "queued"]]
      <4>1. PICK S \in SUBSET Checks : github.checks \in [S -> CheckStates]
        BY <2>1 DEF PrType
      <4>2. [c \in DOMAIN github.checks |-> "queued"] \in [S -> CheckStates]
        BY <4>1 DEF CheckStates
      <4> QED
        BY <2>1, <3>2, <4>1, <4>2 DEF PrType
    <3>3. CASE \E d \in Decisions : github' = [github EXCEPT !.decision = d]
      BY <2>1, <3>3 DEF PrType
    <3>4. CASE \/ github' = [github EXCEPT !.draft = ~@]
               \/ github' = [github EXCEPT !.open = FALSE]
               \/ github' = [github EXCEPT !.conflicts = ~@]
      BY <2>1, <3>4 DEF PrType
    <3> QED
      BY <1>9, <3>1, <3>2, <3>3, <3>4 DEF PrMoves
  <2>3. job' \in JobType'
    BY <1>a, <2>1 DEF JobType
  <2> QED
    BY <1>a, <2>1, <2>2, <2>3 DEF ReadinessTypeOK, LooksInv, Free, Over, Running
<1>10. CASE StartLocal
  <2>1. PICK run \in Artifacts :
          /\ job' = [NewJob("local", "branch", run) EXCEPT !.status = "ready"]
          /\ repo' \in RepoStates(ChangedFiles(run)) /\ UNCHANGED <<github, brief>>
    BY <1>10 DEF StartLocal
  <2>2. job' \in JobType' /\ job'.kind = "local" /\ job'.run = run
    <3>1. NewJob("local", "branch", run) \in JobsWith({})
      BY NewJobType DEF Kinds, Places
    <3>2. job' \in JobsWith({}) /\ job'.signals = {}
      BY <2>1, <3>1 DEF JobsWith, States
    <3> QED
      BY <2>1, <3>1, <3>2 DEF JobType, NewJob
  <2>3. job'.status \in States /\ job'.ci \in CiWords
    BY <2>2 DEF JobType, JobsWith
  <2> QED
    BY <2>1, <2>2, <2>3, <1>a DEF ReadinessTypeOK, LooksInv, CiWords, Free, Over, Running
<1>11. CASE LocalStep
  <2>1. /\ Running("local") /\ UNCHANGED <<github, repo>>
        /\ brief' = brief \/ brief' = Brief(Plan(job.run, repo))
        /\ job' \in JobType' /\ job'.kind = "local" /\ job'.run = job.run
    BY <1>11, LocalStepType
  <2>2. job'.status \in States /\ job'.ci \in CiWords
    BY <2>1 DEF JobType, JobsWith
  <2>3. brief' = None \/ brief'.readiness \in {"merge_conflict", "needs_rebase"}
    BY <2>1, BriefReadiness DEF ReadinessTypeOK
  <2> QED
    BY <1>a, <2>1, <2>2, <2>3 DEF ReadinessTypeOK, LooksInv, CiWords, Free, Over, Running
<1>12. CASE Repair
  <2>1. PICK run \in Artifacts, sender \in BOOLEAN :
          /\ repo' \in RepoStates(ChangedFiles(run)) /\ brief' = Brief(Plan(run, repo'))
          /\ job' = [NewJob("repair", "over", run) EXCEPT
                       !.sent = sender /\ Plan(run, repo').auto]
          /\ UNCHANGED github
    BY <1>12 DEF Repair
  <2>2. job' \in JobType' /\ job'.kind = "repair" /\ job'.run = run
    <3>1. NewJob("repair", "over", run) \in JobsWith({})
      BY NewJobType DEF Kinds, Places
    <3>2. (sender /\ Plan(run, repo').auto) \in BOOLEAN
      OBVIOUS
    <3>3. job' \in JobsWith({}) /\ job'.signals = {}
      BY <2>1, <3>1, <3>2 DEF JobsWith
    <3> QED
      BY <2>1, <3>1, <3>3 DEF JobType, NewJob
  <2>3. job'.status \in States /\ job'.ci \in CiWords
    BY <2>2 DEF JobType, JobsWith
  <2>4. brief' = None \/ brief'.readiness \in {"merge_conflict", "needs_rebase"}
    BY <2>1, BriefReadiness DEF ReadinessTypeOK
  <2> QED
    BY <2>1, <2>2, <2>3, <2>4, <1>a DEF ReadinessTypeOK, LooksInv, CiWords, Free, Over, Running
<1>13. CASE RepoMoves
  <2>1. Running("local") /\ UNCHANGED <<job, github, brief>>
    BY <1>13 DEF RepoMoves
  <2>2. repo \in RepoStates(ChangedFiles(job.run))
    <3>1. NoRepo \in RepoStates(ChangedFiles(job.run))
      BY DEF RepoStates, NoRepo
    <3> QED
      BY <3>1 DEF ReadinessTypeOK
  <2>3. repo' \in RepoStates(ChangedFiles(job.run))
    <3>1. CASE repo' = [repo EXCEPT !.contains = FALSE]
      BY <2>2, <3>1 DEF RepoStates
    <3>2. CASE \E m \in SUBSET ChangedFiles(job.run) :
                 repo.resolves /\ repo' = [repo EXCEPT !.contains = m = {}, !.markers = m]
      BY <2>2, <3>2 DEF RepoStates
    <3>3. CASE \/ repo' = [repo EXCEPT !.named = ~@]
               \/ repo' = [repo EXCEPT !.tidy = ~@]
               \/ repo' = [repo EXCEPT !.differs = ~@]
      BY <2>2, <3>3 DEF RepoStates
    <3> QED
      BY <1>13, <3>1, <3>2, <3>3 DEF RepoMoves
  <2>4. job' \in JobType'
    BY <1>a, <2>1 DEF JobType
  <2> QED
    BY <1>a, <2>1, <2>3, <2>4 DEF ReadinessTypeOK, LooksInv, Free, Over, Running
<1>14. CASE UNCHANGED vars
  BY <1>14, <1>a DEF vars, JobType, ReadinessTypeOK, LooksInv, Free, Over, Running
<1>16. CASE LocalTimesOut
  BY <1>5, <1>16 DEF LocalTimesOut
<1>17. CASE PrTimesOut
  BY <1>5, <1>17 DEF PrTimesOut
<1>18. ASSUME NEW i \in DOMAIN Sources, LoadTimesOut(i) PROVE TypeInv'
  BY <1>5, <1>18 DEF LoadTimesOut, Arriving
<1> QED
  BY <1>1, <1>2, <1>3, <1>4, <1>6, <1>7, <1>8, <1>9, <1>10, <1>12, <1>11, <1>13, <1>14, <1>16,
     <1>17, <1>18 DEF Next, LocalStep

-----------------------------------------------------------------------------
(* The theorems *)

\* The variables have their values, and the status is one the contract of a
\* report accepts (ReadinessTypeOK), whatever is looked at moves meanwhile.
THEOREM ReadinessTypeCorrect == Spec => []ReadinessTypeOK
<1>1. Spec => []TypeInv
  BY TypeInit, TypeStep, PTL DEF Spec
<1>2. TypeInv => ReadinessTypeOK
  BY DEF TypeInv
<1> QED
  BY <1>1, <1>2, PTL

-----------------------------------------------------------------------------
(* Signals *)

\* There is no fan-out yet.
LEMMA MergeInit == Init => MergeInv
  BY DEF Init, MergeInv, NewJob, Done

\* Only Collect ends a fan-out with a result.
LEMMA MergeStep == TypeInv /\ MergeInv /\ [Next]_vars => MergeInv'
<1> SUFFICES ASSUME TypeInv, MergeInv, [Next]_vars, Done("signals")'
             PROVE  job'.signals = Merged(Sorted(job'.loaded))
  BY DEF MergeInv
<1> USE DEF Done, Over, Free, Running
<1>a. job \in JobsWith(job.signals)
  BY DEF TypeInv, JobType
<1>1. CASE Collect
  BY <1>1, <1>a DEF Collect, JobsWith
<1>2. CASE Raise
  BY <1>2, <1>a DEF Raise, JobsWith
<1>3. ASSUME NEW i \in DOMAIN Sources, Load(i) PROVE FALSE
  BY <1>3, <1>a DEF Load, Arriving, JobsWith
<1>4. CASE LocalStep
  BY <1>4, LocalStepType
<1>5. CASE Return \/ StartSignals \/ StartPr \/ StartLocal \/ Repair
  <2>1. CASE Return \/ StartSignals
    BY <2>1 DEF Return, StartSignals, NewJob
  <2>2. CASE StartPr
    BY <2>2 DEF StartPr, NewJob
  <2>3. CASE StartLocal
    BY <2>3 DEF StartLocal, NewJob
  <2>4. CASE Repair
    BY <2>4 DEF Repair, NewJob
  <2> QED
    BY <1>5, <2>1, <2>2, <2>3, <2>4
<1>6. CASE ReadChecks \/ ReadView
  BY <1>6, <1>a DEF ReadChecks, ReadView, JobsWith
<1>7. CASE PrMoves \/ RepoMoves \/ UNCHANGED vars
  BY <1>7 DEF PrMoves, RepoMoves, vars, MergeInv
<1> QED
  BY <1>1, <1>2, <1>3, <1>4, <1>5, <1>6, <1>7
     DEF Next, LocalStep, LoadTimesOut, PrTimesOut, LocalTimesOut

\* Every report of a fan-out is the merge of what was loaded.
LEMMA MergeInvariance == Spec => [](TypeInv /\ MergeInv)
  BY TypeInit, TypeStep, MergeInit, MergeStep, PTL DEF Spec

\* What has been sorted is what has been loaded.
LEMMA SortedType ==
  ASSUME NEW loaded \in Seq(LoadType)
  PROVE  Sorted(loaded) \in Seq(LoadType) /\ DOMAIN Sorted(loaded) = DOMAIN loaded
<1>1. PICK p \in [DOMAIN loaded -> DOMAIN loaded] :
        Sorted(loaded) = [k \in DOMAIN loaded |-> loaded[p[k]]]
  BY SortedLoads
<1>2. DOMAIN loaded = 1 .. Len(loaded) /\ Len(loaded) \in Nat
  OBVIOUS
<1>3. \A k \in DOMAIN loaded : loaded[p[k]] \in LoadType
  OBVIOUS
<1>4. Sorted(loaded) \in [1 .. Len(loaded) -> LoadType]
  BY <1>1, <1>2, <1>3
<1> QED
  BY <1>1, <1>2, <1>4

\* Of equal signals the report holds the one of the source that is first by
\* name (FirstSourceWins), in whatever order the adapters finish.
THEOREM FirstOfSources == Spec => []FirstSourceWins
<1>1. TypeInv /\ MergeInv => FirstSourceWins
  <2> SUFFICES ASSUME TypeInv, MergeInv, Done("signals"),
                      NEW m \in job.signals, NEW l \in ToSet(job.loaded),
                      NEW s \in Normalize(l.raw, l.source.name), Key(s) = Key(m.signal),
                      Before(l, [source |-> m.from]), l.source # m.from
               PROVE  FALSE
    BY DEF FirstSourceWins
  <2> DEFINE loaded == job.loaded
             loads == Sorted(loaded)
  <2>1. loaded \in Seq(LoadType)
    BY DEF TypeInv, JobType, JobsWith
  <2>2. loads \in Seq(LoadType) /\ DOMAIN loads = DOMAIN loaded
    BY <2>1, SortedType
  <2>3. PICK p \in [DOMAIN loaded -> DOMAIN loaded] :
          /\ \A i \in DOMAIN loaded : \E k \in DOMAIN loaded : p[k] = i
          /\ \A i, j \in DOMAIN loaded : i < j => Prior(loaded, p[i], p[j])
          /\ loads = [k \in DOMAIN loaded |-> loaded[p[k]]]
    BY <2>1, SortedLoads
  <2>4. m \in Merged(loads)
    BY DEF MergeInv
  <2> HIDE DEF loads
  <2>5. PICK a \in DOMAIN loads : \E t \in Normalize(loads[a].raw, loads[a].source.name) :
          /\ m = [signal |-> t, from |-> loads[a].source]
          /\ \A j \in 1 .. a - 1 :
               \A u \in Normalize(loads[j].raw, loads[j].source.name) : Key(u) # Key(t)
    <3>1. loads \in Seq(LoadType)
      BY <2>2
    <3> QED
      BY <2>4, <3>1, MergedHas
  <2>6. PICK b \in DOMAIN loads : l = loads[b]
    <3>1. PICK i \in DOMAIN loaded : l = loaded[i]
      BY DEF ToSet
    <3> QED
      BY <2>2, <2>3, <3>1
  <2>7. m.from = loads[a].source /\ ~(b \in 1 .. a - 1)
    BY <2>5, <2>6
  <2>8. a \in Nat /\ b \in Nat /\ 1 <= b /\ a # b
    <3>1. DOMAIN loads = 1 .. Len(loaded) /\ Len(loaded) \in Nat
      BY <2>1, <2>2
    <3>2. a # b
      BY <2>6, <2>7
    <3> QED
      BY <3>1, <3>2
  <2>9. a < b
    BY <2>7, <2>8
  <2>10. ~Before(loads[b], loads[a])
    <3>1. Prior(loaded, p[a], p[b]) /\ loads[a] = loaded[p[a]] /\ loads[b] = loaded[p[b]]
      BY <2>2, <2>3, <2>9
    <3>2. p[a] \in DOMAIN loaded /\ p[b] \in DOMAIN loaded
      BY <2>2, <2>3
    <3>3. ~Prior(loaded, p[b], p[a])
      BY <2>1, <3>1, <3>2, PriorOrders
    <3> QED
      BY <3>1, <3>3 DEF Prior
  <2>11. Before(l, [source |-> m.from]) <=> Before(loads[b], loads[a])
    BY <2>6, <2>7 DEF Before
  <2> QED
    BY <2>10, <2>11
<1> QED
  BY <1>1, MergeInvariance, PTL

\* What one source blocks is among the blocked signals of the report
\* (NoVerdictLost), also when another source speaks of the same finding.
THEOREM NothingLost == Spec => []NoVerdictLost
<1>1. TypeInv /\ MergeInv => NoVerdictLost
  <2> SUFFICES ASSUME TypeInv, MergeInv, Done("signals"),
                      NEW l \in ToSet(job.loaded), NEW s \in Normalize(l.raw, l.source.name)
               PROVE  \E m \in Aggregated(job.signals)[s.verdict] :
                        m.signal.id = s.id /\ m.signal.summary = s.summary
    BY DEF NoVerdictLost
  <2> DEFINE loaded == job.loaded
             loads == Sorted(loaded)
  <2>1. loaded \in Seq(LoadType)
    BY DEF TypeInv, JobType, JobsWith
  <2>2. loads \in Seq(LoadType) /\ DOMAIN loads = DOMAIN loaded
    BY <2>1, SortedType
  <2>3. PICK b \in DOMAIN loads : l = loads[b]
    <3>1. PICK i \in DOMAIN loaded : l = loaded[i]
      BY DEF ToSet
    <3>2. PICK p \in [DOMAIN loaded -> DOMAIN loaded] :
            /\ \A j \in DOMAIN loaded : \E k \in DOMAIN loaded : p[k] = j
            /\ loads = [k \in DOMAIN loaded |-> loaded[p[k]]]
      BY <2>1, SortedLoads
    <3> QED
      BY <2>2, <3>1, <3>2
  <2> HIDE DEF loads
  <2>4. PICK m \in Merged(loads) : Key(m.signal) = Key(s)
    BY <2>2, <2>3, FirstWithKey
  <2>5. m \in job.signals
    BY <2>4 DEF MergeInv, loads
  <2>6. m.signal.id = s.id /\ m.signal.summary = s.summary /\ m.signal.verdict = s.verdict
    BY <2>4 DEF Key
  <2>7. s.verdict \in Verdicts
    BY NormalVerdict
  <2>8. Aggregated(job.signals)[s.verdict] =
          {k \in job.signals : k.signal.verdict = s.verdict}
    BY <2>7 DEF Aggregated
  <2> QED
    BY <2>5, <2>6, <2>8
<1> QED
  BY <1>1, MergeInvariance, PTL

-----------------------------------------------------------------------------
(* The pull request *)

\* A report that calls a pull request ready goes back to checks that had passed.
ChecksInv == job.kind = "pr" /\ job.status = "ready" => job.ci = "passed"

\* What a report of the second read says of the pull request at that moment.
ReadyNow ==
  /\ job.ci = "passed" /\ ~github.draft /\ ~Pending(github)
  /\ github.open \/ "state" \in github.leftOut
  /\ \/ ~github.conflicts /\ ~Unsettled(github)
     \/ "merge state" \in github.leftOut

\* The second read calls a pull request ready only when it is, and when the first
\* read did.
LEMMA ViewIsReady ==
  ASSUME NEW answered, NEW state \in MergeStates(github), NEW status \in States,
         AfterView(status, ClassifyView(answered, github, state)) = "ready"
  PROVE  /\ status = "ready" /\ ~github.draft /\ ~Pending(github)
         /\ github.open \/ "state" \in github.leftOut
         /\ \/ ~github.conflicts /\ ~Unsettled(github)
            \/ "merge state" \in github.leftOut
<1>1. ClassifyView(answered, github, state) = "ready" /\ status = "ready"
  BY DEF AfterView, ClassifyView
<1>2. ~Closed(github) /\ ~github.draft /\ state \in {"CLEAN", "MERGEABLE", ""} /\ ~Pending(github)
  BY <1>1 DEF ClassifyView
<1>3. "merge state" \notin github.leftOut => ~github.conflicts /\ ~Unsettled(github)
  BY <1>2 DEF MergeStates
<1> QED
  BY <1>1, <1>2, <1>3 DEF Closed

\* No step makes a report ready that did not see the checks pass.
LEMMA ChecksInit == Init => ChecksInv
  BY DEF Init, ChecksInv, NewJob
LEMMA ChecksStep == TypeInv /\ ChecksInv /\ [Next]_vars => ChecksInv'
<1> SUFFICES ASSUME TypeInv, ChecksInv, [Next]_vars PROVE ChecksInv'
  OBVIOUS
<1> USE DEF Over, Free, Running, ChecksInv
<1>a. job \in JobsWith(job.signals) /\ job.status \in States
  BY DEF TypeInv, JobType, JobsWith
<1>1. CASE ReadView
  <2>1. PICK answered \in BOOLEAN, state \in MergeStates(github) :
          LET status == AfterView(job.status, ClassifyView(answered, github, state))
          IN  job'.status = IF NeedsScreenshot(job.run) /\ status \in {"ready", "draft_ready"}
                            THEN "blocked" ELSE status
    BY <1>1, <1>a DEF ReadView, JobsWith
  <2>2. job'.status = "ready" => job.status = "ready"
    BY <1>a, <2>1, ViewIsReady
  <2>3. job'.ci = job.ci /\ job.kind = "pr"
    BY <1>1, <1>a DEF ReadView, JobsWith
  <2> QED
    BY <2>2, <2>3
<1>2. CASE Raise
  BY <1>2, <1>a DEF Raise, JobsWith
<1>3. CASE ReadChecks
  <2>1. PICK ci : /\ job'.ci = ci
                  /\ job'.status = IF ci = "passed" THEN "ready"
                                   ELSE IF ci = "pending" THEN "not_ready" ELSE "blocked"
    BY <1>3, <1>a DEF ReadChecks, JobsWith
  <2> QED
    BY <2>1
<1>4. CASE LocalStep
  BY <1>4, LocalStepType
<1>5. CASE PrMoves \/ RepoMoves \/ UNCHANGED vars
  BY <1>5 DEF PrMoves, RepoMoves, vars
<1>6. ASSUME NEW i \in DOMAIN Sources, Load(i) PROVE ChecksInv'
  BY <1>6, <1>a DEF Load, Arriving, JobsWith
<1>7. CASE Return \/ StartSignals \/ StartPr \/ StartLocal \/ Repair
  <2>1. CASE StartPr
    <3>1. PICK run \in Artifacts :
            \/ job' = NewJob("pr", "checks", run)
            \/ job' = [NewJob("pr", "over", run) EXCEPT !.issues = {"reference"}]
      BY <2>1 DEF StartPr
    <3>2. job'.status = "not_ready"
      BY <3>1 DEF NewJob
    <3> QED
      BY <3>2
  <2>2. CASE Return \/ StartSignals \/ StartLocal \/ Repair
    <3>1. CASE Return \/ StartSignals
      BY <3>1 DEF Return, StartSignals, NewJob
    <3>2. CASE StartLocal
      <4>1. PICK run \in Artifacts :
              job' = [NewJob("local", "branch", run) EXCEPT !.status = "ready"]
        BY <3>2 DEF StartLocal
      <4>2. job'.kind = "local"
        BY <4>1 DEF NewJob
      <4> QED
        BY <4>2
    <3>3. CASE Repair
      <4>1. PICK run \in Artifacts, sender \in BOOLEAN :
              \E r \in RepoStates(ChangedFiles(run)) :
                job' = [NewJob("repair", "over", run) EXCEPT
                          !.sent = sender /\ Plan(run, r).auto]
        BY <3>3 DEF Repair
      <4>2. job'.kind = "repair"
        BY <4>1 DEF NewJob
      <4> QED
        BY <4>2
    <3> QED
      BY <2>2, <3>1, <3>2, <3>3
  <2> QED
    BY <1>7, <2>1, <2>2
<1>8. CASE Collect
  BY <1>8, <1>a DEF Collect, JobsWith
<1> QED
  BY <1>1, <1>2, <1>3, <1>4, <1>5, <1>6, <1>7, <1>8
     DEF Next, LocalStep, LoadTimesOut, PrTimesOut, LocalTimesOut

\* Only ReadView reports a pull request ready, and what it read was of one
\* moment: the checks that the first read saw pass have still passed.
LEMMA ReadyStep ==
  ASSUME TypeInv, ChecksInv, [Next]_vars, Running("pr"), Done("pr")', job'.status = "ready"
  PROVE  ReadyNow
<1> USE DEF Done, Over, Free, Running
<1>a. job \in JobsWith(job.signals) /\ job.status \in States
  BY DEF TypeInv, JobType, JobsWith
<1>1. CASE ReadView
  <2>1. PICK answered \in BOOLEAN, state \in MergeStates(github) :
          LET status == AfterView(job.status, ClassifyView(answered, github, state))
          IN  job'.status = IF NeedsScreenshot(job.run) /\ status \in {"ready", "draft_ready"}
                            THEN "blocked" ELSE status
    BY <1>1, <1>a DEF ReadView, JobsWith
  <2>2. AfterView(job.status, ClassifyView(answered, github, state)) = "ready"
    BY <2>1
  <2> QED
    <3>1. /\ job.status = "ready" /\ ~github.draft /\ ~Pending(github)
          /\ github.open \/ "state" \in github.leftOut
          /\ \/ ~github.conflicts /\ ~Unsettled(github)
             \/ "merge state" \in github.leftOut
      BY <1>a, <2>2, ViewIsReady
    <3>2. job.ci = "passed"
      BY <3>1 DEF ChecksInv
    <3> QED
      BY <3>1, <3>2 DEF ReadyNow
<1>2. CASE Raise
  BY <1>2, <1>a DEF Raise, JobsWith
<1>3. CASE ReadChecks
  BY <1>3, <1>a DEF ReadChecks, JobsWith
<1>4. CASE LocalStep
  BY <1>4, LocalStepType
<1>5. CASE PrMoves \/ RepoMoves \/ UNCHANGED vars
  BY <1>5 DEF PrMoves, RepoMoves, vars
<1>6. ASSUME NEW i \in DOMAIN Sources, Load(i) PROVE FALSE
  BY <1>6 DEF Load, Arriving
<1>7. CASE Return \/ StartSignals \/ StartPr \/ StartLocal \/ Repair \/ Collect
  BY <1>7 DEF Return, StartSignals, StartPr, StartLocal, Repair, Collect
<1> QED
  BY <1>1, <1>2, <1>3, <1>4, <1>5, <1>6, <1>7
     DEF Next, LocalStep, LoadTimesOut, PrTimesOut, LocalTimesOut

\* A pull request reported ready was ready at one moment, as far as the answers
\* of GitHub have its state (ReadyWasReadyAtOnce), however it moves between the
\* two reads.
THEOREM ReadyAtOnce == Spec => ReadyWasReadyAtOnce
<1>1. Spec => []TypeInv
  BY TypeInit, TypeStep, PTL DEF Spec
<1>2. TypeInv /\ ChecksInv /\ [Next]_vars =>
        [Running("pr") /\ Done("pr")' /\ job'.status = "ready" =>
           ReadyNow]_vars
  BY ReadyStep
<1>3. Spec => []ChecksInv
  BY <1>1, ChecksInit, ChecksStep, PTL DEF Spec
<1> QED
  BY <1>1, <1>2, <1>3, PTL DEF Spec, ReadyWasReadyAtOnce, ReadyNow

-----------------------------------------------------------------------------
(* The checkout *)

\* There is no job on the checkout yet.
LEMMA LocalInit == Init => LocalInv
  BY DEF Init, LocalInv, NewJob

\* The last reads report ready exactly when nothing was found, and blocked when
\* something that blocks was and the base is known.
LEMMA JudgeStep ==
  ASSUME TypeInv, LocalInv, Judge, ~job.raised
  PROVE  FindingsStand'
<1>a. job \in JobsWith(job.signals)
  BY DEF TypeInv, JobType
<1>b. /\ job.status \in States
      /\ job.status = "ready" <=> job.issues = {}
      /\ job.issues # {} /\ job.run.base => job.status = "blocked"
      /\ ~job.run.base => job.issues # {}
  BY <1>a DEF Judge, Running, LocalInv, JobsWith
<1> DEFINE changed    == ChangedFiles(job.run)
           reviewed   == ReviewedFiles(job.run)
           unreviewed == reviewed # {} /\ ~(changed \subseteq reviewed)
           secret     == changed \cap SecretFiles # {}
           s1 == AfterDiff(job.status, job.run.base, repo)
           s2 == IF (reviewed = {} /\ s1 = "ready") \/ unreviewed \/ secret
                 THEN "blocked" ELSE s1
           s3 == IF s2 = "ready" /\ changed = {} THEN "not_ready" ELSE s2
           added == (IF job.run.base /\ ~repo.resolves THEN {"diff failed"} ELSE {})
                      \cup (IF job.run.base /\ repo.resolves /\ ~repo.differs
                            THEN {"no diff"} ELSE {})
                      \cup (IF reviewed = {} THEN {"no evidence"} ELSE {})
                      \cup (IF unreviewed THEN {"unreviewed"} ELSE {})
                      \cup (IF secret THEN {"secret"} ELSE {})
                      \cup (IF s2 = "ready" /\ changed = {} THEN {"no files"} ELSE {})
<1>1. /\ job'.status = s3 /\ job'.issues = job.issues \cup added
      /\ job'.run = job.run /\ job'.kind = "local" /\ job'.at = "over"
  BY <1>a DEF Judge, Running, JobsWith
<1>2. s3 = "ready" => job.issues = {} /\ added = {}
  BY <1>b DEF AfterDiff
<1>3. job.issues = {} /\ added = {} => s3 = "ready"
  BY <1>b DEF AfterDiff
<1>4. job.issues \cap Blocking # {} /\ job.run.base => s3 = "blocked"
  BY <1>b DEF AfterDiff
<1>5. added \cap Blocking # {} /\ job.run.base => s3 = "blocked"
  BY <1>b DEF AfterDiff, Blocking
<1> HIDE DEF s3, added
<1> QED
  BY <1>1, <1>2, <1>3, <1>4, <1>5 DEF FindingsStand

\* Each check leaves what LocalInv says of it.
LEMMA LocalInvStep == TypeInv /\ LocalInv /\ [Next]_vars => LocalInv'
<1> SUFFICES ASSUME TypeInv, LocalInv, [Next]_vars, job'.kind = "local", ~job'.raised
             PROVE  LocalInv'
  BY DEF LocalInv
<1> USE DEF Over, Free, Running
<1>a. job \in JobsWith(job.signals)
  BY DEF TypeInv, JobType
<1>1. CASE CheckBranch
  BY <1>1, <1>a DEF CheckBranch, LocalInv, Found, JobsWith
<1>2. CASE CheckDiff
  BY <1>2, <1>a DEF CheckDiff, LocalInv, Found, JobsWith
<1>3. CASE CheckBase
  <2>1. CASE ~job.run.base
    BY <1>3, <1>a, <2>1 DEF CheckBase, LocalInv, Found, JobsWith
  <2>2. CASE job.run.base
    BY <1>3, <1>a, <2>2 DEF CheckBase, LocalInv, JobsWith
  <2> QED
    BY <2>1, <2>2
<1>4. CASE PlanRepair
  BY <1>4, <1>a DEF PlanRepair, LocalInv, JobsWith
<1>5. CASE Judge
  <2>1. job'.at = "over" /\ job'.raised = job.raised
    BY <1>5, <1>a DEF Judge, JobsWith
  <2>2. FindingsStand'
    BY <1>5, <2>1, JudgeStep
  <2> QED
    BY <2>1, <2>2 DEF LocalInv
<1>6. CASE Raise
  BY <1>6, <1>a DEF Raise, JobsWith
<1>7. CASE StartLocal
  BY <1>7 DEF StartLocal, LocalInv, NewJob
<1>8. CASE PrMoves \/ RepoMoves \/ UNCHANGED vars
  BY <1>8 DEF PrMoves, RepoMoves, vars, LocalInv, FindingsStand, Done
<1>9. CASE ReadChecks \/ ReadView \/ Collect
  BY <1>9, <1>a DEF ReadChecks, ReadView, Collect, JobsWith
<1>10. ASSUME NEW i \in DOMAIN Sources, Load(i) PROVE FALSE
  BY <1>10, <1>a DEF Load, Arriving, JobsWith
<1>11. CASE Return \/ StartSignals \/ StartPr \/ Repair
  <2>1. CASE Return \/ StartSignals
    BY <2>1 DEF Return, StartSignals, NewJob
  <2>2. CASE StartPr
    BY <2>2 DEF StartPr, NewJob
  <2>3. CASE Repair
    BY <2>3 DEF Repair, NewJob
  <2> QED
    BY <1>11, <2>1, <2>2, <2>3
<1> QED
  BY <1>1, <1>2, <1>3, <1>4, <1>5, <1>6, <1>7, <1>8, <1>9, <1>10, <1>11
     DEF Next, LoadTimesOut, PrTimesOut, LocalTimesOut

\* What one check of the checkout finds no later one takes back
\* (FindingsStand), however the checkout moves between them.
THEOREM NoFindingTakenBack == Spec => []FindingsStand
<1>1. Spec => [](TypeInv /\ LocalInv)
  BY TypeInit, TypeStep, LocalInit, LocalInvStep, PTL DEF Spec
<1>2. TypeInv /\ LocalInv => FindingsStand
  BY DEF LocalInv, FindingsStand, Done, Over
<1> QED
  BY <1>1, <1>2, PTL
=============================================================================
