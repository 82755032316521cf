---------------------------- MODULE ReviewSignals ----------------------------
(***************************************************************************)
(* What reviewers say and the signals it becomes: the structured reports of*)
(* hoca/review_report_parser.py, and the sources, the normalisation and the*)
(* merge of hoca/review_fanout.py, for one lane and one review round.      *)
(***************************************************************************)
EXTENDS Naturals, Sequences, FiniteSets, SequencesExt

CONSTANTS
  None,
  Names,         \* source names in alphabetical order
  AdapterName    \* name of the k-th adapter that is given without one

\* Where the parser looks for a report, in the order it tries.
Forms == <<"fenced json", "whole text", "fenced json of a message", "message", "object",
           "fenced yaml", "yaml text">>

Verdicts == {"pass", "needs_work", "blocked"}

RankIn(s, x) == CHOOSE i \in DOMAIN s : s[i] = x

-----------------------------------------------------------------------------
(* Structured reports *)

\* A text is a sequence of blocks in some form; one that does not satisfy the
\* contract of a report has none. The first form with a valid one wins, and in
\* a form the first block.
Extracted(blocks) ==
  LET valid == {i \in DOMAIN blocks : blocks[i].report # None}
      Earlier(i, j) ==
        \/ RankIn(Forms, blocks[i].form) < RankIn(Forms, blocks[j].form)
        \/ blocks[i].form = blocks[j].form /\ i <= j
  IN  IF valid = {} THEN None
      ELSE blocks[CHOOSE i \in valid : \A j \in valid : Earlier(i, j)].report

-----------------------------------------------------------------------------
(* Signals *)

AsVerdict(word) ==
  IF word \in {"lgtm", "pass", "approved", "ready"} THEN "pass"
  ELSE IF word \in {"blocked", "reject", "denied", "reject_changes", "changes_requested"}
       THEN "blocked"
  ELSE "needs_work"

\* A finding without an id is known by its position.
SignalId(source, position, finding) ==
  [source |-> source, finding |-> IF finding = None THEN "" ELSE finding,
   position |-> IF finding = None THEN position ELSE 0]

Signal(id, verdict, summary) == [id |-> id, verdict |-> verdict, summary |-> summary]

\* The role of the reviewer stands in for the finding when there is none.
FromReport(report, source) ==
  IF report.findings = <<>>
  THEN {Signal(SignalId(source, 1, report.role), AsVerdict(report.verdict), report.verdict)}
  ELSE {Signal(SignalId(source, i, report.findings[i].id), AsVerdict(report.verdict),
               report.findings[i].summary) : i \in DOMAIN report.findings}

\* An object that is no report may name its own source, and a finding of it
\* have a verdict of its own. Entries that are no objects are left out.
FromPayload(p, default) ==
  LET source == IF p.source = None THEN default ELSE p.source
      found  == {i \in DOMAIN p.findings : p.findings[i] # None}
      Word(f) == IF f.verdict = None THEN AsVerdict(p.verdict) ELSE AsVerdict(f.verdict)
  IN  IF found = {}
      THEN {Signal(SignalId(source, 1, None), AsVerdict(p.verdict), p.summary)}
      ELSE {Signal(SignalId(source, i, p.findings[i].id), Word(p.findings[i]),
                   p.findings[i].summary) : i \in found}

\* A list of objects, and of things that are none: each of these needs work.
FromItems(items, source) ==
  UNION {IF items[i].object THEN FromPayload(items[i].payload, source)
         ELSE {Signal(SignalId(source, i, None), "needs_work", items[i].text)} :
           i \in DOMAIN items}

\* Anything else is a plain text: it passes when the word is in it.
FromText(raw, source) ==
  {Signal(SignalId(source, 1, None), IF raw.pass THEN "pass" ELSE "needs_work", raw.text)}

\* A payload is a JSON value that is no report: an object, a list, or none.
Normalize(raw, source) ==
  IF raw = None \/ raw.text = "" THEN {}
  ELSE IF Extracted(raw.blocks) # None THEN FromReport(Extracted(raw.blocks), source)
  ELSE IF raw.payload # None THEN FromPayload(raw.payload, source)
  ELSE IF raw.items # None THEN FromItems(raw.items, source)
  ELSE FromText(raw, source)

-----------------------------------------------------------------------------
(* Sources *)

\* A source is a file or a command. "where" is the place of its path and its
\* command in their order; a command has no path and comes first.
Source(name, where, command) == [name |-> name, where |-> where, command |-> command]

DefaultSources ==
  <<Source("reviewer", 10, FALSE), Source("openhands", 11, FALSE), Source("adapter", 12, FALSE)>>

\* HOCA_REVIEW_ADAPTERS: names and files or commands; entries without a name
\* are numbered by their place in the list.
ConfiguredSources(specs) ==
  [k \in DOMAIN specs |->
     Source(IF specs[k].name = None THEN AdapterName[k] ELSE specs[k].name,
            IF specs[k].file THEN 10 + specs[k].where ELSE specs[k].where, ~specs[k].file)]

ReviewSources(enabled, specs) ==
  DefaultSources \o (IF enabled THEN ConfiguredSources(specs) ELSE <<>>)

\* Loads in flight at a time.
InFlight(enabled, workers, n) ==
  IF enabled /\ n > 1 THEN (IF workers < 1 THEN 1 ELSE IF workers > n THEN n ELSE workers) ELSE 1

-----------------------------------------------------------------------------
(* The merge *)

Before(a, b) ==
  \/ RankIn(Names, a.source.name) < RankIn(Names, b.source.name)
  \/ a.source.name = b.source.name /\ a.source.where < b.source.where

\* Mutant: what arrives first comes first.
Unsorted(loaded) == loaded

\* A stable sort: of two sources with one name and place the one that arrived
\* first comes first.
Sorted(loaded) ==
  LET Prior(a, b) == \/ Before(loaded[a], loaded[b])
                     \/ ~Before(loaded[b], loaded[a]) /\ a < b
      order == CHOOSE p \in SetToSeqs(DOMAIN loaded) :
                 \A i, j \in DOMAIN loaded : i < j => Prior(p[i], p[j])
  IN  [k \in DOMAIN loaded |-> loaded[order[k]]]

\* Mutant: one signal of an id and a summary.
KeyWithoutVerdict(s) == <<s.id, s.summary>>

Key(s) == <<s.id, s.summary, s.verdict>>

\* Of signals with one key the first is kept, with the details of the source it
\* is from. The list is sorted by its contents at last: it is a set here.
Merged(loaded) ==
  LET Signals(k) == Normalize(loaded[k].raw, loaded[k].source.name)
      Known(k, s) == \E j \in 1 .. k - 1 : \E t \in Signals(j) : Key(t) = Key(s)
  IN  UNION {{[signal |-> s, from |-> loaded[k].source] :
                s \in {t \in Signals(k) : ~Known(k, t)}} : k \in DOMAIN loaded}

Aggregated(signals) == [v \in Verdicts |-> {s \in signals : s.signal.verdict = v}]
=============================================================================
