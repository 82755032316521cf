-------------------------- MODULE MCLaneReadiness ---------------------------
EXTENDS LaneReadiness

MCNames == <<"adapter", "adapter-1", "lint", "openhands", "reviewer">>
MCAdapterName == <<"adapter-1", "adapter-2">>

\* The default sources, and an adapter with a command.
MCSources == ReviewSources(TRUE, <<[name |-> None, file |-> FALSE, where |-> 1]>>)

Text(blocks, payload, items, pass, text) ==
  [blocks |-> blocks, payload |-> payload, items |-> items, pass |-> pass, text |-> text]
Payload(verdict, findings, summary) ==
  [source |-> "lint", verdict |-> verdict, findings |-> findings, summary |-> summary]
Finding(id, verdict) == [id |-> id, verdict |-> verdict, summary |-> "leak"]
Block(form, report) == [form |-> form, report |-> report]
Report(verdict, findings) == [role |-> "reviewer", verdict |-> verdict, findings |-> findings]

\* A report after an example of one, two objects that speak of one finding of a
\* common source, a list, and a plain text.
MCOutputs == {
  Text(<<Block("object", Report("lgtm", <<>>)),
         Block("fenced json", Report("blocked", <<[id |-> "f1", summary |-> "leak"]>>)),
         Block("whole text", None)>>, None, None, FALSE, "review"),
  Text(<<>>, Payload("approved", <<Finding("f1", None), None>>, "fine"), None, FALSE, "object"),
  Text(<<>>, Payload("approved", <<Finding("f1", "reject")>>, "fine"), None, FALSE, "object"),
  Text(<<>>, None, <<[object |-> TRUE, payload |-> Payload("ready", <<None>>, "fine")],
                     [object |-> FALSE, text |-> "rename it"]>>, FALSE, "list"),
  Text(<<>>, None, None, TRUE, "does not pass")}

Lists(after, changed, reviewed, reviewedAfter) ==
  [after |-> after, changed |-> changed, reviewed |-> reviewed, reviewedAfter |-> reviewedAfter]
MCLists == {Lists({"page"}, {"schema"}, {"page"}, {}), Lists({}, {"page", "schema"}, {"page"}, {"schema"}),
            Lists({}, {"page", "schema"}, {}, {"page", "schema"}), Lists({}, {}, {"page"}, {}),
            Lists({}, {"key"}, {}, {"key"}), Lists({}, {"schema"}, {}, {})}
MCArtifacts ==
  {[after |-> l.after, changed |-> l.changed, reviewed |-> l.reviewed,
    reviewedAfter |-> l.reviewedAfter, ref |-> w # "no reference", base |-> w # "no base",
    screenshot |-> w # "no base", required |-> TRUE] :
     l \in MCLists, w \in {"no reference", "no base", "all"}}
=============================================================================
