-------------------------- MODULE MCProcessMonitor --------------------------
EXTENDS ProcessMonitor

L(src, ts) == [source |-> src, traits |-> ts]

\* One line per way through the policy: progress, noise, text that is not
\* scanned, prose about a command, an allowed and a forbidden removal, and a
\* line for every other check, two of which break two policies at once.
MCLines ==
  {L("plain", {}), L("plain", {"noise"}), L("passive", {"destructive", "secret"}),
   L("plain", {"destructive"}), L("command", {"rm -rf", "safe target"}),
   L("plain", {"looks like command", "rm -rf", "secret"}), L("command", {"git add -A"}),
   L("command", {"lifecycle", "outside"}), L("command", {"validation"}), L("silent", {"secret"})}
=============================================================================
