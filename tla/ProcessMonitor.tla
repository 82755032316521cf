--------------------------- MODULE ProcessMonitor ---------------------------
(***************************************************************************)
(* One agent process under the monitor of src/hoca/monitor.py. The monitor *)
(* is two threads: the main thread reads the agent's output line by line   *)
(* and stops at the first line the policy forbids; the watchdog looks at   *)
(* the clock. monitor_process watches a child process it can kill,         *)
(* monitor_process_stream the output of an agent in a container, which only*)
(* the watchdog's callback stops. A line of output is what the policy tells*)
(* apart: where it comes from and the traits its text has.                 *)
(***************************************************************************)
EXTENDS Naturals, Sequences, SequencesExt

CONSTANTS
  Variants,   \* subset of {"process", "stream"}
  Lines,      \* the lines an agent may print
  Roles,      \* roles the agent may have
  Engines,    \* runners of a worker attempt: subset of {"direct", "cli"}
  NoLine

Sources == {"passive", "silent", "command", "plain"}
Traits == {"rm -rf", "safe target", "destructive", "git add -A", "temp repo",
           "looks like command", "lifecycle", "validation", "secret", "outside", "noise"}

ASSUME MonitorAssumption ==
  /\ Variants \subseteq {"process", "stream"} /\ Engines \subseteq {"direct", "cli"}
  /\ Lines \subseteq [source : Sources, traits : SUBSET Traits]
  /\ NoLine \notin Lines

VARIABLES
  variant,    \* which of the two monitors
  role,       \* actor_role
  engine,     \* worker_direct.py or cli_worker_adapters.py started the agent
  tested,     \* the run directory has a passing test summary
  agent,      \* "alive", "exited" (by itself) or "killed"
  code,       \* "zero" or "nonzero", the exit code of the agent
  pipe,       \* the reader's end of the agent's output: "open" or "closed"
  late,       \* more than timeout_seconds since the start
  idle,       \* more than stall_seconds since the last progress
  main,       \* where the main thread is
  line,       \* the line it holds
  reason,     \* stop_reason
  watchdog,   \* where the watchdog is
  flag,       \* watchdog_reason, "none" when the list is empty
  stop,       \* watchdog_stop, _cancel
  result,     \* what the caller gets: exit code and stop reason
  attempt,    \* the status the caller gives the attempt of a worker
  changed,    \* git status showed the caller changes in the project
  lastSeen,   \* the agent when the reader saw its output end (history)
  broke       \* the first policy a judged line broke (history)

fixed == <<variant, role, engine, tested>>
world == <<agent, code, pipe, late>>
reader == <<main, line, reason>>
watcher == <<watchdog, flag>>
outcome == <<result, attempt, changed>>
history == <<lastSeen, broke>>
vars == <<fixed, world, idle, reader, watcher, stop, outcome, history>>

-----------------------------------------------------------------------------
(* The policy *)

\* Lines of passive text (thoughts, messages, observations, file contents) are
\* not scanned; of a structured event only its command is.
Scanned(l) == l.source # "passive"
HasCommandText(l) == l.source \in {"command", "plain"}

\* rm -rf is allowed for build artifacts, git add -A in a throw-away repository.
Destructive(l) ==
  \/ {"rm -rf", "safe target"} \cap l.traits = {"rm -rf"}
  \/ "destructive" \in l.traits
  \/ {"git add -A", "temp repo"} \cap l.traits = {"git add -A"}

\* Prose that only mentions a command is not taken for one.
Dangerous(l) ==
  /\ HasCommandText(l)
  /\ l.source = "plain" => "looks like command" \in l.traits
  /\ Destructive(l)

ManagerOnly(l) ==
  HasCommandText(l) /\ "lifecycle" \in l.traits /\ role \in {"worker", "reviewer", "openhands"}

Redundant(l) ==
  HasCommandText(l) /\ "validation" \in l.traits /\ role = "reviewer" /\ tested

SecretAccess(l) == "secret" \in l.traits
Unrelated(l) == "outside" \in l.traits

Forbidden(l) ==
  {r \in {"dangerous_command", "manager_only_git_lifecycle", "reviewer_redundant_validation",
          "secret_access", "unrelated_directory"} :
     /\ Scanned(l)
     /\ CASE r = "dangerous_command" -> Dangerous(l)
          [] r = "manager_only_git_lifecycle" -> ManagerOnly(l)
          [] r = "reviewer_redundant_validation" -> Redundant(l)
          [] r = "secret_access" -> SecretAccess(l)
          [] OTHER -> Unrelated(l)}

\* The checks run in this order and the first that fires names the reason.
PolicyOrder == <<"dangerous_command", "manager_only_git_lifecycle",
                 "reviewer_redundant_validation", "secret_access", "unrelated_directory">>
Breaks(l) == Forbidden(l) # {}
Verdict(l) ==
  PolicyOrder[CHOOSE i \in DOMAIN PolicyOrder :
                /\ PolicyOrder[i] \in Forbidden(l)
                /\ \A j \in DOMAIN PolicyOrder : PolicyOrder[j] \in Forbidden(l) => i <= j]

Progress(l) == "noise" \notin l.traits

PolicyReasons == ToSet(PolicyOrder)
ClockReasons == {"timeout", "stall"}
StopReasons == PolicyReasons \cup ClockReasons \cup {"monitor_error"}

-----------------------------------------------------------------------------
Init ==
  /\ variant \in Variants /\ role \in Roles /\ engine \in Engines /\ tested \in BOOLEAN
  /\ engine = "cli" => (variant = "process" /\ role = "worker")
  /\ agent = "alive" /\ code = "zero" /\ pipe = "open"
  /\ late = FALSE /\ idle = FALSE
  /\ main = "reading" /\ line = NoLine /\ reason = "completed"
  /\ watchdog = "watching" /\ flag = "none" /\ stop = FALSE
  /\ result = [exit |-> "none", reason |-> "none"] /\ attempt = "none" /\ changed = FALSE
  /\ lastSeen = "none" /\ broke = "none"

(* The agent and the clock *)

AgentExits ==
  /\ agent = "alive"
  /\ agent' = "exited" /\ code' \in {"zero", "nonzero"}
  /\ UNCHANGED <<fixed, pipe, late, idle, reader, watcher, stop, outcome, history>>

\* The output ends when nobody holds it open any more: the agent may close it
\* and go on, and a child of the agent may keep it open after the agent's end.
PipeCloses ==
  /\ pipe = "open" /\ pipe' = "closed"
  /\ UNCHANGED <<fixed, agent, code, late, idle, reader, watcher, stop, outcome, history>>

TimeIsUp ==
  /\ ~late /\ late' = TRUE
  /\ UNCHANGED <<fixed, agent, code, pipe, idle, reader, watcher, stop, outcome, history>>

GoesQuiet ==
  /\ ~idle /\ idle' = TRUE
  /\ UNCHANGED <<fixed, world, reader, watcher, stop, outcome, history>>

\* SIGINT, which the agent may answer with any exit code, then SIGKILL; for a
\* container docker stop.
KillAgent ==
  IF agent = "alive" THEN agent' = "killed" /\ code' \in {"zero", "nonzero"}
                     ELSE UNCHANGED <<agent, code>>

(* The main thread *)

Leave(r) == main' = "left" /\ line' = NoLine /\ reason' = r
ReadOn == main' = "reading" /\ line' = NoLine /\ UNCHANGED reason

\* A line arrives; before it is judged the main thread looks for a stop of the
\* watchdog.
Stopped == IF variant = "process" THEN flag # "none" ELSE stop

TakeLine ==
  /\ main = "reading" /\ pipe = "open"
  /\ \/ Stopped /\ Leave("completed")
     \/ ~Stopped /\ main' = "judging" /\ line' \in Lines /\ UNCHANGED reason
  /\ UNCHANGED <<fixed, world, idle, watcher, stop, outcome, history>>

\* Decoding the line or writing it to the log raises.
LineFails ==
  /\ main \in {"reading", "judging"} /\ (main = "reading" => pipe = "open")
  /\ Leave("monitor_error")
  /\ UNCHANGED <<fixed, world, idle, watcher, stop, outcome, history>>

\* The clock is looked at first, then the policy, then the progress.
JudgeLine ==
  /\ main = "judging"
  /\ \/ late /\ Leave("timeout") /\ UNCHANGED <<idle, broke>>
     \/ ~late /\ Breaks(line) /\ Leave(Verdict(line))
          /\ broke' = Verdict(line) /\ UNCHANGED idle
     \/ ~late /\ ~Breaks(line) /\ Progress(line) /\ ReadOn
          /\ idle' = FALSE /\ UNCHANGED broke
     \/ ~late /\ ~Breaks(line) /\ ~Progress(line) /\ UNCHANGED <<idle, broke>>
          /\ IF idle THEN Leave("stall") ELSE ReadOn
  /\ UNCHANGED <<fixed, world, watcher, stop, outcome, lastSeen>>

EndOfOutput ==
  /\ main = "reading" /\ pipe = "closed"
  /\ Leave("completed")
  /\ lastSeen' = agent
  /\ UNCHANGED <<fixed, world, idle, watcher, stop, outcome, broke>>

\* Mutant: the watchdog's reason is taken, also when it has none.
FlagOnly == flag

\* Mutant: a reason of the watchdog replaces the main thread's own.
FlagFirst == IF flag # "none" THEN flag ELSE reason

\* The reason of the watchdog counts when the main thread has none of its own.
Settled == IF reason = "completed" /\ flag # "none" THEN flag ELSE reason

\* Mutant: the watchdog is told to stop before the agent is waited for.
StopWithReason ==
  /\ variant = "process" /\ main = "left"
  /\ reason' = Settled /\ stop' = TRUE
  /\ main' = IF Settled = "completed" THEN "waiting" ELSE "killing"
  /\ UNCHANGED <<fixed, world, idle, line, watcher, outcome, history>>

\* monitor_process settles the reason first and waits for the agent then.
SettleReason ==
  /\ variant = "process" /\ main = "left"
  /\ reason' = Settled
  /\ main' = IF Settled = "completed" THEN "waiting" ELSE "killing"
  /\ UNCHANGED <<fixed, world, idle, line, watcher, stop, outcome, history>>

KillByMain ==
  /\ main = "killing" /\ main' = "waiting"
  /\ KillAgent
  /\ UNCHANGED <<fixed, pipe, late, idle, line, reason, watcher, stop, outcome, history>>

AgentReaped ==
  /\ main = "waiting" /\ agent # "alive"
  /\ stop' = TRUE /\ main' = "joining"
  /\ UNCHANGED <<fixed, world, idle, line, reason, watcher, outcome, history>>

\* monitor_process_stream stops the watchdog first and settles the reason then.
CancelWatchdog ==
  /\ variant = "stream" /\ main = "left"
  /\ stop' = TRUE /\ main' = "joining"
  /\ UNCHANGED <<fixed, world, idle, line, reason, watcher, outcome, history>>

\* Mutant: nobody waits for the watchdog.
NotJoined == TRUE

\* The join gives up on a watchdog that is busy stopping the container.
Joined == watchdog = "done" \/ (variant = "stream" /\ watchdog = "killing")

FinalReason == IF variant = "stream" THEN Settled ELSE reason
ExitCode ==
  IF variant = "process" THEN code
  ELSE IF FinalReason = "completed" THEN "zero" ELSE "nonzero"

Return ==
  /\ main = "joining" /\ Joined
  /\ reason' = FinalReason
  /\ result' = [exit |-> ExitCode, reason |-> FinalReason]
  /\ main' = "done"
  /\ UNCHANGED <<fixed, world, idle, line, watcher, stop, attempt, changed, history>>

(* The watchdog *)

\* Nothing is left to watch.
Over == stop \/ (variant = "process" /\ agent # "alive")

\* Mutant: only the stall is watched, the timeout is left to the reader.
StallOnly ==
  /\ watchdog = "watching"
  /\ \/ Over /\ watchdog' = "done"
     \/ ~Over /\ idle /\ watchdog' = "stall"
  /\ UNCHANGED <<fixed, world, idle, reader, flag, stop, outcome, history>>

\* It wakes up at intervals; the decision and the record of it are two steps.
WatchdogWakes ==
  /\ watchdog = "watching"
  /\ \/ Over /\ watchdog' = "done"
     \/ ~Over /\ late /\ watchdog' = "timeout"
     \/ ~Over /\ ~late /\ idle /\ watchdog' = "stall"
  /\ UNCHANGED <<fixed, world, idle, reader, flag, stop, outcome, history>>

WatchdogFlags ==
  /\ watchdog \in ClockReasons
  /\ flag' = watchdog /\ watchdog' = "killing"
  /\ UNCHANGED <<fixed, world, idle, reader, stop, outcome, history>>

\* In the stream variant the callback stops the container and the event that
\* stops the reader is set last.
WatchdogKills ==
  /\ watchdog = "killing" /\ watchdog' = "done"
  /\ KillAgent
  /\ stop' = (stop \/ variant = "stream")
  /\ UNCHANGED <<fixed, pipe, late, idle, reader, flag, outcome, history>>

(* The caller: the runner of a worker attempt *)

\* The script or adapter around the monitor turns a stop into a failure
\* whatever the exit code. The shell fails a pipeline when either side failed,
\* and waits for both: the agent's side ends with the agent or, broken, at the
\* next line it prints while the agent in the container goes on. A conversation
\* error in the output of OpenHands fails the script as well.
CallerExit(errorEvent) ==
  IF \/ result.reason # "completed" \/ "nonzero" \in {result.exit, code}
     \/ engine = "direct" /\ errorEvent
  THEN "nonzero" ELSE "zero"

\* worker_direct.py takes an agent that stalled but left changes for finished.
CompletedDespiteStall(errorEvent) ==
  /\ engine = "direct" /\ CallerExit(errorEvent) = "nonzero"
  /\ result.reason = "stall" /\ changed'

AttemptStatus(errorEvent) ==
  IF CompletedDespiteStall(errorEvent) THEN "completed"
  ELSE IF result.reason # "completed" THEN "blocked"
  ELSE IF CallerExit(errorEvent) = "zero" THEN "completed" ELSE "failed"

\* What git status shows, and whether OpenHands printed an error event, is the
\* agent's doing.
Report ==
  /\ role = "worker" /\ main = "done" /\ attempt = "none"
  /\ agent # "alive" \/ (variant = "stream" /\ pipe = "open" /\ result.exit = "nonzero")
  /\ changed' \in BOOLEAN
  /\ \E errorEvent \in BOOLEAN : attempt' = AttemptStatus(errorEvent)
  /\ UNCHANGED <<fixed, world, idle, reader, watcher, stop, result, history>>

Environment == AgentExits \/ PipeCloses \/ TimeIsUp \/ GoesQuiet
MainStep ==
  \/ TakeLine \/ LineFails \/ JudgeLine \/ EndOfOutput \/ SettleReason \/ KillByMain
  \/ AgentReaped \/ CancelWatchdog \/ Return
WatchdogStep == WatchdogWakes \/ WatchdogFlags \/ WatchdogKills

Next == Environment \/ MainStep \/ WatchdogStep \/ Report

Spec == Init /\ [][Next]_vars

\* The threads are scheduled and the clock runs; nothing makes the agent print,
\* exit or close its output.
Fairness ==
  /\ WF_vars(TimeIsUp)
  /\ WF_vars(WatchdogStep)
  /\ WF_vars(JudgeLine \/ EndOfOutput \/ SettleReason \/ KillByMain \/ AgentReaped
               \/ CancelWatchdog \/ Return)
FairSpec == Spec /\ Fairness

-----------------------------------------------------------------------------
(* Properties *)

\* The values of the variables.
MonitorTypeOK ==
  /\ variant \in Variants /\ role \in Roles /\ engine \in Engines /\ tested \in BOOLEAN
  /\ agent \in {"alive", "exited", "killed"} /\ code \in {"zero", "nonzero"}
  /\ pipe \in {"open", "closed"} /\ late \in BOOLEAN /\ idle \in BOOLEAN
  /\ main \in {"reading", "judging", "left", "killing", "waiting", "joining", "done"}
  /\ line \in Lines \cup {NoLine} /\ reason \in StopReasons \cup {"completed"}
  /\ watchdog \in {"watching", "timeout", "stall", "killing", "done"}
  /\ flag \in ClockReasons \cup {"none"} /\ stop \in BOOLEAN
  /\ result \in [exit : {"none", "zero", "nonzero"}, reason : StopReasons \cup {"completed", "none"}]
  /\ attempt \in {"none", "completed", "blocked", "failed"} /\ changed \in BOOLEAN
  /\ lastSeen \in {"none", "alive", "exited", "killed"}
  /\ broke \in PolicyReasons \cup {"none"}

\* The agent was left alone to its end and ended well, as far as the reader saw:
\* it may have closed its output and been killed while it still worked.
EndedWell ==
  /\ code = "zero"
  /\ agent = "killed" => (variant = "process" /\ lastSeen = "alive")

\* The watchdog or the reader found the agent silent, and it had left changes.
StalledAfterWork == engine = "direct" /\ result.reason = "stall" /\ changed

\* An attempt counts as completed only when no judged line broke the policy, and
\* when the agent ended well or, for worker_direct.py alone, when it stalled with
\* changes in the project. A policy stop is never taken for such a stall, however
\* reader and watchdog race, and a time limit never for a completed attempt.
CompletedForCause ==
  attempt = "completed" =>
    /\ broke = "none"
    /\ (result.reason = "completed" /\ EndedWell) \/ StalledAfterWork

\* When the monitor of a child process returns, the child is gone and nothing
\* will signal its pid any more.
NobodyLeftToKill ==
  (variant = "process" /\ main = "done") => (agent # "alive" /\ watchdog = "done")

\* Whatever the agent prints, and when it prints nothing: it ends, or - in a
\* container - the monitor has left it.
AgentIsBounded == <>(agent # "alive" \/ (variant = "stream" /\ main = "done"))

\* When the output has ended, the monitor returns.
MonitorReturns == (pipe = "closed") ~> (main = "done")
=============================================================================
