------------------------ MODULE ProcessMonitorProofs ------------------------
(***************************************************************************)
(* Theorems about ProcessMonitor, for every set of lines and roles and both*)
(* monitors. They hold of Spec, so also of FairSpec.                       *)
(***************************************************************************)
EXTENDS ProcessMonitor, TLAPS

-----------------------------------------------------------------------------
(* The inductive invariant *)

\* The end of the agent: only the watchdog, which has recorded its reason by
\* then, and a main thread with a reason of its own kill it.
EndInv ==
  /\ agent = "killed" =>
       flag # "none" \/ (variant = "process" /\ main \in {"waiting", "joining", "done"})
  /\ watchdog = "killing" => flag # "none"
  /\ main \in {"joining", "done"} /\ variant = "process" => agent # "alive"
  /\ main = "done" /\ variant = "process" => watchdog = "done"
  /\ main \in {"killing", "waiting"} => variant = "process"
  /\ main = "killing" => reason # "completed"

\* What the main thread knows of the agent when it has nothing to object: a stop
\* of the watchdog has made it leave, or it has seen the end of the output.
SeenInv ==
  /\ lastSeen \in {"exited", "killed"} => agent = lastSeen
  /\ stop /\ main \in {"reading", "judging"} => flag # "none"
  /\ main = "left" /\ reason = "completed" => flag # "none" \/ lastSeen # "none"
  /\ main \in {"waiting", "joining", "done"} /\ variant = "process" /\ reason = "completed" =>
       lastSeen \in {"alive", "exited"}

\* The reason of a broken policy stays, and a stop of the watchdog is one.
ReasonInv ==
  /\ main \in {"reading", "judging"} => reason = "completed" /\ broke = "none"
  /\ broke # "none" => reason = broke
  /\ main = "done" => result.reason = reason /\ result.exit # "none"
  /\ main = "done" /\ variant = "stream" /\ reason = "completed" =>
       watchdog = "done" /\ flag = "none"
  /\ attempt # "none" => main = "done"
  /\ attempt = "completed" /\ reason = "completed" => agent # "alive"

IInv == MonitorTypeOK /\ EndInv /\ SeenInv /\ ReasonInv /\ CompletedForCause

-----------------------------------------------------------------------------
(* The policy *)

\* A line that breaks the policy has a reason of the policy, the first of those
\* it gives in the order of the checks.
LEMMA VerdictIsReason ==
  ASSUME NEW l, Breaks(l)
  PROVE  Verdict(l) \in PolicyReasons /\ Verdict(l) \in Forbidden(l)
<1>1. Forbidden(l) \subseteq {PolicyOrder[i] : i \in 1..5}
  BY DEF Forbidden, PolicyOrder
<1>2. DOMAIN PolicyOrder = 1..5
  BY DEF PolicyOrder
<1>3. \E i \in 1..5 :
        /\ PolicyOrder[i] \in Forbidden(l)
        /\ \A j \in 1..5 : PolicyOrder[j] \in Forbidden(l) => i <= j
  <2>1. PICK k \in 1..5 : PolicyOrder[k] \in Forbidden(l)
    BY <1>1 DEF Breaks
  <2>. QED
    BY <2>1
<1>. QED
  BY <1>2, <1>3 DEF Verdict, PolicyReasons, ToSet

\* None of the reasons of the policy or the clock is the word for having none.
LEMMA Reasons ==
  /\ ClockReasons = {"timeout", "stall"}
  /\ \A r \in PolicyReasons : r \notin ClockReasons \cup {"completed", "none", "monitor_error"}
  BY DEF ClockReasons, PolicyReasons, PolicyOrder, ToSet

-----------------------------------------------------------------------------
(* The steps *)

\* Every step keeps the types.
LEMMA TypeStep == MonitorTypeOK /\ [Next]_vars => MonitorTypeOK'
<1> SUFFICES ASSUME MonitorTypeOK, [Next]_vars PROVE MonitorTypeOK'
  OBVIOUS
<1> USE DEF fixed, world, reader, watcher, outcome, history
<1>1. CASE AgentExits
  BY <1>1 DEF AgentExits, MonitorTypeOK, StopReasons
<1>2. CASE PipeCloses
  BY <1>2 DEF PipeCloses, MonitorTypeOK, StopReasons
<1>3. CASE TimeIsUp
  BY <1>3 DEF TimeIsUp, MonitorTypeOK, StopReasons
<1>4. CASE GoesQuiet
  BY <1>4 DEF GoesQuiet, MonitorTypeOK, StopReasons
<1>5. CASE TakeLine
  BY <1>5 DEF TakeLine, Leave, ReadOn, Stopped, MonitorTypeOK, StopReasons
<1>6. CASE LineFails
  BY <1>6 DEF LineFails, Leave, MonitorTypeOK, StopReasons
<1>7. CASE JudgeLine
  <2>1. Breaks(line) => Verdict(line) \in PolicyReasons
    BY VerdictIsReason
  <2>2. /\ main' \in {"reading", "left"} /\ line' = NoLine
        /\ reason' \in StopReasons \cup {"completed"} /\ broke' \in PolicyReasons \cup {"none"}
        /\ idle' \in BOOLEAN
    BY <1>7, <2>1, Reasons DEF JudgeLine, Leave, ReadOn, MonitorTypeOK, StopReasons
  <2>. QED
    BY <1>7, <2>2 DEF JudgeLine, MonitorTypeOK
<1>8. CASE EndOfOutput
  BY <1>8 DEF EndOfOutput, Leave, MonitorTypeOK, StopReasons
<1>9. CASE SettleReason
  BY <1>9, Reasons DEF SettleReason, Settled, MonitorTypeOK, StopReasons
<1>10. CASE KillByMain
  BY <1>10 DEF KillByMain, KillAgent, MonitorTypeOK, StopReasons
<1>11. CASE AgentReaped
  BY <1>11 DEF AgentReaped, MonitorTypeOK, StopReasons
<1>12. CASE CancelWatchdog
  BY <1>12 DEF CancelWatchdog, MonitorTypeOK, StopReasons
<1>13. CASE Return
  BY <1>13, Reasons DEF Return, Joined, FinalReason, ExitCode, Settled, MonitorTypeOK,
     StopReasons
<1>14. CASE WatchdogWakes
  BY <1>14 DEF WatchdogWakes, Over, MonitorTypeOK, StopReasons
<1>15. CASE WatchdogFlags
  BY <1>15 DEF WatchdogFlags, ClockReasons, MonitorTypeOK, StopReasons
<1>16. CASE WatchdogKills
  BY <1>16 DEF WatchdogKills, KillAgent, MonitorTypeOK, StopReasons
<1>17. CASE Report
  BY <1>17, Reasons DEF Report, AttemptStatus, CompletedDespiteStall, MonitorTypeOK, StopReasons
<1>18. CASE UNCHANGED vars
  BY <1>18 DEF vars, MonitorTypeOK, StopReasons
<1>. QED
  BY <1>1, <1>2, <1>3, <1>4, <1>5, <1>6, <1>7, <1>8, <1>9, <1>10, <1>11, <1>12, <1>13, <1>14,
     <1>15, <1>16, <1>17, <1>18 DEF Next, Environment, MainStep, WatchdogStep

\* Every step keeps what is known of the agent's end.
LEMMA EndStep == MonitorTypeOK /\ EndInv /\ [Next]_vars => EndInv'
<1> SUFFICES ASSUME MonitorTypeOK, EndInv, [Next]_vars PROVE EndInv'
  OBVIOUS
<1> USE DEF fixed, world, reader, watcher, outcome, history
<1>1. CASE AgentExits
  BY <1>1 DEF AgentExits, MonitorTypeOK, EndInv
<1>2. CASE PipeCloses
  BY <1>2 DEF PipeCloses, MonitorTypeOK, EndInv
<1>3. CASE TimeIsUp
  BY <1>3 DEF TimeIsUp, MonitorTypeOK, EndInv
<1>4. CASE GoesQuiet
  BY <1>4 DEF GoesQuiet, MonitorTypeOK, EndInv
<1>5. CASE TakeLine
  BY <1>5 DEF TakeLine, Leave, ReadOn, Stopped, MonitorTypeOK, EndInv
<1>6. CASE LineFails
  BY <1>6 DEF LineFails, Leave, MonitorTypeOK, EndInv
<1>7. CASE JudgeLine
  <2>1. Breaks(line) => Verdict(line) \in PolicyReasons
    BY VerdictIsReason
  <2>. QED
    BY <1>7, <2>1, Reasons DEF JudgeLine, Leave, ReadOn, MonitorTypeOK, EndInv
<1>8. CASE EndOfOutput
  BY <1>8 DEF EndOfOutput, Leave, MonitorTypeOK, EndInv
<1>9. CASE SettleReason
  BY <1>9, Reasons DEF SettleReason, Settled, MonitorTypeOK, EndInv
<1>10. CASE KillByMain
  BY <1>10 DEF KillByMain, KillAgent, MonitorTypeOK, EndInv
<1>11. CASE AgentReaped
  BY <1>11 DEF AgentReaped, MonitorTypeOK, EndInv
<1>12. CASE CancelWatchdog
  BY <1>12 DEF CancelWatchdog, MonitorTypeOK, EndInv
<1>13. CASE Return
  BY <1>13, Reasons DEF Return, Joined, FinalReason, ExitCode, Settled, MonitorTypeOK, EndInv
<1>14. CASE WatchdogWakes
  BY <1>14 DEF WatchdogWakes, Over, MonitorTypeOK, EndInv
<1>15. CASE WatchdogFlags
  BY <1>15 DEF WatchdogFlags, ClockReasons, MonitorTypeOK, EndInv
<1>16. CASE WatchdogKills
  BY <1>16 DEF WatchdogKills, KillAgent, MonitorTypeOK, EndInv
<1>17. CASE Report
  BY <1>17, Reasons DEF Report, AttemptStatus, CompletedDespiteStall, MonitorTypeOK, EndInv
<1>18. CASE UNCHANGED vars
  BY <1>18 DEF vars, MonitorTypeOK, EndInv
<1>. QED
  BY <1>1, <1>2, <1>3, <1>4, <1>5, <1>6, <1>7, <1>8, <1>9, <1>10, <1>11, <1>12, <1>13, <1>14,
     <1>15, <1>16, <1>17, <1>18 DEF Next, Environment, MainStep, WatchdogStep

\* Every step keeps what the main thread has seen.
LEMMA SeenStep == MonitorTypeOK /\ EndInv /\ SeenInv /\ [Next]_vars => SeenInv'
<1> SUFFICES ASSUME MonitorTypeOK, EndInv, SeenInv, [Next]_vars PROVE SeenInv'
  OBVIOUS
<1> USE DEF fixed, world, reader, watcher, outcome, history
<1>1. CASE AgentExits
  BY <1>1 DEF AgentExits, MonitorTypeOK, EndInv, SeenInv
<1>2. CASE PipeCloses
  BY <1>2 DEF PipeCloses, MonitorTypeOK, EndInv, SeenInv
<1>3. CASE TimeIsUp
  BY <1>3 DEF TimeIsUp, MonitorTypeOK, EndInv, SeenInv
<1>4. CASE GoesQuiet
  BY <1>4 DEF GoesQuiet, MonitorTypeOK, EndInv, SeenInv
<1>5. CASE TakeLine
  BY <1>5 DEF TakeLine, Leave, ReadOn, Stopped, MonitorTypeOK, EndInv, SeenInv
<1>6. CASE LineFails
  BY <1>6 DEF LineFails, Leave, MonitorTypeOK, EndInv, SeenInv
<1>7. CASE JudgeLine
  <2>1. Breaks(line) => Verdict(line) \in PolicyReasons
    BY VerdictIsReason
  <2>. QED
    BY <1>7, <2>1, Reasons DEF JudgeLine, Leave, ReadOn, MonitorTypeOK, EndInv, SeenInv
<1>8. CASE EndOfOutput
  BY <1>8 DEF EndOfOutput, Leave, MonitorTypeOK, EndInv, SeenInv
<1>9. CASE SettleReason
  BY <1>9, Reasons DEF SettleReason, Settled, MonitorTypeOK, EndInv, SeenInv
<1>10. CASE KillByMain
  BY <1>10 DEF KillByMain, KillAgent, MonitorTypeOK, EndInv, SeenInv
<1>11. CASE AgentReaped
  BY <1>11 DEF AgentReaped, MonitorTypeOK, EndInv, SeenInv
<1>12. CASE CancelWatchdog
  BY <1>12 DEF CancelWatchdog, MonitorTypeOK, EndInv, SeenInv
<1>13. CASE Return
  BY <1>13, Reasons DEF Return, Joined, FinalReason, ExitCode, Settled, MonitorTypeOK, EndInv,
     SeenInv
<1>14. CASE WatchdogWakes
  BY <1>14 DEF WatchdogWakes, Over, MonitorTypeOK, EndInv, SeenInv
<1>15. CASE WatchdogFlags
  BY <1>15 DEF WatchdogFlags, ClockReasons, MonitorTypeOK, EndInv, SeenInv
<1>16. CASE WatchdogKills
  BY <1>16 DEF WatchdogKills, KillAgent, MonitorTypeOK, EndInv, SeenInv
<1>17. CASE Report
  BY <1>17, Reasons DEF Report, AttemptStatus, CompletedDespiteStall, MonitorTypeOK, EndInv, SeenInv
<1>18. CASE UNCHANGED vars
  BY <1>18 DEF vars, MonitorTypeOK, EndInv, SeenInv
<1>. QED
  BY <1>1, <1>2, <1>3, <1>4, <1>5, <1>6, <1>7, <1>8, <1>9, <1>10, <1>11, <1>12, <1>13, <1>14,
     <1>15, <1>16, <1>17, <1>18 DEF Next, Environment, MainStep, WatchdogStep

\* Every step keeps the reasons.
LEMMA ReasonStep == IInv /\ [Next]_vars => ReasonInv'
<1> SUFFICES ASSUME IInv, [Next]_vars PROVE ReasonInv'
  OBVIOUS
<1> USE DEF fixed, world, reader, watcher, outcome, history
<1>1. CASE AgentExits
  BY <1>1 DEF AgentExits, IInv, MonitorTypeOK, EndInv, SeenInv, ReasonInv
<1>2. CASE PipeCloses
  BY <1>2 DEF PipeCloses, IInv, MonitorTypeOK, EndInv, SeenInv, ReasonInv
<1>3. CASE TimeIsUp
  BY <1>3 DEF TimeIsUp, IInv, MonitorTypeOK, EndInv, SeenInv, ReasonInv
<1>4. CASE GoesQuiet
  BY <1>4 DEF GoesQuiet, IInv, MonitorTypeOK, EndInv, SeenInv, ReasonInv
<1>5. CASE TakeLine
  BY <1>5 DEF TakeLine, Leave, ReadOn, Stopped, IInv, MonitorTypeOK, EndInv, SeenInv, ReasonInv
<1>6. CASE LineFails
  BY <1>6 DEF LineFails, Leave, IInv, MonitorTypeOK, EndInv, SeenInv, ReasonInv
<1>7. CASE JudgeLine
  <2>1. Breaks(line) => Verdict(line) \in PolicyReasons
    BY VerdictIsReason
  <2>. QED
    BY <1>7, <2>1, Reasons DEF JudgeLine, Leave, ReadOn, IInv, MonitorTypeOK, EndInv, SeenInv,
       ReasonInv
<1>8. CASE EndOfOutput
  BY <1>8 DEF EndOfOutput, Leave, IInv, MonitorTypeOK, EndInv, SeenInv, ReasonInv
<1>9. CASE SettleReason
  BY <1>9, Reasons DEF SettleReason, Settled, IInv, MonitorTypeOK, EndInv, SeenInv, ReasonInv
<1>10. CASE KillByMain
  BY <1>10 DEF KillByMain, KillAgent, IInv, MonitorTypeOK, EndInv, SeenInv, ReasonInv
<1>11. CASE AgentReaped
  BY <1>11 DEF AgentReaped, IInv, MonitorTypeOK, EndInv, SeenInv, ReasonInv
<1>12. CASE CancelWatchdog
  BY <1>12 DEF CancelWatchdog, IInv, MonitorTypeOK, EndInv, SeenInv, ReasonInv
<1>13. CASE Return
  BY <1>13, Reasons DEF Return, Joined, FinalReason, ExitCode, Settled, IInv, MonitorTypeOK,
     EndInv, SeenInv, ReasonInv
<1>14. CASE WatchdogWakes
  BY <1>14 DEF WatchdogWakes, Over, IInv, MonitorTypeOK, EndInv, SeenInv, ReasonInv
<1>15. CASE WatchdogFlags
  BY <1>15 DEF WatchdogFlags, ClockReasons, IInv, MonitorTypeOK, EndInv, SeenInv, ReasonInv
<1>16. CASE WatchdogKills
  BY <1>16 DEF WatchdogKills, KillAgent, IInv, MonitorTypeOK, EndInv, SeenInv, ReasonInv
<1>17. CASE Report
  <2>1. PICK errorEvent \in BOOLEAN : attempt' = AttemptStatus(errorEvent)
    BY <1>17 DEF Report
  <2>2. result.reason = reason /\ main = "done"
    BY <1>17 DEF Report, IInv, ReasonInv
  <2>3. attempt' = "completed" /\ reason = "completed" => CallerExit(errorEvent) = "zero"
    BY <2>1, <2>2 DEF AttemptStatus, CompletedDespiteStall
  <2>4. attempt' = "completed" /\ reason = "completed" => agent # "alive"
    BY <1>17, <2>3 DEF Report, CallerExit
  <2>. QED
    BY <1>17, <2>2, <2>4 DEF Report, IInv, MonitorTypeOK, ReasonInv
<1>18. CASE UNCHANGED vars
  BY <1>18 DEF vars, IInv, MonitorTypeOK, EndInv, SeenInv, ReasonInv
<1>. QED
  BY <1>1, <1>2, <1>3, <1>4, <1>5, <1>6, <1>7, <1>8, <1>9, <1>10, <1>11, <1>12, <1>13, <1>14,
     <1>15, <1>16, <1>17, <1>18 DEF Next, Environment, MainStep, WatchdogStep

\* Every step keeps what a completed attempt stands for.
LEMMA CompletedStep == IInv /\ [Next]_vars => CompletedForCause'
<1> SUFFICES ASSUME IInv, [Next]_vars PROVE CompletedForCause'
  OBVIOUS
<1> USE DEF fixed, world, reader, watcher, outcome, history
<1>1. CASE AgentExits
  BY <1>1 DEF AgentExits, IInv, MonitorTypeOK, EndInv, SeenInv, ReasonInv,
     CompletedForCause, EndedWell,
     StalledAfterWork
<1>2. CASE PipeCloses
  BY <1>2 DEF PipeCloses, IInv, MonitorTypeOK, EndInv, SeenInv, ReasonInv,
     CompletedForCause, EndedWell,
     StalledAfterWork
<1>3. CASE TimeIsUp
  BY <1>3 DEF TimeIsUp, IInv, MonitorTypeOK, EndInv, SeenInv, ReasonInv, CompletedForCause, EndedWell,
     StalledAfterWork
<1>4. CASE GoesQuiet
  BY <1>4 DEF GoesQuiet, IInv, MonitorTypeOK, EndInv, SeenInv, ReasonInv,
     CompletedForCause, EndedWell,
     StalledAfterWork
<1>5. CASE TakeLine
  BY <1>5 DEF TakeLine, Leave, ReadOn, Stopped, IInv, MonitorTypeOK, EndInv, SeenInv,
     ReasonInv, CompletedForCause, EndedWell,
     StalledAfterWork
<1>6. CASE LineFails
  BY <1>6 DEF LineFails, Leave, IInv, MonitorTypeOK, EndInv, SeenInv, ReasonInv,
     CompletedForCause, EndedWell,
     StalledAfterWork
<1>7. CASE JudgeLine
  <2>1. Breaks(line) => Verdict(line) \in PolicyReasons
    BY VerdictIsReason
  <2>. QED
    BY <1>7, <2>1, Reasons DEF JudgeLine, Leave, ReadOn, IInv, MonitorTypeOK, EndInv, SeenInv,
       ReasonInv, CompletedForCause, EndedWell,
     StalledAfterWork
<1>8. CASE EndOfOutput
  BY <1>8 DEF EndOfOutput, Leave, IInv, MonitorTypeOK, EndInv, SeenInv, ReasonInv,
     CompletedForCause, EndedWell,
     StalledAfterWork
<1>9. CASE SettleReason
  BY <1>9, Reasons DEF SettleReason, Settled, IInv, MonitorTypeOK, EndInv, SeenInv, ReasonInv,
     CompletedForCause, EndedWell,
     StalledAfterWork
<1>10. CASE KillByMain
  BY <1>10 DEF KillByMain, KillAgent, IInv, MonitorTypeOK, EndInv, SeenInv, ReasonInv,
     CompletedForCause, EndedWell,
     StalledAfterWork
<1>11. CASE AgentReaped
  BY <1>11 DEF AgentReaped, IInv, MonitorTypeOK, EndInv, SeenInv, ReasonInv,
     CompletedForCause, EndedWell,
     StalledAfterWork
<1>12. CASE CancelWatchdog
  BY <1>12 DEF CancelWatchdog, IInv, MonitorTypeOK, EndInv, SeenInv, ReasonInv,
     CompletedForCause, EndedWell,
     StalledAfterWork
<1>13. CASE Return
  BY <1>13, Reasons DEF Return, Joined, FinalReason, ExitCode, Settled, IInv, MonitorTypeOK,
     EndInv, SeenInv, ReasonInv, CompletedForCause, EndedWell,
     StalledAfterWork
<1>14. CASE WatchdogWakes
  BY <1>14 DEF WatchdogWakes, Over, IInv, MonitorTypeOK, EndInv, SeenInv, ReasonInv,
     CompletedForCause, EndedWell,
     StalledAfterWork
<1>15. CASE WatchdogFlags
  BY <1>15 DEF WatchdogFlags, ClockReasons, IInv, MonitorTypeOK, EndInv, SeenInv, ReasonInv,
     CompletedForCause, EndedWell,
     StalledAfterWork
<1>16. CASE WatchdogKills
  BY <1>16 DEF WatchdogKills, KillAgent, IInv, MonitorTypeOK, EndInv, SeenInv, ReasonInv,
     CompletedForCause, EndedWell,
     StalledAfterWork
<1>17. CASE Report
  <2> SUFFICES ASSUME attempt' = "completed"
               PROVE  /\ broke = "none"
                      /\ (result.reason = "completed" /\ EndedWell)' \/ StalledAfterWork'
    BY <1>17 DEF Report, CompletedForCause
  <2>1. PICK errorEvent \in BOOLEAN : attempt' = AttemptStatus(errorEvent)
    BY <1>17 DEF Report
  <2>2. main = "done" /\ result.reason = reason /\ result' = result /\ engine' = engine
    BY <1>17 DEF Report, IInv, ReasonInv
  <2>3. broke = "none" \/ reason = broke
    BY DEF IInv, ReasonInv
  <2>4. broke \in PolicyReasons \cup {"none"}
    BY DEF IInv, MonitorTypeOK
  <2>5. CASE CompletedDespiteStall(errorEvent)
    <3>1. engine = "direct" /\ reason = "stall" /\ changed'
      BY <2>2, <2>5 DEF CompletedDespiteStall
    <3>2. broke = "none"
      BY <2>3, <2>4, <3>1, Reasons
    <3>. QED
      BY <2>2, <3>1, <3>2 DEF StalledAfterWork
  <2>6. CASE ~CompletedDespiteStall(errorEvent)
    <3>1. result.reason = "completed" /\ CallerExit(errorEvent) = "zero"
      BY <2>1, <2>6 DEF AttemptStatus
    <3>2. code = "zero"
      BY <3>1 DEF CallerExit, IInv, MonitorTypeOK
    <3>3. broke = "none"
      BY <2>2, <2>3, <2>4, <3>1, Reasons
    <3>4. agent = "killed" => variant = "process" /\ lastSeen = "alive"
      <4>1. CASE variant = "stream"
        BY <2>2, <3>1, <4>1 DEF IInv, ReasonInv, EndInv
      <4>2. CASE variant = "process"
        BY <2>2, <3>1, <4>2 DEF IInv, SeenInv, MonitorTypeOK
      <4>. QED
        BY <4>1, <4>2, MonitorAssumption DEF IInv, MonitorTypeOK
    <3>. QED
      BY <1>17, <2>2, <3>1, <3>2, <3>3, <3>4 DEF Report, EndedWell
  <2>. QED
    BY <2>5, <2>6
<1>18. CASE UNCHANGED vars
  BY <1>18 DEF vars, IInv, MonitorTypeOK, EndInv, SeenInv, ReasonInv, CompletedForCause, EndedWell,
     StalledAfterWork
<1>. QED
  BY <1>1, <1>2, <1>3, <1>4, <1>5, <1>6, <1>7, <1>8, <1>9, <1>10, <1>11, <1>12, <1>13, <1>14,
     <1>15, <1>16, <1>17, <1>18 DEF Next, Environment, MainStep, WatchdogStep

-----------------------------------------------------------------------------
(* The theorems *)

\* The invariant holds in the beginning ...
LEMMA InitIInv == Init => IInv
<1> SUFFICES ASSUME Init PROVE IInv
  OBVIOUS
<1>1. MonitorTypeOK
  BY DEF Init, MonitorTypeOK, StopReasons
<1>2. EndInv /\ SeenInv /\ ReasonInv /\ CompletedForCause
  BY DEF Init, EndInv, SeenInv, ReasonInv, CompletedForCause
<1>. QED
  BY <1>1, <1>2 DEF IInv

\* ... and every step keeps it.
LEMMA StepIInv == IInv /\ [Next]_vars => IInv'
  BY TypeStep, EndStep, SeenStep, ReasonStep, CompletedStep DEF IInv

\* All of the above in every state of the monitor (monitor.py).
THEOREM MonitorInvariance == Spec => []IInv
  BY InitIInv, StepIInv, PTL DEF Spec

\* The monitor, its watchdog and its caller keep to the types.
THEOREM MonitorTypeCorrect == Spec => []MonitorTypeOK
<1>1. IInv => MonitorTypeOK
  BY DEF IInv
<1>. QED
  BY MonitorInvariance, <1>1, PTL

\* An attempt that counts as completed broke no policy in any judged line, and
\* its agent ended well or, for worker_direct.py, stalled with changes left: for
\* every set of lines, both monitors and both runners, in every interleaving.
THEOREM CompletedHasCause == Spec => []CompletedForCause
<1>1. IInv => CompletedForCause
  BY DEF IInv
<1>. QED
  BY MonitorInvariance, <1>1, PTL

\* monitor_process returns after the child has been waited for and its watchdog
\* has been joined, so nothing of it can signal the pid afterwards.
THEOREM MonitorLeavesNobody == Spec => []NobodyLeftToKill
<1>1. IInv => NobodyLeftToKill
  BY DEF IInv, EndInv, NobodyLeftToKill
<1>. QED
  BY MonitorInvariance, <1>1, PTL
=============================================================================
