------------------------ MODULE DaemonManagerProofs ------------------------
(***************************************************************************)
(* For a caller that awaits its job (ssm's EnsureRunning) and that nobody  *)
(* interferes with, any number of configurations, crashes and failed       *)
(* starts never leave an older configuration running behind a nil result,  *)
(* unless systemd gave the job up; and what is left of that for a caller   *)
(* that only polls the unit (kubelet's, containerd's).                     *)
(***************************************************************************)
EXTENDS DaemonManager, TLAPS

LEMMA FaultBound == ASSUME TypeOK, Fault PROVE faults' \in 0..MaxFaults
BY DaemonManagerAssumption DEF TypeOK, Fault

\* Every step of caller and systemd keeps AwaitInv.
LEMMA AwaitInvInductive ==
    ASSUME AwaitInv, [Next]_vars
    PROVE  AwaitInv'
<1>0. AwaitInv
  OBVIOUS
<1>u. USE <1>0, DaemonManagerAssumption DEF AwaitInv, TypeOK, unit, setting, OperationResult
<1>1. CASE Configure
  BY <1>1 DEF Configure
<1>2. CASE EnableDaemon
  BY <1>2 DEF EnableDaemon
<1>3. CASE RestartDaemon
  BY <1>3 DEF RestartDaemon
<1>4. CASE RestartCallFails
  BY <1>4, FaultBound DEF RestartCallFails, Return
<1>5. CASE WaitForOperation
  BY <1>5 DEF WaitForOperation
<1>6. CASE RetryOperation
  BY <1>6 DEF RetryOperation
<1>7. CASE WaitForStatus
  BY <1>7 DEF WaitForStatus, Return
<1>8. CASE CtxDone
  BY <1>8 DEF CtxDone, Return
<1>9. CASE StopDaemon
  BY <1>9 DEF StopDaemon, Return
<1>10. CASE DisableDaemon
  BY <1>10 DEF DisableDaemon, Return
<1>11. CASE StopProcess
  BY <1>11 DEF StopProcess
<1>12. CASE ProcessStopped
  BY <1>12 DEF ProcessStopped, Complete
<1>13. CASE StartProcess
  BY <1>13 DEF StartProcess
<1>14. CASE ProcessStarted
  BY <1>14 DEF ProcessStarted, Complete
<1>15. ASSUME NEW r \in {"failed", "timeout"}, StartFails(r) PROVE AwaitInv'
  BY <1>15, FaultBound DEF StartFails, Complete
<1>16. CASE Crash
  BY <1>16, FaultBound DEF Crash
<1>17. CASE AutoRestart
  BY <1>17 DEF AutoRestart
<1>18. CASE OtherJob
  BY <1>18, FaultBound DEF OtherJob
<1>19. CASE UNCHANGED vars
  BY <1>19 DEF vars
<1>20. CASE EnableDaemonFails
  <2>1. enabled' \in BOOLEAN /\ faults' \in 0..MaxFaults
    BY <1>20, FaultBound DEF EnableDaemonFails
  <2> QED
    BY <1>20, <2>1 DEF EnableDaemonFails, Return
<1>21. ASSUME NEW r \in {"dependency", "skipped"}, JobDropped(r) PROVE AwaitInv'
  BY <1>21 DEF JobDropped, Complete
<1> QED
  BY <1>1, <1>2, <1>3, <1>4, <1>5, <1>6, <1>7, <1>8, <1>9, <1>10, <1>11, <1>12,
     <1>13, <1>14, <1>15, <1>16, <1>17, <1>18, <1>19, <1>20, <1>21
  DEF Next, Caller, Systemd

\* The inductive invariant, for any number of configurations and faults: while a
\* caller awaits its job (RestartDaemon, WaitForOperation), the job is on the way,
\* after its "done" nothing older runs, and any other result that WaitForOperation
\* takes for success is a job that systemd dropped.
THEOREM AwaitingIsConsistent == Spec => []AwaitInv
<1>1. ASSUME Init PROVE AwaitInv
  <2>1. 0 \in 0..MaxConf /\ 0 \in 0..MaxFaults
    BY DaemonManagerAssumption
  <2>2. TypeOK
    BY <1>1, <2>1 DEF Init, TypeOK
  <2> QED
    BY <1>1, <2>2 DEF Init, AwaitInv
<1>2. AwaitInv /\ [Next]_vars => AwaitInv'
  BY AwaitInvInductive
<1> QED
  BY <1>1, <1>2, PTL DEF Spec

\* RetryOperation with WaitForOperation makes EnsureRunning mean what it says: once
\* it has returned nil, no process started with an older configuration runs, unless
\* the job ended with "dependency" or "skipped".
THEOREM AwaitedRestartIsReconfigured ==
    Spec => []AwaitedIsReconfigured
<1>1. AwaitInv => AwaitedIsReconfigured
  BY DEF AwaitInv, AwaitedIsReconfigured
<1> QED
  BY <1>1, AwaitingIsConsistent, PTL

-----------------------------------------------------------------------------
\* EnsureRunning of kubelet and containerd may return nil over a process with an older
\* configuration, but never loses the restart: the job that replaces the process is
\* still systemd's, over crashes, failed starts and earlier calls that ran out of time,
\* as long as nobody else stops or starts the daemon and systemd does not give the job
\* up (RestartDaemon, WaitForStatus).
THEOREM PolledRestartIsUnderway == Spec => []RestartUnderway
<1> DEFINE Underway == running \in {0, conf} \/ job = "restart"
           PollInv == /\ pc = "await" => caller = "awaits"
                      /\ (pc = "poll" \/ returned = "running") /\ ~others /\ ~dropped => Underway
           Inv == AwaitInv /\ PollInv
<1>1. Init => PollInv
  BY DEF Init
<1>2. ASSUME Inv, [Next]_vars PROVE PollInv'
  <2>0. AwaitInv /\ PollInv
    BY <1>2
  <2>u. USE <2>0 DEF setting, unit
  <2>1. CASE Configure \/ EnableDaemon \/ EnableDaemonFails \/ RestartDaemon
    BY <2>1 DEF Configure, EnableDaemon, EnableDaemonFails, RestartDaemon, Return, AwaitInv
  <2>2. CASE RestartCallFails \/ RetryOperation \/ CtxDone \/ WaitForStatus
    BY <2>2 DEF RestartCallFails, RetryOperation, CtxDone, WaitForStatus, Return, AwaitInv
  <2>3. CASE StopDaemon \/ DisableDaemon
    BY <2>3 DEF StopDaemon, DisableDaemon, Return, AwaitInv
  <2>4. CASE WaitForOperation
    <3>1. caller = "awaits" /\ pc = "await"
      BY <2>4 DEF WaitForOperation
    <3>2. pc' = "poll" /\ ~others => result \in {"done", "canceled", "dependency", "skipped"}
      BY <2>4 DEF WaitForOperation, AwaitInv, TypeOK, OperationResult
    <3>3. pc' = "poll" /\ ~others /\ ~dropped => running \in {0, conf}
      BY <3>1, <3>2 DEF AwaitInv
    <3> QED BY <2>4, <3>1, <3>3 DEF WaitForOperation, AwaitInv
  <2>5. CASE StopProcess \/ StartProcess
    BY <2>5 DEF StopProcess, StartProcess
  <2>6. CASE ProcessStopped
    BY <2>6 DEF ProcessStopped
  <2>7. CASE ProcessStarted
    BY <2>7 DEF ProcessStarted, Complete
  <2>8. ASSUME NEW r \in {"failed", "timeout"}, StartFails(r) PROVE PollInv'
    BY <2>8 DEF StartFails
  <2>9. CASE Crash \/ AutoRestart
    BY <2>9 DEF Crash, AutoRestart
  <2>10. CASE OtherJob
    BY <2>10 DEF OtherJob
  <2>11. CASE UNCHANGED vars
    BY <2>11 DEF vars
  <2>12. ASSUME NEW r \in {"dependency", "skipped"}, JobDropped(r) PROVE PollInv'
    BY <2>12 DEF JobDropped
  <2> QED
    BY <1>2, <2>1, <2>2, <2>3, <2>4, <2>5, <2>6, <2>7, <2>8, <2>9, <2>10, <2>11, <2>12
    DEF Next, Caller, Systemd
<1>3. PollInv => RestartUnderway
  BY DEF RestartUnderway
<1> QED
  BY <1>1, <1>2, <1>3, AwaitingIsConsistent, PTL DEF Spec

-----------------------------------------------------------------------------
\* How far EnsureRunning is from its end; a job that failed leads round the loop of
\* RetryOperation once more.
ToGo(step, outcome) ==
    IF step = "await" THEN IF outcome \in {"failed", "timeout"} THEN 5 ELSE 2
    ELSE CASE step = "enable" -> 6 [] step = "backoff" -> 4 [] step = "restart" -> 3
           [] step = "poll" -> 1 [] OTHER -> 0

\* EnsureRunning goes round the loop of RetryOperation only after a failure: each of its
\* steps is one towards its end or is itself a failure, systemd sets it back only by a
\* start that fails, and a job that is canceled, dropped or done, or that an earlier call left
\* behind, does not. So a daemon that starts is restarted once.
THEOREM RetriesCostFailures ==
    Spec => [][pc # "idle" => \/ faults' > faults
                              \/ ToGo(pc', result') < ToGo(pc, result)
                              \/ Systemd /\ pc' = pc /\ ToGo(pc', result') <= ToGo(pc, result)]_vars
<1> DEFINE Costs == pc # "idle" => \/ faults' > faults
                                   \/ ToGo(pc', result') < ToGo(pc, result)
                                   \/ Systemd /\ pc' = pc /\ ToGo(pc', result') <= ToGo(pc, result)
<1>1. ASSUME AwaitInv, Next PROVE Costs
  <2>1. faults \in Nat /\ result \in {"none"} \cup OperationResult
    BY <1>1, DaemonManagerAssumption DEF AwaitInv, TypeOK
  <2>2. Fault => faults' > faults
    BY <2>1 DEF Fault
  <2>3. CASE Configure \/ StopDaemon \/ DisableDaemon
    BY <2>3 DEF Configure, StopDaemon, DisableDaemon
  <2>4. CASE EnableDaemon \/ RestartDaemon \/ RetryOperation
    BY <2>4 DEF EnableDaemon, RestartDaemon, RetryOperation, ToGo
  <2>5. CASE WaitForOperation \/ WaitForStatus \/ CtxDone
    <3>1. CASE WaitForOperation
      BY <3>1 DEF WaitForOperation, ToGo
    <3>2. CASE WaitForStatus \/ CtxDone
      <4>1. pc \in {"await", "backoff", "poll"} /\ pc' = "idle"
        BY <3>2 DEF WaitForStatus, CtxDone, Return
      <4> QED BY <4>1 DEF ToGo
    <3> QED BY <2>5, <3>1, <3>2
  <2>6. CASE EnableDaemonFails \/ RestartCallFails \/ Crash \/ OtherJob \/ \E r \in {"failed", "timeout"} : StartFails(r)
    BY <2>2, <2>6 DEF EnableDaemonFails, RestartCallFails, Crash, OtherJob, StartFails
  <2>7. CASE StopProcess \/ StartProcess \/ AutoRestart
    BY <2>7 DEF StopProcess, StartProcess, AutoRestart, ToGo, Systemd
  <2>8. CASE ProcessStopped \/ ProcessStarted
    BY <2>8 DEF ProcessStopped, ProcessStarted, Complete, ToGo, Systemd
  <2>9. CASE \E r \in {"dependency", "skipped"} : JobDropped(r)
    BY <2>9 DEF JobDropped, Complete, ToGo, Systemd
  <2> QED
    BY <1>1, <2>3, <2>4, <2>5, <2>6, <2>7, <2>8, <2>9 DEF Next, Caller, Systemd
<1>2. AwaitInv /\ [Next]_vars => [Costs]_vars
  BY <1>1
<1> QED
  BY <1>2, AwaitingIsConsistent, PTL DEF Spec
=============================================================================
