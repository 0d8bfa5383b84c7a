--------------------------- MODULE DaemonManager ---------------------------
(***************************************************************************)
(* internal/daemon: how nodeadm configures, restarts, waits for and stops  *)
(* a systemd unit. RestartDaemon and StopDaemon only enqueue a job; what   *)
(* the caller then knows of the unit is what it polls (WaitForStatus) or   *)
(* the job's result (WaitForOperation, RetryOperation).                    *)
(*                                                                         *)
(* systemd is not part of the repository; it is modelled as the code uses  *)
(* it: one job at a time per unit, a new one replacing the old (mode       *)
(* "replace"), run some time after the call that enqueued it returned.     *)
(***************************************************************************)
EXTENDS Naturals

CONSTANTS
    MaxConf,     \* bound: how often the daemon is configured
    MaxFaults    \* bound: bus errors, failed starts, crashes, other actors' jobs

ASSUME DaemonManagerAssumption == MaxConf \in Nat /\ MaxFaults \in Nat

VARIABLES
    caller,    \* "awaits": ssm's EnsureRunning (RetryOperation, then WaitForStatus);
               \* "polls": kubelet's and containerd's (RestartDaemon, then WaitForStatus)
    others,    \* other actors (an operator, a package script) stop the unit, too
    active,    \* the unit's ActiveState
    running,   \* the configuration the unit's process was started with, 0 for no process
    conf,      \* the configuration on disk
    enabled,   \* the unit file is enabled
    job,       \* the unit's job: "none", "restart", "starting" (its second half), "stop"
    result,    \* what the result channel has for the waiting caller
    pc,        \* the caller's next step
    returned,  \* what the caller's last operation returned
    dropped,   \* history: systemd ended the caller's last restart job without running it
    faults     \* failures so far, for the bound MaxFaults

vars == <<caller, others, active, running, conf, enabled, job, result, pc, returned, dropped, faults>>
unit == <<active, running, job>>
setting == <<caller, others>>

OperationResult == {"done", "canceled", "timeout", "failed", "dependency", "skipped"}

TypeOK ==
    /\ caller \in {"awaits", "polls"} /\ others \in BOOLEAN
    /\ active \in {"inactive", "activating", "active", "deactivating", "failed"}
    /\ running \in 0..MaxConf /\ conf \in 0..MaxConf
    /\ enabled \in BOOLEAN
    /\ job \in {"none", "restart", "starting", "stop"}
    /\ result \in {"none"} \cup OperationResult
    /\ pc \in {"idle", "enable", "restart", "await", "backoff", "poll"}
    /\ returned \in {"none", "running", "stopped", "disabled", "error"}
    /\ dropped \in BOOLEAN
    /\ faults \in 0..MaxFaults

Init ==
    /\ caller \in {"awaits", "polls"} /\ others \in BOOLEAN
    /\ active = "inactive" /\ running = 0 /\ conf = 0 /\ enabled = FALSE
    /\ job = "none" /\ result = "none"
    /\ pc = "idle" /\ returned = "none"
    /\ dropped = FALSE /\ faults = 0

Fault == faults < MaxFaults /\ faults' = faults + 1

Return(r) == pc' = "idle" /\ returned' = r

-----------------------------------------------------------------------------
(* The caller: Configure and EnsureRunning of a daemon.                    *)

Configure ==
    /\ pc = "idle" /\ conf < MaxConf
    /\ conf' = conf + 1
    /\ pc' = "enable" /\ returned' = "none"
    /\ UNCHANGED <<setting, unit, enabled, result, faults, dropped>>

\* No change to make is no error.
EnableDaemon ==
    /\ pc = "enable"
    /\ enabled' = TRUE
    /\ pc' = "restart"
    /\ UNCHANGED <<setting, unit, conf, result, returned, faults, dropped>>

\* A bus error, or a change that is not a symlink.
EnableDaemonFails ==
    /\ pc = "enable"
    /\ Fault
    /\ enabled' \in {enabled, TRUE}
    /\ Return("error")
    /\ UNCHANGED <<setting, unit, conf, result, dropped>>

RestartDaemonIfStopped ==  \* mutant: a daemon that runs is not restarted
    /\ pc = "restart"
    /\ job' = IF active = "active" THEN job ELSE "restart"
    /\ result' = "none"
    /\ dropped' = FALSE
    /\ pc' = IF caller = "awaits" THEN "await" ELSE "poll"
    /\ UNCHANGED <<setting, active, running, conf, enabled, returned, faults>>

\* The bus call succeeds once the job is enqueued, and the caller listens for its
\* result only under WaitForOperation.
RestartDaemon ==
    /\ pc = "restart"
    /\ job' = "restart"
    /\ result' = "none"
    /\ dropped' = FALSE
    /\ pc' = IF caller = "awaits" THEN "await" ELSE "poll"
    /\ UNCHANGED <<setting, active, running, conf, enabled, returned, faults>>

RestartCallFails ==
    /\ pc = "restart"
    /\ Fault
    /\ IF caller = "awaits" THEN pc' = "backoff" /\ UNCHANGED returned ELSE Return("error")
    /\ UNCHANGED <<setting, unit, conf, enabled, result, dropped>>

WaitForOperationNever ==  \* mutant: the result is not waited for
    /\ pc = "await"
    /\ result' = "none" /\ pc' = "poll"
    /\ UNCHANGED <<setting, unit, conf, enabled, returned, faults, dropped>>

\* Failed and Timeout are errors, which RetryOperation retries; Done, Canceled,
\* Dependency and Skipped are all nil.
WaitForOperation ==
    /\ pc = "await" /\ result # "none"
    /\ pc' = IF result \in {"failed", "timeout"} THEN "backoff" ELSE "poll"
    /\ result' = "none"
    /\ UNCHANGED <<setting, unit, conf, enabled, returned, faults, dropped>>

RetryOperation ==
    /\ pc = "backoff"
    /\ pc' = "restart"
    /\ UNCHANGED <<setting, unit, conf, enabled, result, returned, faults, dropped>>

\* A poll that finds another status changes nothing and is not a step.
WaitForStatus ==
    /\ pc = "poll" /\ active = "active"
    /\ Return("running")
    /\ UNCHANGED <<setting, unit, conf, enabled, result, faults, dropped>>

CtxDoneNever == FALSE /\ UNCHANGED vars  \* mutant: a context without deadline

\* restartCancel or runningCtx expires.
CtxDone ==
    /\ pc \in {"await", "backoff", "poll"}
    /\ Return("error")
    /\ UNCHANGED <<setting, unit, conf, enabled, result, faults, dropped>>

\* GetDaemonStatus and StopUnit: only an active unit is stopped.
StopDaemon ==
    /\ pc = "idle"
    /\ job' = IF active = "active" THEN "stop" ELSE job
    /\ result' = IF active = "active" THEN "none" ELSE result
    /\ Return("stopped")
    /\ UNCHANGED <<setting, active, running, conf, enabled, faults, dropped>>

\* Anything but exactly one unlinked file is an error.
DisableDaemon ==
    /\ pc = "idle"
    /\ enabled' = FALSE
    /\ Return(IF enabled THEN "disabled" ELSE "error")
    /\ UNCHANGED <<setting, unit, conf, result, faults, dropped>>

Caller ==
    \/ Configure \/ EnableDaemon \/ EnableDaemonFails \/ RestartDaemon \/ RestartCallFails
    \/ WaitForOperation \/ RetryOperation \/ WaitForStatus \/ CtxDone
    \/ StopDaemon \/ DisableDaemon

-----------------------------------------------------------------------------
(* systemd                                                                 *)

\* The job is over; its listener, if the caller is one, hears of it.
Complete(r) ==
    /\ job' = "none"
    /\ result' = IF pc = "await" THEN r ELSE result

StopProcess ==
    /\ job \in {"restart", "stop"} /\ active \in {"active", "activating"}
    /\ active' = "deactivating"
    /\ UNCHANGED <<setting, running, job, conf, enabled, result, pc, returned, faults, dropped>>

ProcessStopped ==
    /\ job \in {"restart", "stop"} /\ active = "deactivating"
    /\ running' = 0 /\ active' = "inactive"
    /\ IF job = "stop" THEN Complete("done") ELSE UNCHANGED <<setting, job, result>>
    /\ UNCHANGED <<setting, conf, enabled, pc, returned, faults, dropped>>

\* The process reads its configuration when it starts.
StartProcess ==
    /\ job = "restart" /\ active \in {"inactive", "failed"}
    /\ active' = "activating" /\ running' = conf
    /\ job' = "starting"
    /\ UNCHANGED <<setting, conf, enabled, result, pc, returned, faults, dropped>>

ProcessStarted ==
    /\ job = "starting" /\ active = "activating"
    /\ active' = "active"
    /\ Complete("done")
    /\ UNCHANGED <<setting, running, conf, enabled, pc, returned, faults, dropped>>

\* The unit is left failed, or waiting for systemd to start it again.
StartFails(r) ==
    /\ job = "starting" /\ active = "activating"
    /\ Fault
    /\ active' \in {"failed", "activating"} /\ running' = 0
    /\ Complete(r)
    /\ UNCHANGED <<setting, conf, enabled, pc, returned, dropped>>

\* The restart is given up before it has stopped or started anything: a unit it
\* depends on failed, or it does not apply to the unit's state.
JobDropped(r) ==
    /\ job = "restart" /\ active # "deactivating"
    /\ Complete(r)
    /\ dropped' = TRUE
    /\ UNCHANGED <<setting, active, running, conf, enabled, pc, returned, faults>>

\* A crash, and the automatic restart that follows it.
Crash ==
    /\ active = "active" /\ job = "none"
    /\ Fault
    /\ active' = "activating" /\ running' = 0
    /\ UNCHANGED <<setting, job, conf, enabled, result, pc, returned, dropped>>

AutoRestart ==
    /\ active = "activating" /\ job = "none"
    /\ active' = "active" /\ running' = conf
    /\ UNCHANGED <<setting, job, conf, enabled, result, pc, returned, faults, dropped>>

\* Somebody else stops the unit: the pending job is replaced and so canceled.
OtherJob ==
    /\ others /\ Fault
    /\ job # "stop" /\ active \in {"active", "activating"}
    /\ job' = "stop"
    /\ result' = IF pc = "await" /\ job # "none" THEN "canceled" ELSE result
    /\ UNCHANGED <<setting, active, running, conf, enabled, pc, returned, dropped>>

Systemd ==
    \/ StopProcess \/ ProcessStopped \/ StartProcess \/ ProcessStarted
    \/ \E r \in {"failed", "timeout"} : StartFails(r)
    \/ \E r \in {"dependency", "skipped"} : JobDropped(r)
    \/ Crash \/ AutoRestart \/ OtherJob

Next == Caller \/ Systemd

Spec == Init /\ [][Next]_vars

\* The caller's goroutine runs and its deadlines pass; systemd need not do its
\* part.
FairSpec ==
    /\ Spec
    /\ WF_vars(EnableDaemon \/ EnableDaemonFails \/ RestartDaemon \/ RestartCallFails \/ RetryOperation)
    /\ WF_vars(CtxDone)

-----------------------------------------------------------------------------
(* Properties                                                              *)

\* What EnsureRunning is for: once it has returned nil, no process that was started
\* with an older configuration is running, as long as nobody else stops or starts
\* the daemon. It holds for a caller that awaits its job (RetryOperation over
\* WaitForOperation), over crashes, failed starts and any number of earlier restarts
\* that timed out, with one exception, which the code makes on purpose: a job that
\* systemd gave up with "dependency" or "skipped" is nil to WaitForOperation, and the
\* poll that follows is satisfied by the old process.
AwaitedIsReconfigured ==
    (caller = "awaits" /\ returned = "running" /\ ~others /\ ~dropped)
        => running \in {0, conf}

\* A caller that only polls the unit's state (kubelet, containerd) does not even have
\* that: the poll may see the process that the job is about to stop. But the restart
\* is not lost: while an older process runs behind a nil result its job is pending,
\* whatever crashes, failed starts and earlier calls that ran out of time preceded,
\* unless systemd itself gave the job up.
RestartUnderway ==
    (returned = "running" /\ ~others /\ ~dropped)
        => running \in {0, conf} \/ job = "restart"

\* The inductive invariant behind the first: while such a caller waits, its own job is
\* on the way, the process that job starts has the new configuration, and after the
\* job's "done" nothing older is left; a job that ended otherwise without an error is
\* one that systemd dropped.
AwaitInv ==
    /\ TypeOK
    /\ returned = "running" => pc = "idle"
    /\ (caller = "awaits" /\ ~others) =>
        /\ (pc = "await" /\ result = "none") => job \in {"restart", "starting"}
        /\ (pc = "await" /\ job = "starting") => running = conf
        /\ (pc = "await" /\ result # "none") => job = "none"
        /\ (pc = "await" /\ result = "done") => running \in {0, conf}
        /\ (pc = "await" /\ result \in {"dependency", "skipped"}) => dropped
        /\ (pc = "poll" \/ returned = "running") =>
               job = "none" /\ (dropped \/ running \in {0, conf})
        /\ result # "canceled"

\* EnsureRunning returns, even when systemd never gets around to the job.
EnsureRunningReturns == pc # "idle" ~> pc = "idle"
=============================================================================
