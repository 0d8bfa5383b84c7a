----------------------------- MODULE SSMAgent -----------------------------
(***************************************************************************)
(* internal/ssm: the registration of the machine as an SSM managed         *)
(* instance, which also gives the node its name, from `nodeadm init`       *)
(* (registerMachine) to `nodeadm uninstall` (Uninstall, Deregister).       *)
(*                                                                         *)
(* The registration lives in two places that nodeadm cannot change         *)
(* together: the service's list of managed instances and the agent's       *)
(* registration file. Calls to the service fail, or take effect and lose   *)
(* their answer; the commands are killed and run again.                    *)
(***************************************************************************)
EXTENDS Naturals, FiniteSets

CONSTANTS
    Ids,        \* the instance ids the service hands out, one per registration
    NoId,       \* no instance
    MaxFaults   \* bound: calls that fail, commands that are killed

ASSUME SSMAgentAssumption ==
    /\ NoId \notin Ids
    /\ MaxFaults \in Nat

VARIABLES
    registered,  \* the service's managed instances that are this machine
    used,        \* ids the service has handed out
    reg,         \* the instance id in /var/lib/amazon/ssm/registration
    files,       \* the agent's other files on the host
    tracked,     \* the tracker lists ssm
    cmd,         \* the running command
    pc,          \* its next step
    errs,        \* Uninstall's allErrors is not empty
    nodeName,    \* Status.Hybrid.NodeName of the last init
    last,        \* how the last command ended
    faults,      \* failures so far, for the bound MaxFaults
    target,      \* history: reg when the last uninstall started
    held,        \* history: every id reg has held
    excused      \* history: ids whose registration or deregistration call failed

vars == <<registered, used, reg, files, tracked, cmd, pc, errs, nodeName, last, faults,
          target, held, excused>>
histories == <<target, held, excused>>

MaybeId == Ids \cup {NoId}

\* The agent's package, the setup cli that installs it, /etc/amazon, the link
\* /eks-hybrid/.aws and /root/.aws.
Files == {"agent", "installer", "config", "symlink", "awsConfig"}

\* Uninstall's actions after Deregister, each tried whatever became of the others.
RemovalOrder ==
    [registration |-> "agent", agent |-> "installer", installer |-> "config", config |-> "symlink",
     symlink |-> "awsConfig", awsConfig |-> "finish"]

TypeOK ==
    /\ registered \in SUBSET Ids /\ used \in SUBSET Ids /\ held \in SUBSET Ids /\ excused \in SUBSET Ids
    /\ reg \in MaybeId /\ nodeName \in MaybeId /\ target \in MaybeId
    /\ files \in SUBSET Files
    /\ tracked \in BOOLEAN /\ errs \in BOOLEAN
    /\ cmd \in {"idle", "init", "uninstall"}
    /\ pc \in {"none", "isRegistered", "register", "readName", "ensureRunning",
               "read", "describe", "deregister", "finish"} \cup DOMAIN RemovalOrder
    /\ last \in {"none", "init ok", "init error", "uninstall ok", "uninstall error"}
    /\ faults \in 0..MaxFaults

Init ==
    /\ registered = {} /\ used = {} /\ held = {} /\ excused = {}
    /\ reg = NoId /\ nodeName = NoId /\ target = NoId
    /\ files = {}
    /\ tracked = FALSE /\ errs = FALSE
    /\ cmd = "idle" /\ pc = "none" /\ last = "none"
    /\ faults = 0

Return(result) == cmd' = "idle" /\ pc' = "none" /\ last' = result

Fault == faults < MaxFaults /\ faults' = faults + 1

-----------------------------------------------------------------------------
(* Install: the setup cli installs the agent, then its configuration file  *)
(* is written; NodeComponents models how an install fails.                 *)

Install ==
    /\ cmd = "idle"
    /\ files' = files \cup {"agent", "installer", "config"}
    /\ tracked' = TRUE
    /\ UNCHANGED <<registered, used, reg, cmd, pc, errs, nodeName, last, faults, histories>>

-----------------------------------------------------------------------------
(* nodeadm init: SSMAWSConfigurator.Configure                              *)

StartInit ==
    /\ cmd = "idle" /\ tracked
    /\ cmd' = "init" /\ pc' = "isRegistered" /\ nodeName' = NoId
    /\ UNCHANGED <<registered, used, reg, files, tracked, errs, last, faults, histories>>

CheckRegisteredAlwaysRegisters ==  \* mutant: registers whether or not there is a file
    /\ cmd = "init" /\ pc = "isRegistered"
    /\ pc' = "register"
    /\ UNCHANGED <<cmd, last, registered, used, reg, files, tracked, errs, nodeName, faults, histories>>

\* isRegistered and agentBinaryPath: the file decides, the service is not asked.
CheckRegistered ==
    /\ cmd = "init" /\ pc = "isRegistered"
    /\ \/ reg # NoId /\ pc' = "readName" /\ UNCHANGED <<cmd, last>>
       \/ reg = NoId /\ "agent" \in files /\ pc' = "register" /\ UNCHANGED <<cmd, last>>
       \/ reg = NoId /\ "agent" \notin files /\ Return("init error")
    /\ UNCHANGED <<registered, used, reg, files, tracked, errs, nodeName, faults, histories>>

\* The service enters the machine under a new id.
ServiceRegisters(i) ==
    /\ i \in Ids \ used
    /\ used' = used \cup {i}
    /\ registered' = registered \cup {i}

\* amazon-ssm-agent -register, run by cmd.Retry.
Register(i) ==
    /\ cmd = "init" /\ pc = "register"
    /\ ServiceRegisters(i)
    /\ reg' = i /\ held' = held \cup {i}
    /\ pc' = "readName"
    /\ UNCHANGED <<files, tracked, cmd, errs, nodeName, last, faults, target, excused>>

\* The service registered the machine but the agent did not learn of it: its
\* command fails, and cmd.Retry runs it again.
RegisterAnswerLost(i) ==
    /\ cmd = "init" /\ pc = "register"
    /\ Fault
    /\ ServiceRegisters(i)
    /\ excused' = excused \cup {i}
    /\ UNCHANGED <<reg, files, tracked, cmd, pc, errs, nodeName, last, target, held>>

RegisterTimeoutNever == FALSE /\ UNCHANGED vars  \* mutant: no SSMRegistrationTimeout

\* SSMRegistrationTimeout passes while the command keeps failing (an attempt
\* that fails without effect changes nothing and is not a step).
RegisterTimeout ==
    /\ cmd = "init" /\ pc = "register"
    /\ Return("init error")
    /\ UNCHANGED <<registered, used, reg, files, tracked, errs, nodeName, faults, histories>>

\* GetManagedHybridInstanceId, after which the instance id is the node's name.
ReadName ==
    /\ cmd = "init" /\ pc = "readName"
    /\ nodeName' = reg
    /\ pc' = "ensureRunning"
    /\ UNCHANGED <<registered, used, reg, files, tracked, cmd, errs, last, faults, histories>>

\* EnsureRunning, PostLaunch (the link, with EnableCredentialsFile) and
\* WaitForAWSConfig: the running agent has written /root/.aws/credentials.
EnsureRunning(link) ==
    /\ cmd = "init" /\ pc = "ensureRunning"
    /\ files' = files \cup {"awsConfig"} \cup (IF link THEN {"symlink"} ELSE {})
    /\ Return("init ok")
    /\ UNCHANGED <<registered, used, reg, tracked, errs, nodeName, faults, histories>>

-----------------------------------------------------------------------------
(* nodeadm uninstall: ssm.Uninstall                                        *)

StartUninstallRemovesFirst ==  \* mutant: the registration file goes before Deregister
    /\ cmd = "idle" /\ tracked
    /\ cmd' = "uninstall" /\ pc' = "read" /\ errs' = FALSE
    /\ target' = reg /\ reg' = NoId
    /\ UNCHANGED <<registered, used, files, tracked, nodeName, last, faults, held, excused>>

StartUninstall ==
    /\ cmd = "idle" /\ tracked
    /\ cmd' = "uninstall" /\ pc' = "read" /\ errs' = FALSE
    /\ target' = reg
    /\ UNCHANGED <<registered, used, reg, files, tracked, nodeName, last, faults, held, excused>>

\* Without a registration file there is nothing to deregister.
ReadRegistration ==
    /\ cmd = "uninstall" /\ pc = "read"
    /\ pc' = IF reg = NoId THEN "registration" ELSE "describe"
    /\ UNCHANGED <<registered, used, reg, files, tracked, cmd, errs, nodeName, last, faults, histories>>

\* isInstanceManaged: one call to the service, which lists what is registered.
Describe ==
    /\ cmd = "uninstall" /\ pc = "describe"
    /\ pc' = IF reg \in registered THEN "deregister" ELSE "registration"
    /\ UNCHANGED <<registered, used, reg, files, tracked, cmd, errs, nodeName, last, faults, histories>>

Deregister ==
    /\ cmd = "uninstall" /\ pc = "deregister"
    /\ registered' = registered \ {reg}
    /\ pc' = "registration"
    /\ UNCHANGED <<used, reg, files, tracked, cmd, errs, nodeName, last, faults, histories>>

DeregisterFailsSilently ==  \* mutant: the error is logged and not collected
    /\ cmd = "uninstall" /\ pc \in {"read", "describe", "deregister"} /\ reg # NoId
    /\ Fault
    /\ excused' = excused \cup {reg}
    /\ registered' = registered
    /\ pc' = "registration"
    /\ UNCHANGED <<errs, used, reg, files, tracked, cmd, nodeName, last, target, held>>

\* The registration file cannot be read or decoded, or one of the two calls fails, the
\* second perhaps after it took effect. The error is collected and Uninstall goes on
\* with its next action, which deletes the file.
DeregisterFails ==
    /\ cmd = "uninstall" /\ pc \in {"read", "describe", "deregister"} /\ reg # NoId
    /\ Fault
    /\ errs' = TRUE
    /\ excused' = excused \cup {reg}
    /\ registered' \in {registered} \cup (IF pc = "deregister" THEN {registered \ {reg}} ELSE {})
    /\ pc' = "registration"
    /\ UNCHANGED <<used, reg, files, tracked, cmd, nodeName, last, target, held>>

\* removeFileOrDir, and the second half of uninstallPreRegisterComponents.
RemoveStep ==
    /\ cmd = "uninstall" /\ pc \in DOMAIN RemovalOrder \ {"agent"}
    /\ reg' = IF pc = "registration" THEN NoId ELSE reg
    /\ files' = files \ {pc}
    /\ pc' = RemovalOrder[pc]
    /\ UNCHANGED <<registered, used, tracked, cmd, errs, nodeName, last, faults, histories>>

RemoveFails ==
    /\ cmd = "uninstall" /\ pc \in DOMAIN RemovalOrder \ {"agent"}
    /\ Fault
    /\ errs' = TRUE
    /\ pc' = RemovalOrder[pc]
    /\ UNCHANGED <<registered, used, reg, files, tracked, cmd, nodeName, last, histories>>

\* The package manager removes the agent, run by cmd.Retry.
RemoveAgent ==
    /\ cmd = "uninstall" /\ pc = "agent"
    /\ files' = files \ {"agent"}
    /\ pc' = RemovalOrder[pc]
    /\ UNCHANGED <<registered, used, reg, tracked, cmd, errs, nodeName, last, faults, histories>>

\* An attempt fails after it removed the package, and is run again. An attempt that
\* fails without effect changes nothing and is not a step: uninstall runs under
\* context.Background(), so nothing ends the attempts but a success or a kill.
RemoveAgentFails ==
    /\ cmd = "uninstall" /\ pc = "agent" /\ "agent" \in files
    /\ Fault
    /\ files' = files \ {"agent"}
    /\ UNCHANGED <<registered, used, reg, tracked, cmd, pc, errs, nodeName, last, histories>>

\* stdErrors.Join. Without an error the flow goes on, and clears the tracker or
\* fails at a later component.
Finish ==
    /\ cmd = "uninstall" /\ pc = "finish"
    /\ Return(IF errs THEN "uninstall error" ELSE "uninstall ok")
    /\ tracked' \in IF errs THEN {TRUE} ELSE BOOLEAN
    /\ UNCHANGED <<registered, used, reg, files, errs, nodeName, faults, histories>>

-----------------------------------------------------------------------------
\* The process is killed between two steps, or a step of init returns an error: a
\* registration file that cannot be read, a daemon that does not start.
Kill ==
    /\ cmd # "idle"
    /\ Fault
    /\ Return(IF cmd = "init" THEN "init error" ELSE "uninstall error")
    /\ UNCHANGED <<registered, used, reg, files, tracked, errs, nodeName, histories>>

\* Somebody deregisters the instance in the console.
ConsoleDeregisters(i) ==
    /\ i \in registered
    /\ Fault
    /\ registered' = registered \ {i}
    /\ UNCHANGED <<used, reg, files, tracked, cmd, pc, errs, nodeName, last, histories>>

Configure ==
    \/ CheckRegistered
    \/ \E i \in Ids : Register(i) \/ RegisterAnswerLost(i)
    \/ ReadName
    \/ \E link \in BOOLEAN : EnsureRunning(link)

\* Uninstall without the agent's package, the removal of which may fail for ever.
UninstallActions ==
    ReadRegistration \/ Describe \/ Deregister \/ DeregisterFails \/ RemoveStep \/ RemoveFails \/ Finish

Uninstall == UninstallActions \/ RemoveAgent \/ RemoveAgentFails

Next ==
    \/ Install \/ StartInit \/ StartUninstall
    \/ Configure \/ RegisterTimeout \/ Uninstall
    \/ Kill
    \/ \E i \in Ids : ConsoleDeregisters(i)

Spec == Init /\ [][Next]_vars

\* A command's own steps are taken and a deadline passes. That an attempt to register
\* or to remove the agent's package ever succeeds is not assumed.
FairSpec ==
    /\ Spec
    /\ WF_vars(RegisterTimeout)
    /\ WF_vars(CheckRegistered \/ ReadName \/ \E link \in BOOLEAN : EnsureRunning(link))
    /\ WF_vars(UninstallActions)

-----------------------------------------------------------------------------
(* Properties                                                              *)

\* An uninstall that found a registration and reports success has taken that
\* instance off the service: over failures that were collected on the way it
\* never reports success.
OkMeansDeregistered ==
    (cmd = "idle" /\ last = "uninstall ok") => target \notin registered

\* Wherever a command is killed, the machine has no managed instance besides the
\* one in its registration file, unless a call about that instance failed: the
\* file is given up only after the service let go of the instance, and while
\* there is a file nothing is registered.
NoSilentLeak == registered \ {reg} \subseteq excused

\* The inductive invariant behind both: a step that talks to the service about
\* reg runs while reg is still the instance found at the start, and once past
\* Deregister an instance that is still registered has left an error behind.
PcInv ==
    /\ cmd = "idle" <=> pc = "none"
    /\ cmd = "init" <=> pc \in {"isRegistered", "register", "readName", "ensureRunning"}

IdsInv == registered \subseteq used /\ reg \in used \cup {NoId} /\ target \in used \cup {NoId}

ServiceInv ==
    /\ pc = "register" => reg = NoId
    /\ pc \in {"read", "describe", "deregister"} => reg = target
    /\ pc \in {"readName", "describe", "deregister"} => reg # NoId
    /\ pc \in {"finish"} \cup DOMAIN RemovalOrder =>
          /\ ~errs => target \notin registered
          /\ reg \in {NoId, target}
          /\ target \in registered => target \in excused

RegistrationInv ==
    TypeOK /\ PcInv /\ IdsInv /\ ServiceInv /\ OkMeansDeregistered /\ NoSilentLeak

\* Every command of the agent's returns, except that an uninstall may stay in one
\* place: the removal of the agent's package, which cmd.Retry repeats without a deadline.
\* Registration ends with its timeout even when the service never accepts the machine,
\* and no other action of uninstall is waited for or repeated, before that removal or
\* after it.
CommandsReturn == cmd # "idle" ~> (cmd = "idle" \/ pc = "agent")

\* "Uninstall de-registers the managed instance and removes all files and
\* components": once uninstall has reported success, no instance whose id the
\* registration file held is still registered.
UninstallDeregisters ==
    (cmd = "idle" /\ ~tracked /\ last = "uninstall ok") => held \cap registered = {}
=============================================================================
