------------------------------ MODULE NodeInit ------------------------------
(***************************************************************************)
(* nodeadm init and the second half of nodeadm upgrade: credentials,       *)
(* cluster details, checks, system aspects, then the configuration and the *)
(* restart of containerd and kubelet (internal/flows/init.go, which both   *)
(* commands end in). Every step may fail, or the process may die in it;    *)
(* commands are run again, with the same or another node configuration, on *)
(* whatever host the last one left, and the host reboots in between.       *)
(*                                                                         *)
(* A node configuration is a record: the cluster, the credential provider, *)
(* whether it gives all cluster details itself, has a containerd drop-in   *)
(* and asks for a credentials file. A file holds the configuration it was  *)
(* written from.                                                           *)
(***************************************************************************)
EXTENDS Naturals, Sequences

CONSTANTS
    NodeConfigs,   \* the node configurations that commands are given
    NoConfig,      \* a file that does not exist
    Hosts,         \* the hosts on which nodeadm is run first
    SkipSets,      \* the values of --skip; {} is the flag not given, a nil slice
    MaxCommands,   \* bound: commands run
    MaxFaults      \* bound: reboots, certificates that expire, jobs that fail

Providers == {"ssm", "iam-ra"}
Daemons == {"containerd", "kubelet"}
Files == {"containerd", "dropin", "kubelet", "kubeconfig", "imageCredentials", "ca", "environment"}

\* writeContainerdConfig, then kubelet's Configure
WriteOrder == <<"containerd", "dropin", "kubelet", "kubeconfig", "imageCredentials", "ca",
                "environment">>

FilesOf(d) == IF d = "containerd" THEN {"containerd", "dropin"} ELSE Files \ {"containerd", "dropin"}

Clusters == {c.cluster : c \in NodeConfigs}

ConfigType == [cluster : STRING, provider : Providers, complete : BOOLEAN, dropin : BOOLEAN,
               credentialsFile : BOOLEAN]
SwapType == [active : {"off", "file", "deleted", "partition"}, fstab : BOOLEAN, mounts : BOOLEAN]
FirewallType == [kind : {"ufw", "firewalld"}, status : {"on", "off", "error"},
                 runtime : SUBSET {"cni", "node"}, permanent : SUBSET {"cni", "node"}]

ASSUME NodeInitAssumption ==
    /\ NodeConfigs \subseteq ConfigType /\ NodeConfigs # {}
    /\ NoConfig \notin NodeConfigs
    /\ Hosts \subseteq [installed : Providers \cup {"none"}, containerd : BOOLEAN,
                        swap : SwapType, firewall : FirewallType]
    /\ \A h \in Hosts : h.swap.mounts /\ (h.firewall.kind = "ufw" => h.firewall.runtime = h.firewall.permanent)
    /\ SkipSets \subseteq SUBSET STRING
    /\ MaxCommands \in Nat /\ MaxFaults \in Nat

VARIABLES
    installed,     \* the provider nodeadm install has recorded, "none" before it
    registered,    \* the machine is registered with Systems Manager
    agents,        \* providers whose agent or signing helper runs
    credentials,   \* providers whose credentials file exists
    conf,          \* the configuration each file on disk was written from
    process,       \* the files each daemon's process was started with
    alive,         \* daemons with a process
    enabled,       \* daemons that start at boot
    job,           \* daemons that systemd has yet to restart, or to try again
    dropped,       \* history: daemons whose last job systemd gave up without running it
    cert,          \* kubelet's serving certificate: its cluster and whether it has expired
    swap,          \* active swap, swap lines in fstab, the other lines of fstab
    firewall,      \* the rules in force and the rules loaded at boot
    cmd,           \* the command: kind, node configuration, --skip
    pc,            \* its next step, "idle" when no command runs
    next,          \* the next validation, or the next file to write
    seen,          \* what the command has found out
    before,        \* conf when the command started
    result,        \* what the last command returned
    commands,      \* commands so far, for the bound MaxCommands
    faults         \* reboots, expiries and failed jobs so far, for the bound MaxFaults

provider == <<registered, agents, credentials>>
units == <<process, alive, enabled, job, dropped>>
aspects == <<swap, firewall>>
run == <<cmd, before, commands>>
vars == <<installed, provider, conf, units, cert, aspects, run, pc, next, seen, result, faults>>

Config == cmd.config
Skipped(phase) == phase \in cmd.skip
NoCert == [cluster |-> "none", expired |-> FALSE]

Steps == {"installed", "cni", "load", "configureAws", "agent", "credentials", "enrich", "validate",
          "sysctl", "swapOff", "truncate", "rewrite", "allowPorts", "flush", "daemons", "write",
          "authenticate", "run", "enableContainerd", "restartContainerd", "waitContainerd",
          "cacheImage", "enableKubelet", "restartKubelet", "waitKubelet"}

SeenType == [described : BOOLEAN,       \* DescribeCluster was called
             failed : BOOLEAN,          \* a check of Validate returned an error
             denied : BOOLEAN,          \* the API server refused the authenticated request
             busy : BOOLEAN,            \* kubelet ran, or was about to, when its certificate fitted
             mounts : BOOLEAN,          \* the fstab lines to write back
             authenticated : BOOLEAN]   \* the API server answered an authenticated request
NothingSeen == [described |-> FALSE, failed |-> FALSE, denied |-> FALSE, busy |-> FALSE,
                mounts |-> FALSE, authenticated |-> FALSE]

TypeOK ==
    /\ installed \in Providers \cup {"none"}
    /\ registered \in BOOLEAN /\ agents \subseteq Providers /\ credentials \subseteq Providers
    /\ conf \in [Files -> NodeConfigs \cup {NoConfig}]
    /\ process \in [Daemons -> [Files -> NodeConfigs \cup {NoConfig}]]
    /\ alive \subseteq Daemons /\ enabled \subseteq Daemons /\ job \subseteq Daemons
    /\ dropped \subseteq Daemons
    /\ cert \in [cluster : Clusters \cup {"none"}, expired : BOOLEAN]
    /\ swap \in SwapType /\ firewall \in FirewallType
    /\ cmd \in [kind : {"init", "upgrade"}, config : NodeConfigs, skip : SkipSets \cup {{}}]
    /\ pc \in Steps \cup {"idle"} /\ next \in 1..10
    /\ seen \in SeenType
    /\ before \in [Files -> NodeConfigs \cup {NoConfig}]
    /\ result \in {"none", "ok", "notInstalled", "error"}
    /\ commands \in 0..MaxCommands /\ faults \in 0..MaxFaults

Init ==
    /\ \E h \in Hosts : /\ installed = h.installed /\ swap = h.swap /\ firewall = h.firewall
                        /\ alive = IF h.containerd THEN {"containerd"} ELSE {}
    /\ registered = FALSE /\ agents = {} /\ credentials = {}
    /\ conf = [f \in Files |-> NoConfig]
    /\ process = [d \in Daemons |-> conf]
    /\ enabled = alive /\ job = {} /\ dropped = {}
    /\ cert = NoCert
    /\ \E c \in NodeConfigs : cmd = [kind |-> "init", config |-> c, skip |-> {}]
    /\ pc = "idle" /\ next = 1 /\ seen = NothingSeen /\ before = conf
    /\ result = "none" /\ commands = 0 /\ faults = 0

-----------------------------------------------------------------------------
(* Control                                                                 *)

Goto(step) == pc' = step /\ UNCHANGED result
Return(r) == pc' = "idle" /\ result' = r

\* The command line. Upgrade returns nil, too, when nothing is installed; its own
\* checks and the package upgrades are in NodePreflight and NodeComponents.
Start(kind, c, skip) ==
    /\ pc = "idle" /\ commands < MaxCommands
    /\ cmd' = [kind |-> kind, config |-> c, skip |-> skip]
    /\ IF kind = "init" THEN pc' = "installed" /\ result' = "none"
       ELSE IF installed = "none" THEN Return("notInstalled")
       ELSE pc' = "load" /\ result' = "none"
    /\ next' = 1 /\ seen' = NothingSeen /\ before' = conf
    /\ commands' = commands + 1
    /\ UNCHANGED <<installed, provider, conf, units, cert, aspects, faults>>

DeadlinePassedForDaemons ==  \* mutant: the wait for the credentials file has no deadline
    /\ pc \in {"waitContainerd", "waitKubelet"}
    /\ Return("error")
    /\ UNCHANGED <<installed, provider, conf, units, cert, aspects, run, next, seen, faults>>

\* The waits with a deadline of their own: two minutes for credentials, five for a
\* daemon's state. The command itself runs under a context without one.
DeadlinePassed ==
    /\ pc \in {"credentials", "waitContainerd", "waitKubelet"}
    /\ Return("error")
    /\ UNCHANGED <<installed, provider, conf, units, cert, aspects, run, next, seen, faults>>

\* Any call of a step returns an error, or the process is killed.
Fail ==
    /\ pc # "idle"
    /\ Return("error")
    /\ UNCHANGED <<installed, provider, conf, units, cert, aspects, run, next, seen, faults>>

\* Without a tracker init says so and returns nil. ValidateSystemdUnitFile only fails.
InstallValidation ==
    /\ pc = "installed"
    /\ IF ~Skipped("install-validation") /\ installed = "none"
       THEN Return("notInstalled") ELSE Goto("cni")
    /\ UNCHANGED <<installed, provider, conf, units, cert, aspects, run, next, seen, faults>>

\* firewall-cmd --reload puts the permanent rules in force and drops the others; ufw
\* has nothing to flush.
Flushed(fw) == IF fw.kind = "firewalld" THEN [fw EXCEPT !.runtime = fw.permanent] ELSE fw

CniValidationNoFlush ==  \* mutant: rules that a reload would drop count
    /\ pc = "cni"
    /\ IF \/ Skipped("cni-validation")
          \/ firewall.status = "off"
          \/ firewall.status = "on" /\ "cni" \in firewall.runtime
       THEN Goto("load") ELSE Return("error")
    /\ UNCHANGED <<installed, provider, conf, units, cert, aspects, run, next, seen, faults>>

\* validateFirewallOpenPorts: the rules are flushed before they are looked at; any
\* error on the way, also after the reload, is an error of the check.
CniValidation ==
    /\ pc = "cni"
    /\ firewall' = IF ~Skipped("cni-validation") /\ firewall.status = "on" THEN Flushed(firewall) ELSE firewall
    /\ IF \/ Skipped("cni-validation")
          \/ firewall.status = "off"
          \/ firewall.status = "on" /\ "cni" \in firewall'.runtime
       THEN Goto("load") \/ (firewall' # firewall /\ Return("error"))
       ELSE Return("error")
    /\ UNCHANGED <<installed, provider, conf, units, cert, swap, run, next, seen, faults>>

\* Upgrade's IsInitialized: the node's name, from kubelet's configuration, and a client
\* are needed to ask for the node.
IsInitialized == NoConfig \notin {conf["kubelet"], conf["kubeconfig"]}

\* NewNodeProvider, PopulateNodeConfigDefaults, ValidateConfig; only upgrade looks for
\* an earlier init and compares the provider with the installed one.
LoadConfig ==
    /\ pc = "load"
    /\ IF \/ cmd.kind = "upgrade" /\ ~Skipped("init-validation") /\ ~IsInitialized
          \/ cmd.kind = "upgrade" /\ installed # Config.provider
       THEN Return("error") ELSE Goto("configureAws")
    /\ UNCHANGED <<installed, provider, conf, units, cert, aspects, run, next, seen, faults>>

-----------------------------------------------------------------------------
(* ConfigureAws                                                            *)

\* registerMachine needs the agent's binary unless the machine is registered already.
\* WriteAWSConfig is all there is for IAM Roles Anywhere without a credentials file.
ConfigureAws ==
    /\ pc = "configureAws"
    /\ CASE Config.provider = "ssm" /\ (registered \/ installed = "ssm") ->
               registered' = TRUE /\ Goto("agent")
         [] Config.provider = "ssm" /\ ~registered /\ installed # "ssm" ->
               Return("error") /\ UNCHANGED registered
         [] OTHER -> Goto(IF Config.credentialsFile THEN "agent" ELSE "enrich") /\ UNCHANGED registered
    /\ UNCHANGED <<installed, agents, credentials, conf, units, cert, aspects, run, next, seen, faults>>

\* The ssm agent is awaited (DaemonManager); the signing helper is not, and does not
\* run without its binary.
StartAgent ==
    /\ pc = "agent"
    /\ agents' = IF installed = Config.provider THEN agents \cup {Config.provider} ELSE agents
    /\ IF Config.provider = "ssm" /\ Config.provider \notin agents' THEN Return("error") ELSE Goto("credentials")
    /\ UNCHANGED <<installed, registered, credentials, conf, units, cert, aspects, run, next, seen, faults>>

\* WaitForAWSConfig, waitForIAMRolesAnywhereCreds: until the file exists.
WaitForCredentials ==
    /\ pc = "credentials" /\ Config.provider \in credentials
    /\ Goto("enrich")
    /\ UNCHANGED <<installed, provider, conf, units, cert, aspects, run, next, seen, faults>>

-----------------------------------------------------------------------------
(* Enrich and Validate                                                     *)

\* The cluster is described, and cached for the checks, only when a detail is
\* missing. Upgrade goes on to the daemons.
Enrich ==
    /\ pc = "enrich"
    /\ seen' = [seen EXCEPT !.described = ~Config.complete]
    /\ Goto(IF cmd.kind = "init" THEN "validate" ELSE "daemons")
    /\ UNCHANGED <<installed, provider, conf, units, cert, aspects, run, next, faults>>

\* In the order in which Validate registers them.
Validations ==
    <<IF Config.provider = "ssm" THEN "ssm-api-network" ELSE "iam-ra-api-network",
      "aws-auth-validation", "node-ip-validation", "kubelet-cert-validation",
      "kubelet-version-skew-validation", "api-server-endpoint-resolution-validation",
      "proxy-validation", "node-inactive-validation", "cluster-access-validation">>

\* The certificate is of the configured cluster, or of no use.
CertFits == cert.cluster \in {"none", Config.cluster} \/ cert.expired

CertAcceptedWithoutCA == TRUE  \* mutant: the validator is made before Enrich has set the CA

\* A certificate's dates are checked before its CA, and date errors are ignored.
CertAccepted == cert.cluster = "none" \/ cert.expired \/ cert.cluster = Config.cluster

\* What each validation may return. AWS and the API server answer as they like.
ApiNetworkOutcomes == {"ok", "error"}
AwsAuthOutcomes == {"ok", "error"}
EndpointResolutionOutcomes == {"ok", "error"}
ProxyOutcomes == {"ok", "error"}
KubeletCertOutcomes == IF CertAccepted THEN {"ok"} ELSE {"error"}

\* Skipped when no cluster was described.
NodeIpOutcomes == IF seen.described THEN {"ok", "error"} ELSE {"ok"}
VersionSkewOutcomes == IF seen.described THEN {"ok", "error"} ELSE {"ok"}
ClusterAccessOutcomes == IF seen.described THEN {"ok", "error"} ELSE {"ok"}

\* A node that may be in use already, or whose state cannot be read, is no error.
NodeInactiveOutcomes ==
    IF conf["environment"] # NoConfig \/ "kubelet" \in alive THEN {"warning"} ELSE {"ok", "warning"}

Outcomes(v) ==
    CASE v = "aws-auth-validation" -> AwsAuthOutcomes
      [] v = "node-ip-validation" -> NodeIpOutcomes
      [] v = "kubelet-cert-validation" -> KubeletCertOutcomes
      [] v = "kubelet-version-skew-validation" -> VersionSkewOutcomes
      [] v = "api-server-endpoint-resolution-validation" -> EndpointResolutionOutcomes
      [] v = "proxy-validation" -> ProxyOutcomes
      [] v = "node-inactive-validation" -> NodeInactiveOutcomes
      [] v = "cluster-access-validation" -> ClusterAccessOutcomes
      [] OTHER -> ApiNetworkOutcomes

\* Sequentially runs every registered validation, after errors too; warnings are no
\* errors.
Validate ==
    /\ pc = "validate" /\ next \in DOMAIN Validations
    /\ LET v == Validations[next]
       IN  \E o \in IF Skipped(v) THEN {"ok"} ELSE Outcomes(v) :
              seen' = [seen EXCEPT
                         !.failed = @ \/ o = "error",
                         !.busy = @ \/ (v = "kubelet-cert-validation" /\ CertFits /\ "kubelet" \in alive \cup job)]
    /\ next' = next + 1
    /\ UNCHANGED <<installed, provider, conf, units, cert, aspects, run, pc, result, faults>>

ValidatedNoErrors ==  \* mutant: the aggregated error is only logged
    /\ pc = "validate" /\ next \notin DOMAIN Validations
    /\ Goto("sysctl")
    /\ UNCHANGED <<installed, provider, conf, units, cert, aspects, run, next, seen, faults>>

Validated ==
    /\ pc = "validate" /\ next \notin DOMAIN Validations
    /\ IF seen.failed THEN Return("error") ELSE Goto("sysctl")
    /\ UNCHANGED <<installed, provider, conf, units, cert, aspects, run, next, seen, faults>>

-----------------------------------------------------------------------------
(* System aspects: sysctl, swap, ports                                     *)

Sysctl ==
    /\ pc = "sysctl"
    /\ Goto("swapOff")
    /\ UNCHANGED <<installed, provider, conf, units, cert, aspects, run, next, seen, faults>>

\* Partition swap is refused: it would come back after a reboot. A swap file that is
\* in use and has been deleted is passed over with a warning.
SwapOff ==
    /\ pc = "swapOff"
    /\ IF swap.active = "partition" THEN Return("error") /\ UNCHANGED swap
       ELSE swap' = [swap EXCEPT !.active = IF @ = "deleted" THEN @ ELSE "off"] /\ Goto("truncate")
    /\ UNCHANGED <<installed, provider, conf, units, cert, firewall, run, next, seen, faults>>

\* disableSwapOnFstab rewrites the file in place, with an empty file in between.
TruncateFstab ==
    /\ pc = "truncate"
    /\ swap' = [swap EXCEPT !.fstab = FALSE, !.mounts = FALSE]
    /\ seen' = [seen EXCEPT !.mounts = swap.mounts]
    /\ Goto("rewrite")
    /\ UNCHANGED <<installed, provider, conf, units, cert, firewall, run, next, faults>>

RewriteFstab ==
    /\ pc = "rewrite"
    /\ swap' = [swap EXCEPT !.mounts = seen.mounts]
    /\ Goto("allowPorts")
    /\ UNCHANGED <<installed, provider, conf, units, cert, firewall, run, next, seen, faults>>

\* A firewall whose status cannot be read is left alone, like one that is off.
AllowPorts ==
    /\ pc = "allowPorts"
    /\ IF firewall.status = "on"
       THEN /\ firewall' = [firewall EXCEPT !.permanent = @ \cup {"node"},
                                            !.runtime = IF firewall.kind = "ufw" THEN @ \cup {"node"} ELSE @]
            /\ Goto("flush")
       ELSE Goto("daemons") /\ UNCHANGED firewall
    /\ UNCHANGED <<installed, provider, conf, units, cert, swap, run, next, seen, faults>>

FlushRulesNever ==  \* mutant: rules are added and not flushed
    /\ pc = "flush"
    /\ Goto("daemons")
    /\ UNCHANGED <<installed, provider, conf, units, cert, aspects, run, next, seen, faults>>

\* The rules in force are the new ones when making them permanent fails.
FlushRules ==
    /\ pc = "flush"
    /\ firewall' = Flushed(firewall)
    /\ Goto("daemons") \/ (firewall' # firewall /\ Return("error"))
    /\ UNCHANGED <<installed, provider, conf, units, cert, swap, run, next, seen, faults>>

-----------------------------------------------------------------------------
(* initDaemons                                                             *)

\* Hybrid nodes have nothing to preprocess.
InitDaemons ==
    /\ pc = "daemons"
    /\ next' = 1
    /\ Goto(IF Skipped("config") THEN "run" ELSE "write")
    /\ UNCHANGED <<installed, provider, conf, units, cert, aspects, run, seen, faults>>

WriteConfigOnce ==  \* mutant: kubeconfig is left as an earlier command wrote it
    /\ pc = "write" /\ next \in DOMAIN WriteOrder
    /\ LET f == WriteOrder[next]
       IN  conf' = IF \/ f = "dropin" /\ ~Config.dropin
                      \/ f = "kubeconfig" /\ conf[f] # NoConfig
                   THEN conf ELSE [conf EXCEPT ![f] = Config]
    /\ next' = next + 1
    /\ UNCHANGED <<installed, provider, units, cert, aspects, run, pc, seen, result, faults>>

\* A configuration without a containerd drop-in leaves the drop-in that is there.
WriteConfig ==
    /\ pc = "write" /\ next \in DOMAIN WriteOrder
    /\ LET f == WriteOrder[next]
       IN  conf' = IF f = "dropin" /\ ~Config.dropin THEN conf ELSE [conf EXCEPT ![f] = Config]
    /\ next' = next + 1
    /\ UNCHANGED <<installed, provider, units, cert, aspects, run, pc, seen, result, faults>>

Configured ==
    /\ pc = "write" /\ next \notin DOMAIN WriteOrder
    /\ Goto("authenticate")
    /\ UNCHANGED <<installed, provider, conf, units, cert, aspects, run, next, seen, faults>>

\* kubelet's Configure has a runner for this check only when the skip list is not nil.
\* Its error ends the command, with every file written.
Authenticate ==
    /\ pc = "authenticate"
    /\ IF cmd.skip = {} \/ Skipped("k8s-authentication-validation")
       THEN Goto("run") /\ UNCHANGED seen
       ELSE \/ seen' = [seen EXCEPT !.authenticated = TRUE] /\ Goto("run")
            \/ seen' = [seen EXCEPT !.denied = TRUE] /\ Return("error")
    /\ UNCHANGED <<installed, provider, conf, units, cert, aspects, run, next, faults>>

RunDaemons ==
    /\ pc = "run"
    /\ IF Skipped("run") THEN Return("ok") ELSE Goto("enableContainerd")
    /\ UNCHANGED <<installed, provider, conf, units, cert, aspects, run, next, seen, faults>>

EnableStep(d) == IF d = "containerd" THEN "enableContainerd" ELSE "enableKubelet"
RestartStep(d) == IF d = "containerd" THEN "restartContainerd" ELSE "restartKubelet"
WaitStep(d) == IF d = "containerd" THEN "waitContainerd" ELSE "waitKubelet"

EnableDaemon(d) ==
    /\ pc = EnableStep(d)
    /\ enabled' = enabled \cup {d}
    /\ Goto(RestartStep(d))
    /\ UNCHANGED <<installed, provider, conf, process, alive, job, dropped, cert, aspects, run, next, seen, faults>>

\* The job is enqueued; nobody waits for its end.
RestartDaemon(d) ==
    /\ pc = RestartStep(d)
    /\ job' = job \cup {d} /\ dropped' = dropped \ {d}
    /\ Goto(WaitStep(d))
    /\ UNCHANGED <<installed, provider, conf, process, alive, enabled, cert, aspects, run, next, seen, faults>>

\* WaitForStatus takes any process for the one it waits for, also the old one.
\* After containerd is up its sandbox image is pulled; kubelet is the last.
WaitForStatus(d) ==
    /\ pc = WaitStep(d) /\ d \in alive
    /\ IF d = "containerd" THEN Goto("cacheImage") ELSE Return("ok")
    /\ UNCHANGED <<installed, provider, conf, units, cert, aspects, run, next, seen, faults>>

CacheSandboxImage ==
    /\ pc = "cacheImage"
    /\ Goto("enableKubelet")
    /\ UNCHANGED <<installed, provider, conf, units, cert, aspects, run, next, seen, faults>>

\* What a command does by itself; calls that return an error come on top.
Progress ==
    \/ InstallValidation \/ CniValidation \/ LoadConfig
    \/ ConfigureAws \/ StartAgent \/ WaitForCredentials
    \/ Enrich \/ Validate \/ Validated
    \/ Sysctl \/ SwapOff \/ TruncateFstab \/ RewriteFstab \/ AllowPorts \/ FlushRules
    \/ InitDaemons \/ WriteConfig \/ Configured \/ Authenticate
    \/ RunDaemons \/ \E d \in Daemons : EnableDaemon(d) \/ RestartDaemon(d) \/ WaitForStatus(d)
    \/ CacheSandboxImage \/ DeadlinePassed

Command == Progress \/ Fail

-----------------------------------------------------------------------------
(* The host: agents, systemd, kubelet, reboots                             *)

WriteCredentials(p) ==
    /\ p \in agents \ credentials
    /\ credentials' = credentials \cup {p}
    /\ UNCHANGED <<installed, registered, agents, conf, units, cert, aspects, run, pc, next, seen, result, faults>>

\* A process reads its files when it starts.
ReadBy(d) == [f \in Files |-> IF f \in FilesOf(d) THEN conf[f] ELSE NoConfig]

\* kubelet.service requires containerd.service: kubelet goes down with containerd and
\* is started after it.
Dependents(d) == IF d = "containerd" THEN {"kubelet"} ELSE {}

Fault == faults < MaxFaults /\ faults' = faults + 1

RunJob(d) ==
    /\ d \in job
    /\ job' = (job \ {d}) \cup (Dependents(d) \cap alive)
    /\ alive' = (alive \ Dependents(d)) \cup {d}
    /\ process' = [process EXCEPT ![d] = ReadBy(d)]
    /\ UNCHANGED <<installed, provider, conf, enabled, dropped, cert, aspects, run, pc, next, seen, result, faults>>

\* The old process is gone and the new one does not come up; systemd tries again
\* (Restart=on-failure) or has tried often enough.
JobFails(d) ==
    /\ d \in job
    /\ Fault
    /\ job' \in {job \ Dependents(d), job \ ({d} \cup Dependents(d))}
    /\ alive' = alive \ ({d} \cup Dependents(d))
    /\ UNCHANGED <<installed, provider, conf, process, enabled, dropped, cert, aspects, run, pc, next, seen, result>>

\* The job is given up before it touched a process ("dependency", "skipped"), which a
\* command that only polls the unit never hears of.
JobDropped(d) ==
    /\ d \in job
    /\ Fault
    /\ job' = job \ {d} /\ dropped' = dropped \cup {d}
    /\ UNCHANGED <<installed, provider, conf, process, alive, enabled, cert, aspects, run, pc, next, seen, result>>

\* kubelet has a serving certificate signed by the cluster it can talk to, that is,
\* with a kubeconfig and a CA of the same cluster.
IssueCertificate ==
    /\ "kubelet" \in alive
    /\ cert.cluster = "none" \/ cert.expired
    /\ LET files == process["kubelet"]
       IN  /\ NoConfig \notin {files["kubeconfig"], files["ca"]}
           /\ files["kubeconfig"].cluster = files["ca"].cluster
           /\ cert' = [cluster |-> files["ca"].cluster, expired |-> FALSE]
    /\ UNCHANGED <<installed, provider, conf, units, aspects, run, pc, next, seen, result, faults>>

ExpireCertificate ==
    /\ Fault
    /\ cert.cluster # "none" /\ ~cert.expired
    /\ cert' = [cert EXCEPT !.expired = TRUE]
    /\ UNCHANGED <<installed, provider, conf, units, aspects, run, pc, next, seen, result>>

\* Enabled daemons start with what is on disk, and so do swap and the firewall; a
\* command that runs is over.
Reboot ==
    /\ Fault
    /\ IF pc = "idle" THEN UNCHANGED <<pc, result>> ELSE Return("error")
    /\ alive' = enabled /\ job' = {} /\ dropped' = {}
    /\ process' = [d \in Daemons |-> IF d \in enabled THEN ReadBy(d) ELSE process[d]]
    /\ swap' = [swap EXCEPT !.active = IF swap.active = "partition" THEN "partition"
                                       ELSE IF swap.fstab /\ swap.active # "deleted" THEN "file" ELSE "off"]
    /\ firewall' = [firewall EXCEPT !.runtime = firewall.permanent]
    /\ UNCHANGED <<installed, provider, conf, enabled, cert, run, next, seen>>

Host ==
    \/ \E p \in Providers : WriteCredentials(p)
    \/ \E d \in Daemons : RunJob(d) \/ JobFails(d) \/ JobDropped(d)
    \/ IssueCertificate \/ ExpireCertificate \/ Reboot

Next ==
    \/ \E kind \in {"init", "upgrade"}, c \in NodeConfigs, skip \in SkipSets : Start(kind, c, skip)
    \/ Command
    \/ Host

Spec == Init /\ [][Next]_vars

\* A command takes its next step, if only because the deadline of a wait has passed:
\* calls that have no deadline are assumed to return. No step is assumed to fail.
FairSpec == Spec /\ WF_vars(Progress)

-----------------------------------------------------------------------------
(* Properties                                                              *)

\* Every file that configuration c has is on disk as c made it.
Written(c) ==
    /\ \A f \in Files \ {"dropin"} : conf[f] = c
    /\ c.dropin => conf["dropin"] = c

\* Daemon d, if it runs, runs with the files on disk, or will once systemd gets to its
\* job, unless systemd has given that up.
UpToDate(d) == d \in job \cup dropped \/ (d \in alive => process[d] = ReadBy(d))

\* A command that returned nil has configured both daemons (unless told to skip it)
\* and left none of them on the files of an earlier command, whatever earlier
\* commands, reboots and failures half-way left behind; reboots and starts that fail
\* after the poll saw the old process keep it so. The one way out is a restart job that
\* systemd drops: nobody waits for its result.
OkMeansConfigured ==
    result = "ok" =>
        /\ ~Skipped("config") => Written(Config)
        /\ ~Skipped("run") => \A d \in Daemons : d \in enabled /\ UpToDate(d)

\* A node that one of the checks of Validate refuses keeps its daemons' files: they
\* come before initDaemons, and one error among many results is enough. That is not so
\* for the check that kubelet's Configure makes, k8s-authentication-validation: a node
\* that the API server refuses keeps the new files, all of them, and its daemons go
\* over to them at the next reboot.
RefusedIsNotConfigured ==
    /\ seen.failed => conf = before
    /\ seen.denied => Written(Config) /\ result = "error"

\* The check of kubelet's serving certificate counts: it was not skipped, the files
\* are written after it, and it did not pass with a kubelet running, or about to,
\* which may obtain another certificate after the check.
CertChecked ==
    /\ cmd.kind = "init" /\ ~seen.busy
    /\ ~Skipped("kubelet-cert-validation") /\ ~Skipped("config")

\* kubelet is not brought up for one cluster with the serving certificate of another:
\* one that is there at the check stops the command, and none is issued from then on
\* but by the restarted kubelet, for the new cluster, whenever the host reboots.
ForeignCertRefused == CertChecked /\ (pc = "waitKubelet" \/ result = "ok") => CertFits

\* After an init that returned nil swap is off (but for a deleted file, up to the next
\* reboot) and the node's ports are open, with
\* the vxlan port the check found, and a reboot changes none of that.
HostStaysPrepared ==
    (result = "ok" /\ cmd.kind = "init") =>
        /\ swap.active \in {"off", "deleted"} /\ ~swap.fstab
        /\ firewall.status = "on" =>
            /\ "node" \in firewall.runtime \cap firewall.permanent
            /\ ~Skipped("cni-validation") => "cni" \in firewall.runtime \cap firewall.permanent

\* "k8s-authentication-validation" is a phase that can be skipped: an init that did
\* not skip it has made an authenticated request to the API server.
AuthenticatedUnlessSkipped ==
    (result = "ok" /\ cmd.kind = "init" /\ ~Skipped("config")
     /\ ~Skipped("k8s-authentication-validation"))
        => seen.authenticated

\* Every command returns, though nothing fails and agents and daemons never come up:
\* what it polls for (credentials, the daemons' state), it polls for with a deadline.
CommandReturns == pc # "idle" ~> pc = "idle"

-----------------------------------------------------------------------------
(* The inductive invariant                                                 *)

RunSteps == {"run", "enableContainerd", "restartContainerd", "waitContainerd", "cacheImage",
             "enableKubelet", "restartKubelet", "waitKubelet"}
DaemonSteps == {"daemons", "write", "authenticate"} \cup RunSteps
BeforeWrite == Steps \ (DaemonSteps \ {"daemons"})

\* At the steps of its list the command has got this far.
ConfigInv ==
    /\ pc # "idle" => result = "none"
    /\ pc \in BeforeWrite => conf = before
    /\ seen.failed => conf = before /\ pc \in {"validate", "idle"} /\ result # "ok"
    /\ seen.denied => Written(Config) /\ pc = "idle" /\ result = "error"
    /\ pc \in {"write", "authenticate"} => ~Skipped("config")
    /\ pc = "write" =>
          \A i \in 1..7 : i < next /\ (i = 2 => Config.dropin) => conf[WriteOrder[i]] = Config
    /\ (pc \in {"authenticate"} \cup RunSteps /\ ~Skipped("config")) => Written(Config)

RunInv ==
    /\ pc = "restartContainerd" => "containerd" \in enabled
    /\ pc \in {"waitContainerd", "cacheImage", "enableKubelet", "restartKubelet", "waitKubelet"} =>
          "containerd" \in enabled /\ UpToDate("containerd")
    /\ pc = "restartKubelet" => "kubelet" \in enabled
    /\ pc = "waitKubelet" => "kubelet" \in enabled /\ UpToDate("kubelet")

HostInv ==
    /\ firewall.kind = "ufw" => firewall.runtime = firewall.permanent
    /\ cmd.kind = "init" =>
        /\ pc \in {"truncate", "rewrite", "allowPorts", "flush"} \cup DaemonSteps =>
              swap.active \in {"off", "deleted"}
        /\ pc \in {"rewrite", "allowPorts", "flush"} \cup DaemonSteps => ~swap.fstab
        /\ firewall.status = "on" =>
            /\ pc \in Steps \ {"installed", "cni"} /\ ~Skipped("cni-validation") =>
                  "cni" \in firewall.runtime \cap firewall.permanent
            /\ pc = "flush" => "node" \in firewall.permanent
            /\ pc \in DaemonSteps => "node" \in firewall.runtime \cap firewall.permanent
    /\ cmd.kind = "upgrade" => pc \notin {"installed", "cni", "validate", "sysctl", "swapOff", "truncate",
                                         "rewrite", "allowPorts", "flush"}

\* From the check of the certificate on. kubelet has no process, then, if it is
\* restarted or the host rebooted, one of the configured cluster.
CertInv ==
    /\ pc \in {"installed", "cni", "load", "configureAws", "agent", "credentials", "enrich"} => next = 1
    /\ CertChecked =>
        /\ \/ pc = "validate" /\ next > 4
           \/ pc \in {"sysctl", "swapOff", "truncate", "rewrite", "allowPorts", "flush"} \cup DaemonSteps
           => seen.failed \/ (CertFits /\ (pc # "waitKubelet" => "kubelet" \notin alive \cup job))
        /\ pc = "waitKubelet" \/ result = "ok" =>
              CertFits /\ ("kubelet" \in alive => process["kubelet"] = ReadBy("kubelet"))

\* What the properties rest on: how far a command has got at each step, with what
\* the host does meanwhile.
InitInv ==
    /\ TypeOK
    /\ ConfigInv /\ RunInv /\ HostInv /\ CertInv
    /\ OkMeansConfigured /\ HostStaysPrepared
=============================================================================
