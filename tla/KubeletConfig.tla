--------------------------- MODULE KubeletConfig ---------------------------
(***************************************************************************)
(* internal/kubelet: how nodeadm init configures the kubelet. Configure    *)
(* writes six files one after the other (configuration, drop-in of the     *)
(* user's settings, kubeconfig, image credential provider, CA certificate, *)
(* environment with the flags) and EnsureRunning asks systemd for a        *)
(* restart and polls the unit; the layout depends on the installed         *)
(* kubelet, files of earlier commands are still there, a command may end   *)
(* between any two of them, and systemd runs the restart, or starts a      *)
(* kubelet that failed, whenever it likes. The node's name is read back    *)
(* from the configuration by the commands that follow.                     *)
(***************************************************************************)
EXTENDS Integers, Sequences, FiniteSets

CONSTANTS
    Configs,     \* node configurations a user may give
    Hosts,       \* hosts: what sysfs shows of their CPUs, and their memory in MiB
    MaxPods,     \* eni-max-pods.txt: pods per instance type
    Enis,        \* what EC2 says of types: interfaces, and addresses for each
    MaxRuns,     \* bound: init commands
    None         \* no setting, no flag, no configuration

Settings == {"providerID", "clusterDNS", "kubeReserved", "maxPods", "resolvConf", "protectKernelDefaults"}
FlagNames == {"config", "config-dir", "cloud-provider", "hostname-override", "node-labels", "node-ip",
              "pod-infra-container-image", "kubeconfig", "bootstrap-kubeconfig",
              "image-credential-provider-config"}
Files == {"config", "drop-in", "kubeconfig", "bootstrap-kubeconfig", "image-credential", "ca", "environment"}
Steps == {"config", "drop-in", "kubeconfig", "image-credential", "ca", "environment", "validate", "restart",
          "wait"}

\* The installed kubelet: v1.28 is the first that knows --config-dir, and nodeadm makes
\* use of it from v1.29.0 on.
Versions == {"v1.27", "v1.28", "v1.29"}
UsesDir(ver) == ver = "v1.29"
KnowsDir(ver) == ver # "v1.27"

Hybrid(cfg) == cfg.kind \in {"ssm", "iam-ra"}

ASSUME KubeletConfigAssumption ==
    /\ \A cfg \in Configs :
          /\ cfg.kind \in {"ssm", "iam-ra", "ec2", "outpost"}
          /\ DOMAIN cfg.user = Settings
    /\ None \notin Configs /\ None \notin FlagNames \cup {"config.json", "config.json.d"}
    /\ \A h \in Hosts : h.memory \in Nat /\ IsFiniteSet(h.topology.cpus)
    /\ MaxRuns \in Nat

VARIABLES
    kver,     \* the version of the installed kubelet
    host,     \* its resources
    site,     \* what the host is: "hybrid", "ec2" or "outpost"
    file,     \* the files
    cmd,      \* the init command
    running,  \* the kubelet, and what it was started with
    job,      \* a restart of the unit is queued
    dropped,  \* systemd dropped the last one, and nothing was started since
    whole,    \* the configuration of which an init wrote all files up to the environment
    settled   \* the configuration of the last init if it succeeded, else None

machine == <<host, site>>
unit == <<running, job, dropped>>
vars == <<kver, machine, file, cmd, unit, whole, settled>>

-----------------------------------------------------------------------------
(* Resources to reserve                                                    *)

\* isCpuOnline and IsCPUOnline: the ranges are read until one has the CPU; an invalid
\* one before it is an error, which counts as offline. None: there is no such file.
IsCPUOnline(ranges, id) ==
    \/ ranges = None
    \/ \E i \in DOMAIN ranges :
          /\ ranges[i][1] <= id % 65536 /\ id % 65536 <= ranges[i][2]
          /\ \A j \in 1..i : ranges[j][1] <= ranges[j][2]

\* GetMilliNumCores with getCoresInfo: the logical CPUs of the NUMA nodes that are
\* online and have a core and a package, -1 for its error; without nodes, all CPUs.
GetMilliNumCores(t) ==
    LET online == {c \in t.cpus : IsCPUOnline(t.online, c.id)} IN
    IF ~t.nodes THEN IF t.cpus = {} THEN -1 ELSE 1000 * Cardinality(t.cpus)
    ELSE IF \E c \in online : c.ids = "garbled" THEN -1
    ELSE 1000 * Cardinality({c \in online : c.ids = "there"})

InRangeUnclipped(total, start, end, percentage) ==  \* mutant: beyond the end of the range
    IF total <= start THEN 0 ELSE ((total - start) * percentage) \div 10000

\* getResourceToReserveInRange.
InRange(total, start, end, percentage) ==
    IF total <= start THEN 0
    ELSE (((IF total > end THEN end ELSE total) - start) * percentage) \div 10000

\* getCPUMillicoresToReserve.
CPUMillicoresToReserve(total) ==
    IF total < 0 THEN 0
    ELSE InRange(total, 0, 1000, 600) + InRange(total, 1000, 2000, 100)
           + InRange(total, 2000, 4000, 50) + InRange(total, 4000, total, 25)

\* withHybridReservedResources, the switch: hundredths of a GiB for whole GiBs.
MemoryHundredths(gib) ==
    CASE gib < 4 -> 25 * gib
      [] gib >= 4 /\ gib < 8 -> 100 + 20 * (gib - 4)
      [] gib >= 8 /\ gib < 16 -> 180 + 10 * (gib - 8)
      [] gib >= 16 /\ gib <= 128 -> 260 + 6 * (gib - 16)
      [] OTHER -> 932 + 2 * (gib - 128)

\* math.Round on what is never negative, exact for these sums.
Round(hundredths) == (hundredths + 50) \div 100

\* The MiB reserved: 255Mi or a number of Gi.
HybridMemoryToReserve(mib) ==
    LET gib == mib \div 1024 IN IF gib < 1 THEN 255 ELSE 1024 * Round(MemoryHundredths(gib))

\* getMemoryMebibytesToReserve.
MemoryMebibytesToReserve(pods) == 11 * pods + 255

\* MaxPodsPerInstanceType, and CalcMaxPods for a type the table has not.
MaxPodsOf(type) ==
    IF type \in DOMAIN MaxPods THEN MaxPods[type]
    ELSE IF type \in DOMAIN Enis THEN Enis[type].count * (Enis[type].pods - 1) + 2
    ELSE 110

\* withDefaultReservedResources, withHybridReservedResources.
Reserved(cfg) ==
    [cpu |-> CPUMillicoresToReserve(GetMilliNumCores(host.topology)),
     memory |-> IF Hybrid(cfg) THEN HybridMemoryToReserve(host.memory)
                ELSE MemoryMebibytesToReserve(MaxPodsOf(cfg.instance))]

-----------------------------------------------------------------------------
(* The contents of the files                                               *)

ProviderIdSwapped(cfg) ==  \* mutant: name and cluster in the wrong order
    IF Hybrid(cfg) THEN <<"eks-hybrid", cfg.name, cfg.cluster>> ELSE <<"aws", cfg.name>>

\* getHybridProviderId and getProviderId.
ProviderId(cfg) ==
    IF Hybrid(cfg) THEN <<"eks-hybrid", cfg.cluster, cfg.name>> ELSE <<"aws", cfg.name>>

\* GetClusterDns: the last number of an IPv4 network is replaced, one is appended to
\* the text of an IPv6 one.
ClusterDns(cidr) == [cidr EXCEPT !.last = IF cidr.family = "ipv4" THEN 10 ELSE 16 * @ + 10]

\* defaultKubeletSubConfig; one of its settings stands for those that never vary.
DefaultKubeletSubConfig == [s \in Settings |-> IF s = "protectKernelDefaults" THEN "default" ELSE None]

\* GenerateKubeletConfig, the configuration.
GenerateKubeletConfig(cfg) ==
    [DefaultKubeletSubConfig EXCEPT
        !["providerID"] = ProviderId(cfg),
        !["clusterDNS"] = ClusterDns(cfg.cidr),
        !["kubeReserved"] = Reserved(cfg),
        !["maxPods"] = IF Hybrid(cfg) THEN None ELSE MaxPodsOf(cfg.instance),
        !["resolvConf"] = IF Hybrid(cfg) /\ cfg.ubuntu THEN "systemd-resolved" ELSE None]

\* DocumentMerge with mergo.WithOverride, and what the kubelet does with a drop-in.
Merge(config, user) == [s \in Settings |-> IF user[s] # None THEN user[s] ELSE config[s]]
HasUserConfig(cfg) == \E s \in Settings : cfg.user[s] # None

ConfigFlagsDir(cfg, ver) ==  \* mutant: the drop-in directory for every new kubelet
    [f \in FlagNames |->
        CASE f = "config" -> "config.json"
          [] f = "config-dir" -> IF UsesDir(ver) THEN "config.json.d" ELSE None
          [] f = "hostname-override" -> cfg.name
          [] f = "node-labels" -> IF Hybrid(cfg) THEN cfg.kind ELSE None
          [] OTHER -> None]

\* getNodeIp: the instance metadata of the cluster's IP family.
NodeIp(cfg) == <<"instance metadata", cfg.cidr.family>>

\* The flags of GenerateKubeletConfig and of the file's path.
ConfigFlags(cfg, ver) ==
    [f \in FlagNames |->
        CASE f = "config" -> "config.json"
          [] f = "cloud-provider" -> IF Hybrid(cfg) THEN "" ELSE "external"
          [] f = "hostname-override" -> cfg.name
          [] f = "node-labels" -> IF Hybrid(cfg) THEN cfg.kind ELSE None
          [] f = "node-ip" -> IF Hybrid(cfg) THEN None ELSE NodeIp(cfg)
          [] f = "pod-infra-container-image" -> IF UsesDir(ver) THEN None ELSE "sandbox image"
          [] OTHER -> None]

ConfigFile(cfg, ver) ==
    IF UsesDir(ver) THEN GenerateKubeletConfig(cfg) ELSE Merge(GenerateKubeletConfig(cfg), cfg.user)
HasDropIn(cfg, ver) == UsesDir(ver) /\ HasUserConfig(cfg)

\* generateKubeconfig and generateImageCredentialProviderConfig.
Kubeconfig(cfg) == [kind |-> cfg.kind, cluster |-> cfg.cluster]
KubeconfigFile(cfg) == IF cfg.kind = "outpost" THEN "bootstrap-kubeconfig" ELSE "kubeconfig"
ImageCredential(cfg) == [kind |-> cfg.kind, profile |-> cfg.profile]

\* writeKubeletEnvironment: the user's flags come last.
Environment(flags, cfg) == [flags |-> flags, user |-> cfg.flags]

-----------------------------------------------------------------------------
(* What the kubelet makes of them                                          *)

\* A file is missing, cut off, or there with its content.
Missing == [state |-> "missing", content |-> None]
Torn == [state |-> "torn", content |-> None]
Written(content) == [state |-> "written", content |-> content]

\* pflag: the last value of a flag counts, in either form, --name=value or --name value;
\* labels add up.
LastValue(user, name) ==
    LET at == {i \in DOMAIN user : user[i].name = name} IN
    IF at = {} THEN None ELSE user[CHOOSE i \in at : \A j \in at : j <= i].value

NodeLabels(labels, user) ==
    ({labels} \ {None}) \cup {user[i].value : i \in {j \in DOMAIN user : user[j].name = "node-labels"}}

\* kubelet.service: flags of its own come before those of the environment file.
UnitFlag(name) ==
    CASE name = "config" -> "config.json" [] name = "kubeconfig" -> "kubeconfig" [] OTHER -> None
FlagValue(env, name) ==
    CASE LastValue(env.user, name) # None -> LastValue(env.user, name)
      [] LastValue(env.user, name) = None /\ env.flags[name] # None -> env.flags[name]
      [] OTHER -> UnitFlag(name)

\* A file of the user's own to which a flag of theirs points, and what it says.
OwnSettings(path) == [s \in Settings |-> path]
OwnFile(path) == Written([kind |-> "user's own", path |-> path])

Readable(f) == file[f].state = "written"
EnvironmentFile == file["environment"].content
Flag(name) == FlagValue(EnvironmentFile, name)

\* The configuration file and, over it, the drop-in directory.
EffectiveConfig ==
    LET base == IF Flag("config") = "config.json" THEN file["config"].content
                ELSE OwnSettings(Flag("config"))
    IN CASE Flag("config-dir") = None -> base
         [] Flag("config-dir") = "config.json.d" -> Merge(base, file["drop-in"].content)
         [] OTHER -> OwnSettings(Flag("config-dir"))

\* withOutpostSetup: the bootstrap kubeconfig gets the kubelet a client certificate and a
\* kubeconfig with it; while there is one already, it is not used.
ClientOf(cluster) == Written([kind |-> "client certificate", cluster |-> cluster])
EffectiveKubeconfig ==
    LET boot == Flag("bootstrap-kubeconfig") IN
    CASE Flag("kubeconfig") # "kubeconfig" -> OwnFile(Flag("kubeconfig"))
      [] Flag("kubeconfig") = "kubeconfig" /\ boot \notin {None, "bootstrap-kubeconfig"} -> OwnFile(boot)
      [] Flag("kubeconfig") = "kubeconfig" /\ boot = "bootstrap-kubeconfig" /\ ~Readable("kubeconfig") ->
             IF Readable("bootstrap-kubeconfig") THEN ClientOf(file["bootstrap-kubeconfig"].content.cluster)
             ELSE Missing
      [] OTHER -> file["kubeconfig"]

EffectiveCredential ==
    IF Flag("image-credential-provider-config") = "config.json" THEN file["image-credential"]
    ELSE OwnFile(Flag("image-credential-provider-config"))

\* The installed kubelet exits when it does not know a flag or cannot read a file.
CanStart ==
    /\ Readable("environment")
    /\ Flag("config") = "config.json" => Readable("config")
    /\ Flag("config-dir") = "config.json.d" => Readable("drop-in")
    /\ Flag("config-dir") # None => KnowsDir(kver)

\* What a kubelet that is started now works with.
View ==
    IF CanStart
    THEN [state |-> "works", config |-> EffectiveConfig,
          name |-> Flag("hostname-override"),
          labels |-> NodeLabels(EnvironmentFile.flags["node-labels"], EnvironmentFile.user),
          kubeconfig |-> EffectiveKubeconfig,
          credential |-> EffectiveCredential,
          ca |-> file["ca"]]
    ELSE [state |-> "exits"]
Stopped == [state |-> "stopped"]
Works(process) == process.state = "works"

\* GetNodeName: the name in the provider ID of a hybrid node's configuration file.
GetNodeName ==
    IF Readable("config") /\ file["config"].content["providerID"][1] = "eks-hybrid"
    THEN file["config"].content["providerID"][3] ELSE None

-----------------------------------------------------------------------------
NoCmd == [pc |-> "idle", cfg |-> None, ver |-> None, flags |-> None, runs |-> 0]

Init ==
    /\ kver \in Versions /\ host \in Hosts /\ site \in {"hybrid", "ec2", "outpost"}
    /\ file = [f \in Files |-> Missing]
    /\ cmd = NoCmd /\ running = Stopped /\ job = FALSE /\ dropped = FALSE
    /\ whole = None /\ settled = None

\* extractFlagValue of the validators: only the form --name=value is looked for.
ExtractFlagValue(user, name) ==
    LastValue(SelectSeq(user, LAMBDA u : u.joined), name)

Site(cfg) == IF Hybrid(cfg) THEN "hybrid" ELSE cfg.kind

\* nodeadm init, up to Configure: the validators have accepted the configuration.
StartInit(cfg) ==
    /\ cmd.pc = "idle" /\ cmd.runs < MaxRuns /\ Site(cfg) = site
    /\ Hybrid(cfg) => ExtractFlagValue(cfg.flags, "hostname-override") = None
    /\ cmd' = [cmd EXCEPT !.pc = "config", !.cfg = cfg, !.ver = kver, !.runs = @ + 1,
                          !.flags = [f \in FlagNames |-> None]]
    /\ settled' = None
    /\ UNCHANGED <<kver, machine, file, unit, whole>>

\* writeKubeletConfigToFile, or ToDir as far as its first file.
WriteKubeletConfig ==
    /\ cmd.pc = "config"
    /\ file' = [file EXCEPT !["config"] = Written(ConfigFile(cmd.cfg, cmd.ver))]
    /\ cmd' = [cmd EXCEPT !.flags = ConfigFlags(cmd.cfg, cmd.ver),
                          !.pc = IF HasDropIn(cmd.cfg, cmd.ver) THEN "drop-in" ELSE "kubeconfig"]
    /\ whole' = None
    /\ UNCHANGED <<kver, machine, unit, settled>>

\* writeKubeletConfigToDir: the user's settings, and the flag for the directory.
WriteDropIn ==
    /\ cmd.pc = "drop-in"
    /\ file' = [file EXCEPT !["drop-in"] = Written(cmd.cfg.user)]
    /\ cmd' = [cmd EXCEPT !.flags["config-dir"] = "config.json.d", !.pc = "kubeconfig"]
    /\ UNCHANGED <<kver, machine, unit, whole, settled>>

WriteKubeconfig ==
    /\ cmd.pc = "kubeconfig"
    /\ LET f == KubeconfigFile(cmd.cfg) IN
       /\ file' = [file EXCEPT ![f] = Written(Kubeconfig(cmd.cfg))]
       /\ cmd' = [cmd EXCEPT !.flags[f] = f, !.pc = "image-credential"]
    /\ UNCHANGED <<kver, machine, unit, whole, settled>>

WriteImageCredentialProviderConfig ==
    /\ cmd.pc = "image-credential"
    /\ file' = [file EXCEPT !["image-credential"] = Written(ImageCredential(cmd.cfg))]
    /\ cmd' = [cmd EXCEPT !.flags["image-credential-provider-config"] = "config.json", !.pc = "ca"]
    /\ UNCHANGED <<kver, machine, unit, whole, settled>>

WriteClusterCaCert ==
    /\ cmd.pc = "ca"
    /\ file' = [file EXCEPT !["ca"] = Written(cmd.cfg.cluster)]
    /\ cmd' = [cmd EXCEPT !.pc = "environment"]
    /\ UNCHANGED <<kver, machine, unit, whole, settled>>

WriteKubeletEnvironment ==
    /\ cmd.pc = "environment"
    /\ file' = [file EXCEPT !["environment"] = Written(Environment(cmd.flags, cmd.cfg))]
    /\ cmd' = [cmd EXCEPT !.pc = IF Hybrid(cmd.cfg) THEN "validate" ELSE "restart"]
    /\ whole' = cmd.cfg
    /\ UNCHANGED <<kver, machine, unit, settled>>

\* MakeAuthenticatedRequest with the kubeconfig that was just written.
ValidateAuthentication ==
    /\ cmd.pc = "validate"
    /\ cmd' = [cmd EXCEPT !.pc = "restart"]
    /\ UNCHANGED <<kver, machine, file, unit, whole, settled>>

RestartDaemonIfStopped ==  \* mutant: a start, which is nothing to a unit that runs
    /\ cmd.pc = "restart"
    /\ cmd' = [cmd EXCEPT !.pc = "wait"]
    /\ job' = (running = Stopped) /\ dropped' = FALSE
    /\ UNCHANGED <<kver, machine, file, running, whole, settled>>

\* EnsureRunning: the restart is queued,
RestartDaemon ==
    /\ cmd.pc = "restart"
    /\ cmd' = [cmd EXCEPT !.pc = "wait"]
    /\ job' = TRUE /\ dropped' = FALSE
    /\ UNCHANGED <<kver, machine, file, running, whole, settled>>

EndInit == cmd' = [NoCmd EXCEPT !.runs = cmd.runs]

\* and the unit is polled: any process of it will do, one from before the restart and one
\* that is about to exit.
WaitForStatus ==
    /\ cmd.pc = "wait" /\ running # Stopped
    /\ settled' = cmd.cfg
    /\ EndInit
    /\ UNCHANGED <<kver, machine, file, unit, whole>>

\* An error of any step, or a kill, which may cut off the file being written.
FileOfStep ==
    CASE cmd.pc = "kubeconfig" -> {KubeconfigFile(cmd.cfg)}
      [] cmd.pc \in {"config", "drop-in", "image-credential", "ca", "environment"} -> {cmd.pc}
      [] OTHER -> {}
InitEndsEarly ==
    /\ cmd.pc # "idle"
    /\ \E torn \in SUBSET FileOfStep :
           file' = [f \in Files |-> IF f \in torn THEN Torn ELSE file[f]]
    /\ EndInit
    /\ UNCHANGED <<kver, machine, unit, whole, settled>>

Start == running' = View /\ dropped' = FALSE

\* systemd runs the queued restart,
RunJob ==
    /\ job
    /\ Start /\ job' = FALSE
    /\ UNCHANGED <<kver, machine, file, cmd, whole, settled>>

\* or drops it, for containerd did not start or another job came in between;
JobDropped ==
    /\ job
    /\ job' = FALSE /\ dropped' = TRUE
    /\ UNCHANGED <<kver, machine, file, cmd, running, whole, settled>>

\* it starts a kubelet again that failed,
KubeletRestarts ==
    /\ running # Stopped
    /\ Start /\ job' = job
    /\ UNCHANGED <<kver, machine, file, cmd, whole, settled>>

\* and an enabled one after a reboot, which ends a queued job.
Reboot ==
    /\ cmd.pc = "idle" /\ (running # Stopped \/ job \/ dropped)
    /\ Start /\ job' = FALSE
    /\ UNCHANGED <<kver, machine, file, cmd, whole, settled>>

\* A kubelet with a bootstrap kubeconfig has its certificate and writes its kubeconfig.
KubeletBootstraps ==
    /\ Works(running) /\ ~Readable("kubeconfig")
    /\ running.kubeconfig.state = "written" /\ running.kubeconfig.content.kind = "client certificate"
    /\ file' = [file EXCEPT !["kubeconfig"] = running.kubeconfig]
    /\ UNCHANGED <<kver, machine, cmd, unit, whole, settled>>

\* nodeadm install or upgrade puts another kubelet in place.
ReplaceKubelet ==
    /\ cmd.pc = "idle"
    /\ kver' \in Versions \ {kver}
    /\ UNCHANGED <<machine, file, cmd, unit, whole, settled>>

\* kubelet.Uninstall, after the daemon was stopped, and that of the credential provider.
\* The environment file is left where it is.
Uninstall ==
    /\ cmd.pc = "idle"
    /\ file' = [f \in Files |-> IF f \in {"environment", "bootstrap-kubeconfig"} THEN file[f] ELSE Missing]
    /\ running' = Stopped /\ job' = FALSE /\ dropped' = FALSE
    /\ whole' = None /\ settled' = None
    /\ UNCHANGED <<kver, machine, cmd>>

Next ==
    \/ \E cfg \in Configs : StartInit(cfg)
    \/ WriteKubeletConfig \/ WriteDropIn \/ WriteKubeconfig \/ WriteImageCredentialProviderConfig
    \/ WriteClusterCaCert \/ WriteKubeletEnvironment \/ ValidateAuthentication
    \/ RestartDaemon \/ WaitForStatus \/ InitEndsEarly
    \/ RunJob \/ JobDropped \/ KubeletRestarts \/ Reboot \/ KubeletBootstraps
    \/ ReplaceKubelet \/ Uninstall

Spec == Init /\ [][Next]_vars

-----------------------------------------------------------------------------
(* Properties                                                              *)

TypeOK ==
    /\ kver \in Versions /\ host \in Hosts /\ site \in {"hybrid", "ec2", "outpost"}
    /\ file = [f \in Files |-> file[f]]
    /\ \A f \in Files : file[f].state \in {"missing", "torn", "written"}
    /\ cmd = [pc |-> cmd.pc, cfg |-> cmd.cfg, ver |-> cmd.ver, flags |-> cmd.flags, runs |-> cmd.runs]
    /\ cmd.pc \in {"idle"} \cup Steps /\ cmd.runs \in Nat
    /\ cmd.pc # "idle" =>
          /\ cmd.cfg \in Configs /\ cmd.ver \in Versions
          /\ cmd.flags = [f \in FlagNames |-> cmd.flags[f]]
    /\ job \in BOOLEAN /\ dropped \in BOOLEAN
    /\ whole \in Configs \cup {None} /\ settled \in Configs \cup {None}

\* The steps of Configure in their order: s has been taken when the next one is pc.
Past(pc, s) ==
    CASE s = "config" -> pc \in Steps \ {"config"}
      [] s = "drop-in" -> pc \in Steps \ {"config", "drop-in"}
      [] s = "kubeconfig" -> pc \in Steps \ {"config", "drop-in", "kubeconfig"}
      [] s = "image-credential" -> pc \in {"ca", "environment", "validate", "restart", "wait"}
      [] s = "ca" -> pc \in {"environment", "validate", "restart", "wait"}
      [] s = "environment" -> pc \in {"validate", "restart", "wait"}

\* The flags a Configure for this configuration and kubelet has come to before step pc.
FlagsBefore(cfg, ver, pc) ==
    [f \in FlagNames |->
        CASE f = "config-dir" -> IF HasDropIn(cfg, ver) /\ Past(pc, "drop-in") THEN "config.json.d" ELSE None
          [] f \in {"kubeconfig", "bootstrap-kubeconfig"} ->
                IF f = KubeconfigFile(cfg) /\ Past(pc, "kubeconfig") THEN f ELSE None
          [] f = "image-credential-provider-config" ->
                IF Past(pc, "image-credential") THEN "config.json" ELSE None
          [] OTHER -> ConfigFlags(cfg, ver)[f]]

\* The files it has written by then.
WrittenBefore(cfg, ver, pc) ==
    /\ Past(pc, "config") => file["config"] = Written(ConfigFile(cfg, ver))
    /\ Past(pc, "drop-in") /\ HasDropIn(cfg, ver) => file["drop-in"] = Written(cfg.user)
    /\ Past(pc, "kubeconfig") => file[KubeconfigFile(cfg)] = Written(Kubeconfig(cfg))
    /\ Past(pc, "image-credential") => file["image-credential"] = Written(ImageCredential(cfg))
    /\ Past(pc, "ca") => file["ca"] = Written(cfg.cluster)
    /\ Past(pc, "environment") => file["environment"] = Written(Environment(FlagsBefore(cfg, ver, "wait"), cfg))

\* A Configure under way finds what it has written, and names exactly those files to the
\* kubelet, although systemd and an older kubelet go on meanwhile.
ConfigureInv ==
    /\ cmd.pc = "drop-in" => HasDropIn(cmd.cfg, cmd.ver)
    /\ WrittenBefore(cmd.cfg, cmd.ver, cmd.pc)
    /\ Past(cmd.pc, "config") => cmd.flags = FlagsBefore(cmd.cfg, cmd.ver, cmd.pc)
    /\ cmd.pc # "idle" => settled = None
    /\ Past(cmd.pc, "config") => whole = IF Past(cmd.pc, "environment") THEN cmd.cfg ELSE None

\* The configuration and the environment file are of one init when it wrote both, unless
\* a later one stopped while it rewrote the first.
WholeInv ==
    whole # None =>
        \E ver \in Versions :
            /\ file["environment"] = Written(Environment(FlagsBefore(whole, ver, "wait"), whole))
            /\ file["config"] \in {Torn, Written(ConfigFile(whole, ver))}

\* The inductive invariant of the files.
KubeletInv == TypeOK /\ ConfigureInv /\ WholeInv

\* The name the user's flags or else the configuration gives the node.
NameOf(cfg) ==
    LET user == LastValue(cfg.flags, "hostname-override") IN IF user # None THEN user ELSE cfg.name

\* What the configuration asks for.
Wanted(cfg) ==
    [config |-> Merge(GenerateKubeletConfig(cfg), cfg.user),
     name |-> NameOf(cfg),
     labels |-> NodeLabels(IF Hybrid(cfg) THEN cfg.kind ELSE None, cfg.flags),
     kubeconfig |-> IF cfg.kind = "outpost" THEN ClientOf(cfg.cluster) ELSE Written(Kubeconfig(cfg)),
     credential |-> Written(ImageCredential(cfg)),
     ca |-> Written(cfg.cluster)]

\* The user passes flags that point to files of their own.
Owns(cfg, flags) == \E i \in DOMAIN cfg.flags : cfg.flags[i].name \in flags

\* The kubelet of an Outpost has got its kubeconfig from another cluster.
JoinedBefore(cfg) ==
    cfg.kind = "outpost" /\ Readable("kubeconfig") /\ file["kubeconfig"] # ClientOf(cfg.cluster)

\* A kubelet works with what the configuration asks for, but for what the user's flags
\* replace, and but for the cluster of an Outpost's node that was in another one before.
Fits(process, cfg) ==
    LET wanted == Wanted(cfg) IN
    /\ process.name = wanted.name /\ process.labels = wanted.labels /\ process.ca = wanted.ca
    /\ Owns(cfg, {"config", "config-dir"}) \/ process.config = wanted.config
    /\ \/ Owns(cfg, {"kubeconfig", "bootstrap-kubeconfig"}) \/ JoinedBefore(cfg)
       \/ process.kubeconfig = wanted.kubeconfig
    /\ Owns(cfg, {"image-credential-provider-config"}) \/ process.credential = wanted.credential

\* The kubelet was replaced by one that does not know the flag for the directory.
TooOld == ~KnowsDir(kver) /\ Flag("config-dir") # None

\* After an init that succeeded, every kubelet that is started works with exactly what the
\* configuration asks for, whatever files earlier commands left (a drop-in of settings the
\* user has dropped since, files of the other layout, files that were cut off), and although
\* the kubelet is replaced by one of the other layout. It does start, unless that one does
\* not know --config-dir at all or the user names a directory. The kubelet that runs works
\* with it as well, once the restart that EnsureRunning asked for is no longer queued and
\* unless systemd dropped it: until then the one that was polled may be an older one
\* (daemon.go:96-107).
OkMeansEffective ==
    settled # None =>
        /\ Works(View) => Fits(View, settled)
        /\ Works(View) \/ TooOld \/ Owns(settled, {"config-dir"})
        /\ running # Stopped
        /\ job \/ dropped \/ (Works(running) => Fits(running, settled))

\* Settings of the user that replace the provider ID of the configuration file.
IdReplaced(cfg) == cfg.user["providerID"] # None

\* The name that upgrade, uninstall and debug read back from the disk is the name under
\* which a kubelet that is started registers, also after inits that failed or were killed,
\* or else it cannot be read; and it is the name of the kubelet that runs under the
\* conditions of OkMeansEffective. Not so while an init has rewritten the configuration and
\* not yet the environment file with the name, where one that is killed leaves the two of
\* different nodes (daemon.go:61-75), nor with a provider ID or a hostname of the user's.
NodeNameReadBack ==
    whole # None /\ Hybrid(whole) /\ ~IdReplaced(whole) /\ NameOf(whole) = whole.name =>
        /\ GetNodeName \in {None, whole.name}
        /\ Works(View) => View.name = whole.name
        /\ settled # None =>
              /\ GetNodeName = settled.name
              /\ job \/ dropped \/ (Works(running) => running.name = GetNodeName)

\* The table in the comment of withHybridReservedResources: so much of the first 4, the
\* next 4, 8 and 112, and the rest.
Share(gib, from, to, percent) ==
    IF gib <= from THEN 0 ELSE percent * ((IF gib > to THEN to ELSE gib) - from)
MemoryTable(gib) ==
    Share(gib, 0, 4, 25) + Share(gib, 4, 8, 20) + Share(gib, 8, 16, 10) + Share(gib, 16, 128, 6)
      + Share(gib, 128, gib, 2)

\* The reserve of a hybrid node in MiB for whole GiBs of memory. From 1 on it is the
\* table's, rounded to a GiB, is less than there is, and grows by at most one GiB for each,
\* so that the branches of the switch meet. Rounding makes it nothing at all for 1 GiB,
\* where the table (config.go:295-301) has 25%: there, and only there, the reserve
\* is 0 and a node with more memory reserves less, 0 after the 255 MiB below 1 GiB.
MemoryPerTable(gib) ==
    LET now == HybridMemoryToReserve(1024 * gib)
        more == HybridMemoryToReserve(1024 * (gib + 1))
    IN /\ gib >= 1 =>
             /\ 100 * now <= 1024 * (MemoryTable(gib) + 50) /\ 1024 * (MemoryTable(gib) - 50) <= 100 * now
             /\ now < 1024 * gib /\ more <= now + 1024
       /\ now = 0 <=> gib = 1
       /\ more < now <=> gib = 0

\* The CPU reserve grows with the cores, by no more than 60 millicores for each, and
\* leaves at least 940 of every 1000.
CPUPerTable(milli) ==
    LET now == CPUMillicoresToReserve(milli)
        more == CPUMillicoresToReserve(milli + 1000)
    IN now <= more /\ more <= now + 60 /\ 1000 * now <= 60 * milli

\* What a hybrid node that was configured reserves follows the tables of the code's
\* comments, but for the memory of a node with 1 to 2 GiB, of which it reserves nothing,
\* and unless the user has settings of their own for it.
ReservedPerTable ==
    settled # None /\ Hybrid(settled) /\ settled.user["kubeReserved"] = None =>
        LET reserved == file["config"].content["kubeReserved"]
            gib == host.memory \div 1024
            milli == GetMilliNumCores(host.topology)
        IN /\ reserved.memory = HybridMemoryToReserve(1024 * gib)
           /\ MemoryPerTable(gib)
           /\ milli >= 0 => reserved.cpu = CPUMillicoresToReserve(milli) /\ CPUPerTable(milli)
=============================================================================
