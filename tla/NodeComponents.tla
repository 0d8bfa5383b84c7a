-------------------------- MODULE NodeComponents --------------------------
(***************************************************************************)
(* What `nodeadm install`, `nodeadm upgrade` and `nodeadm uninstall` do to *)
(* a host, and the tracker file (/opt/nodeadm/tracker) by which one        *)
(* command learns what an earlier one installed.                           *)
(*                                                                         *)
(* A command runs its flow step by step; every step can fail, and the      *)
(* process can be killed, with part of the step's effect already on disk.  *)
(* The operator runs the commands one after the other, in any order.       *)
(***************************************************************************)
EXTENDS Naturals, FiniteSets

CONSTANTS
    OsName,         \* "amazon", "rhel" or "ubuntu" (system.GetOsName)
    Preinstalled,   \* the sets of packages a host may have before nodeadm
    Sources,        \* the --containerd-source values the operator uses
    MaxFaults,      \* bound: how many commands fail half way or are killed
    TornSave        \* whether the process may die inside Tracker.Save's write

EksArtifacts == {"kubelet", "kubectl", "cniPlugins", "imageCredentialProvider", "iamAuthenticator"}
ProviderArtifacts == {"ssm", "iamRolesAnywhere"}

\* The artifacts with a flag of their own in tracker.InstalledArtifacts.
Artifacts == EksArtifacts \cup ProviderArtifacts \cup {"iptables"}

\* Everything on the host that nodeadm may add or remove.
Things == Artifacts \cup {"containerd", "runc", "dockerRepo"}

ContainerdSources == {"none", "distro", "docker"}
Providers == {"ssm", "iam-ra"}

ASSUME NodeComponentsAssumption ==
    /\ OsName \in {"amazon", "rhel", "ubuntu"}
    /\ Preinstalled \subseteq SUBSET {"containerd", "runc", "iptables"}
    /\ Sources \subseteq ContainerdSources
    /\ MaxFaults \in Nat
    /\ TornSave \in BOOLEAN

VARIABLES
    user,   \* packages the host had before the first nodeadm command
    host,   \* what is on the host now
    runcTaken, \* history: "yum remove runc" was run on the host of a user's containerd
    file,   \* the tracker file
    mem,    \* the running command's copy of the tracker
    cmd,    \* the running command and its arguments
    pc,     \* the step of the command's flow that runs next
    last,   \* how the last command ended
    faults  \* failures so far, for the bound MaxFaults

vars == <<user, runcTaken, host, file, mem, cmd, pc, last, faults>>

TrackerType == [containerd : ContainerdSources, artifacts : SUBSET Artifacts]
NoArtifacts == [containerd |-> "none", artifacts |-> {}]

\* state is "missing", "saved", or "torn": created or truncated, and empty.
FileType == [state : {"missing", "torn", "saved"}, tracker : TrackerType]
MissingFile == [state |-> "missing", tracker |-> NoArtifacts]
TornFile == [state |-> "torn", tracker |-> NoArtifacts]
SavedFile(t) == [state |-> "saved", tracker |-> t]

CmdType == [op : {"idle", "install", "upgrade", "uninstall"},
            provider : Providers, source : ContainerdSources, private : BOOLEAN]
Idle == [op |-> "idle", provider |-> "ssm", source |-> "none", private |-> FALSE]

-----------------------------------------------------------------------------
(* The order of each flow's steps.                                         *)

\* Installer.Run: private mode enters at "credential".
InstallOrder ==
    [configure |-> "containerd", containerd |-> "iptables", iptables |-> "credential",
     credential |-> "kubelet", kubelet |-> "kubectl", kubectl |-> "cniPlugins",
     cniPlugins |-> "imageCredentialProvider",
     imageCredentialProvider |-> "iamAuthenticator", iamAuthenticator |-> "save"]

\* Uninstaller.Run: the daemons, then the binaries, then what is shared.
UninstallOrder ==
    [kubelet |-> "ssm", ssm |-> "containerd", containerd |-> "kubectl",
     kubectl |-> "cniPlugins", cniPlugins |-> "iamAuthenticator",
     iamAuthenticator |-> "iamRolesAnywhere",
     iamRolesAnywhere |-> "imageCredentialProvider",
     imageCredentialProvider |-> "iptables", iptables |-> "cleanup", cleanup |-> "clear"]

\* Upgrader.Run: private mode enters at "credential". What follows the artifacts
\* (ConfigureAws, Enrich, initDaemons) neither adds nor removes components.
UpgradeOrder ==
    [containerd |-> "iptables", iptables |-> "credential", credential |-> "kubelet",
     kubelet |-> "kubectl", kubectl |-> "imageCredentialProvider",
     imageCredentialProvider |-> "iamAuthenticator", iamAuthenticator |-> "cniPlugins",
     cniPlugins |-> "daemons"]

Steps == DOMAIN InstallOrder \cup DOMAIN UninstallOrder \cup DOMAIN UpgradeOrder
            \cup {"save", "write", "clear", "daemons", "none"}

TypeOK ==
    /\ user \in SUBSET {"containerd", "runc", "iptables"}
    /\ host \in SUBSET Things
    /\ runcTaken \in BOOLEAN
    /\ file \in FileType
    /\ mem \in TrackerType
    /\ cmd \in CmdType
    /\ pc \in Steps
    /\ last \in [op : {"none", "install", "upgrade", "uninstall"},
                 result : {"ok", "nothing", "error", "panic"}]
    /\ faults \in 0..MaxFaults

Init ==
    /\ user \in Preinstalled
    /\ host = user
    /\ runcTaken = FALSE
    /\ file = MissingFile
    /\ mem = NoArtifacts
    /\ cmd = Idle
    /\ pc = "none"
    /\ last = [op |-> "none", result |-> "ok"]
    /\ faults = 0

\* The command returns: its copy of the tracker is gone.
Return(result) ==
    /\ cmd' = Idle
    /\ pc' = "none"
    /\ mem' = NoArtifacts
    /\ last' = [op |-> cmd.op, result |-> result]

\* A command that ends before its flow starts.
ReturnAtOnce(op, result) ==
    /\ last' = [op |-> op, result |-> result]
    /\ UNCHANGED <<user, runcTaken, host, file, mem, cmd, pc, faults>>

\* An empty file unmarshals without error into a Tracker whose Artifacts is nil,
\* and reading Artifacts.Containerd then panics.
Unreadable == file.state = "torn"

-----------------------------------------------------------------------------
(* nodeadm install                                                         *)

UsesApt == OsName = "ubuntu"

\* containerd.ValidateContainerdSource.
SourceSupported(source) ==
    /\ source = "docker" => OsName # "amazon"
    /\ source = "distro" => OsName # "rhel"

\* tracker.GetCurrentState: a missing file is an empty tracker.
StartInstall(provider, source, private) ==
    /\ cmd = Idle
    /\ SourceSupported(source)
    /\ \/ Unreadable /\ ReturnAtOnce("install", "panic")
       \/ /\ ~Unreadable
          /\ cmd' = [op |-> "install", provider |-> provider, source |-> source, private |-> private]
          /\ mem' = file.tracker
          /\ pc' = IF private THEN "credential" ELSE "configure"
          /\ UNCHANGED <<user, runcTaken, host, file, last, faults>>

\* The step for the docker repository removes a separately packaged runc with yum, as
\* it conflicts with the one containerd.io carries, whatever containerd is there.
TakesRunc ==
    /\ cmd.op = "install" /\ pc = "configure" /\ cmd.source = "docker"
    /\ ~UsesApt /\ "runc" \in host

\* The step at pc is done: host and the command's tracker become h and t.
InstallDone(h, t) ==
    /\ cmd.op = "install"
    /\ host' = h
    /\ mem' = t
    /\ pc' = InstallOrder[pc]
    /\ runcTaken' = (runcTaken \/ (TakesRunc /\ "containerd" \in user))
    /\ UNCHANGED <<user, file, cmd, last, faults>>

Track(a) == [mem EXCEPT !.artifacts = @ \cup {a}]

\* What "yum remove runc -y" may leave: everything, where the runc in PATH is not of a
\* package of that name (containerd.io has its own), all but runc, or neither runc nor
\* the containerd package that depends on it.
RuncRemoved ==
    IF TakesRunc THEN {host, host \ {"runc"}, host \ {"runc", "containerd"}} ELSE {host}

\* DistroPackageManager.Configure: only the docker source needs its repository.
InstallConfigure ==
    /\ pc = "configure"
    /\ \/ cmd.source # "docker" /\ InstallDone(host, mem)
       \/ cmd.source = "docker" /\ \E h \in RuncRemoved : InstallDone(h \cup {"dockerRepo"}, mem)

\* areContainerdAndRuncInstalled
ContainerdPresent == {"containerd", "runc"} \subseteq host

InstallContainerd ==
    /\ pc = "containerd"
    /\ IF cmd.source = "none" \/ ContainerdPresent
       THEN InstallDone(host, [mem EXCEPT !.containerd = "none"])
       ELSE InstallDone(host \cup {"containerd", "runc"}, [mem EXCEPT !.containerd = cmd.source])

InstallIptablesAlwaysTracked ==  \* mutant: an iptables that was there is tracked as well
    /\ pc = "iptables"
    /\ InstallDone(host \cup {"iptables"}, Track("iptables"))

InstallIptables ==
    /\ pc = "iptables"
    /\ IF "iptables" \in host
       THEN InstallDone(host, mem)
       ELSE InstallDone(host \cup {"iptables"}, Track("iptables"))

ProviderArtifact(provider) == IF provider = "ssm" THEN "ssm" ELSE "iamRolesAnywhere"

InstallCredential ==
    LET a == ProviderArtifact(cmd.provider) IN
    /\ pc = "credential"
    /\ InstallDone(host \cup {a}, Track(a))

InstallEksArtifactOnce ==  \* mutant: what is already on disk is skipped, as iptables is
    /\ pc \in EksArtifacts
    /\ InstallDone(host \cup {pc}, IF pc \in host THEN mem ELSE Track(pc))

InstallEksArtifact ==
    /\ pc \in EksArtifacts
    /\ InstallDone(host \cup {pc}, Track(pc))

\* Tracker.Save: WriteFileWithDir opens the file with O_TRUNC, then writes it.
SaveTruncate ==
    /\ cmd.op = "install" /\ pc = "save"
    /\ file' = TornFile
    /\ pc' = "write"
    /\ UNCHANGED <<user, runcTaken, host, mem, cmd, last, faults>>

SaveWrite ==
    /\ cmd.op = "install" /\ pc = "write"
    /\ file' = SavedFile(mem)
    /\ Return("ok")
    /\ UNCHANGED <<user, runcTaken, host, faults>>

-----------------------------------------------------------------------------
(* nodeadm uninstall                                                       *)

\* A missing tracker file means there is nothing to uninstall.
StartUninstall ==
    /\ cmd = Idle
    /\ \/ Unreadable /\ ReturnAtOnce("uninstall", "panic")
       \/ file.state = "missing" /\ ReturnAtOnce("uninstall", "nothing")
       \/ /\ file.state = "saved"
          /\ cmd' = [Idle EXCEPT !.op = "uninstall"]
          /\ mem' = file.tracker
          /\ pc' = "kubelet"
          /\ UNCHANGED <<user, runcTaken, host, file, last, faults>>

\* The command ends before its flow: the tracked kubelet runs and the node is not
\* drained or not cordoned (NodePreflight models that check), the node is not
\* initialized, or its configuration is invalid.
Refuse(op) ==
    /\ cmd = Idle
    /\ file.state = "saved"
    /\ ReturnAtOnce(op, "error")

\* runc leaves with the package: containerd.io contains it, and for the distro's
\* containerd it is a dependency, unless the user had it installed before.
ContainerdPackage ==
    {"containerd"} \cup (IF mem.containerd = "docker" THEN {"runc"} ELSE {"runc"} \ user)

\* What the step removes: nothing when the tracker does not list its component,
\* and /etc/eks, where the image credential provider lives, in any case.
UninstallRemoves ==
    CASE pc = "containerd" -> IF mem.containerd # "none" THEN ContainerdPackage ELSE {}
      [] pc = "cleanup"    -> {"imageCredentialProvider"} \cup
                              (IF mem.containerd = "docker" THEN {"dockerRepo"} ELSE {})
      [] OTHER             -> {pc} \cap mem.artifacts

UninstallStepSwallowsErrors ==  \* mutant: a removal that failed does not stop the flow
    /\ cmd.op = "uninstall" /\ pc \in DOMAIN UninstallOrder
    /\ host' \in {host, host \ UninstallRemoves}
    /\ pc' = UninstallOrder[pc]
    /\ UNCHANGED <<user, runcTaken, file, mem, cmd, last, faults>>

UninstallStepNeedsFile ==  \* mutant: os.Remove, which fails on what is gone, for os.RemoveAll
    /\ cmd.op = "uninstall" /\ pc \in DOMAIN UninstallOrder
    /\ UninstallRemoves \cap Artifacts \subseteq host
    /\ host' = host \ UninstallRemoves
    /\ pc' = UninstallOrder[pc]
    /\ UNCHANGED <<user, runcTaken, file, mem, cmd, last, faults>>

UninstallStep ==
    /\ cmd.op = "uninstall" /\ pc \in DOMAIN UninstallOrder
    /\ host' = host \ UninstallRemoves
    /\ pc' = UninstallOrder[pc]
    /\ UNCHANGED <<user, runcTaken, file, mem, cmd, last, faults>>

\* tracker.Clear. With --force, two CNI state directories outside this model
\* are removed afterwards.
UninstallClear ==
    /\ cmd.op = "uninstall" /\ pc = "clear"
    /\ file' = MissingFile
    /\ Return("ok")
    /\ UNCHANGED <<user, runcTaken, host, faults>>

-----------------------------------------------------------------------------
(* nodeadm upgrade                                                         *)

\* creds.GetCredentialProviderFromInstalledArtifacts: SSM wins when the tracker
\* lists both providers, and a tracker with neither is an error.
InstalledProvider(t) ==
    CASE "ssm" \in t.artifacts              -> "ssm"
      [] "iamRolesAnywhere" \in t.artifacts -> "iam-ra"
      [] OTHER                              -> "none"

\* provider is the one the node configuration names.
StartUpgrade(provider, private) ==
    /\ cmd = Idle
    /\ \/ Unreadable /\ ReturnAtOnce("upgrade", "panic")
       \/ file.state = "missing" /\ ReturnAtOnce("upgrade", "nothing")
       \/ /\ file.state = "saved" /\ InstalledProvider(file.tracker) # provider
          /\ ReturnAtOnce("upgrade", "error")
       \/ /\ file.state = "saved" /\ InstalledProvider(file.tracker) = provider
          /\ cmd' = [op |-> "upgrade", provider |-> provider, source |-> "none", private |-> private]
          /\ mem' = file.tracker
          /\ pc' = IF private THEN "credential" ELSE "containerd"
          /\ UNCHANGED <<user, runcTaken, host, file, last, faults>>

\* The component the step works on, as it is named on the host.
StepThing == IF pc = "credential" THEN ProviderArtifact(cmd.provider) ELSE pc

\* artifact.Upgrade opens the installed file to compare checksums, so a file
\* that is not there is an error. The SSM agent and the CNI plugins are simply
\* installed again, and tracked OS packages are updated in place.
NeedsInstalledFile ==
    StepThing \in {"iamRolesAnywhere"} \cup (EksArtifacts \ {"cniPlugins"})

UpgradeStep ==
    /\ cmd.op = "upgrade" /\ pc \in DOMAIN UpgradeOrder
    /\ NeedsInstalledFile => StepThing \in host
    /\ host' = IF StepThing \in {"ssm", "cniPlugins"} THEN host \cup {StepThing} ELSE host
    /\ pc' = UpgradeOrder[pc]
    /\ UNCHANGED <<user, runcTaken, file, mem, cmd, last, faults>>

UpgradeMissingFile ==
    /\ cmd.op = "upgrade" /\ pc \in DOMAIN UpgradeOrder
    /\ NeedsInstalledFile /\ StepThing \notin host
    /\ Return("error")
    /\ UNCHANGED <<user, runcTaken, host, file, faults>>

UpgradeDaemons ==
    /\ cmd.op = "upgrade" /\ pc = "daemons"
    /\ Return("ok")
    /\ UNCHANGED <<user, runcTaken, host, file, faults>>

-----------------------------------------------------------------------------
(* Failures: a step returns an error, the command's timeout cancels it, or *)
(* the process is killed. Nothing is rolled back and nothing is saved.     *)

\* A file being installed is removed first and written next; a package manager
\* that is stopped may or may not have done its work.
PartialInstall ==
    CASE pc = "configure"  -> IF cmd.source # "docker" THEN {host}
                              ELSE {host} \cup RuncRemoved \cup {h \cup {"dockerRepo"} : h \in RuncRemoved}
      [] pc = "containerd" -> IF cmd.source = "none" \/ ContainerdPresent THEN {host}
                              ELSE {host, host \cup {"containerd", "runc"}}
      [] pc = "iptables"   -> {host, host \cup {"iptables"}}
      [] OTHER             -> {host, host \cup {StepThing}, host \ {StepThing}}

PartialUpgrade ==
    IF pc \in {"containerd", "iptables", "daemons"} THEN {host}
    ELSE {host, host \cup {StepThing}, host \ {StepThing}}

PartialUninstall == {host, host \ UninstallRemoves}

Abort ==
    /\ faults < MaxFaults /\ faults' = faults + 1
    /\ \/ cmd.op = "install" /\ pc \in DOMAIN InstallOrder /\ host' \in PartialInstall
       \/ cmd.op = "install" /\ pc = "save" /\ UNCHANGED host
       \/ cmd.op = "upgrade" /\ host' \in PartialUpgrade
       \/ cmd.op = "uninstall" /\ pc \in DOMAIN UninstallOrder /\ host' \in PartialUninstall
       \/ cmd.op = "uninstall" /\ pc = "clear" /\ UNCHANGED host
    /\ runcTaken' = (runcTaken \/ (TakesRunc /\ "containerd" \in user))
    /\ Return("error")
    /\ UNCHANGED <<user, file>>

\* The process dies between the truncation of the tracker file and the write.
AbortInSave ==
    /\ TornSave
    /\ faults < MaxFaults /\ faults' = faults + 1
    /\ cmd.op = "install" /\ pc = "write"
    /\ Return("error")
    /\ UNCHANGED <<user, runcTaken, host, file>>

-----------------------------------------------------------------------------
Install ==
    InstallConfigure \/ InstallContainerd \/ InstallIptables \/ InstallCredential
        \/ InstallEksArtifact \/ SaveTruncate \/ SaveWrite

Uninstall == UninstallStep \/ UninstallClear

Upgrade == UpgradeStep \/ UpgradeMissingFile \/ UpgradeDaemons

Next ==
    \/ \E provider \in Providers, source \in Sources, private \in BOOLEAN :
          StartInstall(provider, source, private)
    \/ Install
    \/ StartUninstall
    \/ Uninstall
    \/ \E provider \in Providers, private \in BOOLEAN : StartUpgrade(provider, private)
    \/ Upgrade
    \/ \E op \in {"upgrade", "uninstall"} : Refuse(op)
    \/ Abort
    \/ AbortInSave

Spec == Init /\ [][Next]_vars

\* Commands run to their end or to an error, only finitely many steps fail (the
\* package managers' errors are transient, which is what cmd.Retry is written
\* for), and an operator who wants the node clean runs uninstall again.
UninstallFairness ==
    /\ WF_vars(Install \/ Upgrade \/ Uninstall)
    /\ SF_vars(StartUninstall)

FairSpec == Spec /\ UninstallFairness

-----------------------------------------------------------------------------
(* Properties                                                              *)

Tracked(t) == t.artifacts \cup (IF t.containerd # "none" THEN {"containerd"} ELSE {})

\* The tracker file is written only at the end of an install that ran to the end,
\* so whatever failed, was retried or was killed, a saved tracker lists all five
\* EKS artifacts and a credential provider: upgrade and uninstall never work from
\* the record of half an installation.
TrackerComplete ==
    file.state = "saved" =>
        /\ EksArtifacts \subseteq file.tracker.artifacts
        /\ file.tracker.artifacts \cap ProviderArtifacts # {}

\* Uninstall gives up the tracker file last: in the step that deletes it, no
\* component it listed is left on the host, however many earlier runs of
\* uninstall stopped half way.
ClearedMeansGone ==
    [][(file.state = "saved" /\ file'.state = "missing")
          => Tracked(file.tracker) \cap host' = {}]_vars

\* What is the user's own for the commands: an iptables that was there before them, and
\* a containerd with its runc, until an install with the docker source takes the runc
\* away with yum. From then on containerd.Install does not find both, installs and
\* tracks containerd.io, and the next uninstall removes it, although its comment says
\* that an installed containerd is skipped and "exclude[d]" from uninstall.
Owned ==
    (user \cap {"iptables"}) \cup
    (IF {"containerd", "runc"} \subseteq user /\ ~runcTaken THEN {"containerd", "runc"} ELSE {})

\* Over any sequence of installs, upgrades, failures and uninstalls nodeadm takes none of
\* that away: the one removal of runc is the only way in which a user's iptables, or a
\* containerd with its runc, can get lost (one of the two alone does not count as the
\* user's: containerd.Install puts both there and tracks them).
UserPackagesKept == Owned \subseteq host

\* The inductive invariant behind it: a package of the user's is never tracked,
\* neither in the file nor in the copy of a command that is half way through.
UserPackagesUntracked ==
    /\ UserPackagesKept
    /\ \A t \in {mem, file.tracker} :
          /\ "containerd" \in Owned => t.containerd = "none"
          /\ "iptables" \in Owned => "iptables" \notin t.artifacts

\* The inductive invariant behind the rest: how far the install flow is says
\* which artifacts are on the host and in its tracker, and how far the uninstall
\* flow is says which of the tracked components are already gone. During uninstall
\* the command's copy of the tracker is the file's.
InstalledBefore ==
    [configure |-> {}, containerd |-> {}, iptables |-> {}, credential |-> {}, kubelet |-> {},
     kubectl |-> {"kubelet"}, cniPlugins |-> {"kubelet", "kubectl"},
     imageCredentialProvider |-> {"kubelet", "kubectl", "cniPlugins"},
     iamAuthenticator |-> EksArtifacts \ {"iamAuthenticator"},
     save |-> EksArtifacts, write |-> EksArtifacts]

RemovedBefore ==
    [kubelet |-> {}, ssm |-> {"kubelet"}, containerd |-> {"kubelet", "ssm"},
     kubectl |-> {"kubelet", "ssm", "containerd"},
     cniPlugins |-> {"kubelet", "ssm", "containerd", "kubectl"},
     iamAuthenticator |-> {"kubelet", "ssm", "containerd", "kubectl", "cniPlugins"},
     iamRolesAnywhere |->
        {"kubelet", "ssm", "containerd", "kubectl", "cniPlugins", "iamAuthenticator"},
     imageCredentialProvider |-> (Artifacts \cup {"containerd"}) \ {"imageCredentialProvider", "iptables"},
     iptables |-> (Artifacts \cup {"containerd"}) \ {"iptables"},
     cleanup |-> Artifacts \cup {"containerd"}, clear |-> Artifacts \cup {"containerd"}]

IdleInv == cmd.op = "idle" => cmd = Idle /\ pc = "none"

InstallInv ==
    cmd.op = "install" =>
        /\ pc \in DOMAIN InstalledBefore
        /\ InstalledBefore[pc] \subseteq mem.artifacts \cap host
        /\ pc \in EksArtifacts \cup {"save", "write"} => ProviderArtifacts \cap mem.artifacts \cap host # {}
        /\ pc = "write" <=> file.state = "torn"

UninstallInv ==
    cmd.op = "uninstall" =>
        /\ pc \in DOMAIN RemovedBefore
        /\ file = SavedFile(mem)
        /\ RemovedBefore[pc] \cap Tracked(mem) \cap host = {}

UpgradeInv == cmd.op = "upgrade" => pc \in DOMAIN UpgradeOrder \cup {"daemons"}

FlowInv ==
    TypeOK /\ TrackerComplete /\ IdleInv /\ InstallInv /\ UninstallInv /\ UpgradeInv

\* The three commands together keep the promises of NodeLifecycle, with a step of a
\* flow, a failure and a kill each being one of its steps or none: the tracker file
\* is the record, and the packages of the user's are what the host owns. Only yum hosts
\* have something contested, a containerd with its runc.
Lifecycle ==
    INSTANCE NodeLifecycle WITH
        Components <- Things, Required <- EksArtifacts, Either <- ProviderArtifacts,
        Contested <- IF UsesApt THEN {} ELSE {"containerd", "runc"},
        owned <- Owned, present <- host,
        record <- [state |-> IF file.state = "torn" THEN "damaged" ELSE file.state,
                   lists |-> Tracked(file.tracker)]
ImplementsLifecycle == Lifecycle!Spec

\* Repeating uninstall gets the node clean: what one run already removed does not
\* make the next one fail, so the tracker file is eventually gone (or was emptied by
\* a command that died while writing it).
UninstallConverges ==
    file.state = "saved" ~> (file.state = "missing" \/ (cmd = Idle /\ Unreadable))
=============================================================================
