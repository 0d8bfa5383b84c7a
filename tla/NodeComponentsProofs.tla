----------------------- MODULE NodeComponentsProofs -----------------------
(***************************************************************************)
(* What install, upgrade and uninstall guarantee about the tracker and the *)
(* host for every operating system, every set of preinstalled packages and *)
(* any number of failures.                                                 *)
(***************************************************************************)
EXTENDS NodeComponents, TLAPS

\* The steps and the components are strings, and what the provers need to know
\* about a flow is where it goes from each of its steps.
USE DEF EksArtifacts, ProviderArtifacts, Artifacts, ContainerdSources, Providers

LEMMA InitFlowInv == Init => FlowInv
<1> SUFFICES ASSUME Init PROVE FlowInv
  OBVIOUS
<1> USE NodeComponentsAssumption DEF Init
<1>1. user \in SUBSET {"containerd", "runc", "iptables"} /\ host \in SUBSET Things
  BY DEF Things
<1>2. mem \in TrackerType /\ file \in FileType
  BY DEF NoArtifacts, TrackerType, MissingFile, FileType
<1>3. cmd \in CmdType /\ cmd = Idle /\ cmd.op = "idle"
  BY Zenon DEF Idle, CmdType
<1>4. last \in [op : {"none", "install", "upgrade", "uninstall"},
                result : {"ok", "nothing", "error", "panic"}]
  OBVIOUS
<1>5. faults \in 0..MaxFaults /\ pc \in Steps
  BY DEF Steps
<1>6. file.state = "missing"
  BY DEF MissingFile
<1> QED BY <1>1, <1>2, <1>3, <1>4, <1>5, <1>6 DEF FlowInv, TypeOK, TrackerComplete,
           IdleInv, InstallInv, UninstallInv, UpgradeInv


\* A command that ends before its flow starts changes nothing but its result.
LEMMA ReturnAtOnceStep ==
    ASSUME FlowInv, NEW op \in {"install", "upgrade", "uninstall"},
           NEW result \in {"ok", "nothing", "error", "panic"}, ReturnAtOnce(op, result)
    PROVE  FlowInv'
<1>1. last' \in [op : {"none", "install", "upgrade", "uninstall"},
                 result : {"ok", "nothing", "error", "panic"}]
  BY DEF ReturnAtOnce
<1>2. UNCHANGED <<user, runcTaken, host, file, mem, cmd, pc, faults>>
  BY DEF ReturnAtOnce
<1> QED BY <1>1, <1>2 DEF FlowInv, TypeOK, TrackerComplete, IdleInv, InstallInv,
           UninstallInv, UpgradeInv

\* A command that ends leaves the invariant true when the tracker file it leaves
\* behind is complete.
LEMMA ReturnStep ==
    ASSUME FlowInv, NEW result \in {"ok", "nothing", "error", "panic"}, Return(result),
           cmd.op # "idle", UNCHANGED user, runcTaken' \in BOOLEAN, host' \in SUBSET Things,
           file' \in FileType,
           faults' \in 0..MaxFaults, TrackerComplete'
    PROVE  FlowInv'
<1>1. cmd.op \in {"install", "upgrade", "uninstall"}
  BY DEF FlowInv, TypeOK, CmdType
<1>2. last' \in [op : {"none", "install", "upgrade", "uninstall"},
                 result : {"ok", "nothing", "error", "panic"}]
  BY <1>1 DEF Return
<1>3. cmd' = Idle /\ cmd' \in CmdType /\ cmd'.op = "idle"
  BY Zenon DEF Return, Idle, CmdType
<1>4. pc' = "none" /\ pc' \in Steps
  BY DEF Return, Steps
<1>5. mem' \in TrackerType
  BY DEF Return, NoArtifacts, TrackerType
<1>6. TypeOK'
  BY <1>2, <1>3, <1>4, <1>5 DEF FlowInv, TypeOK
<1> QED BY <1>3, <1>4, <1>6 DEF FlowInv, IdleInv, InstallInv, UninstallInv, UpgradeInv

LEMMA StartInstallStep ==
    ASSUME FlowInv, NEW provider \in Providers, NEW source \in Sources, NEW private \in BOOLEAN,
           StartInstall(provider, source, private)
    PROVE  FlowInv'
<1>1. CASE ReturnAtOnce("install", "panic")
  BY <1>1, ReturnAtOnceStep
<1>2. CASE ~Unreadable /\ ~ReturnAtOnce("install", "panic")
  <2>1. /\ cmd' = [op |-> "install", provider |-> provider, source |-> source, private |-> private]
        /\ mem' = file.tracker
        /\ pc' = IF private THEN "credential" ELSE "configure"
        /\ UNCHANGED <<user, runcTaken, host, file, last, faults>>
    BY <1>2 DEF StartInstall
  <2>2. cmd' \in CmdType /\ cmd'.op = "install"
    BY <2>1, NodeComponentsAssumption DEF CmdType
  <2>3. mem' \in TrackerType /\ file.state # "torn"
    BY <1>2, <2>1 DEF FlowInv, TypeOK, FileType, Unreadable
  <2>4. pc' \in {"credential", "configure"} /\ pc' \in Steps
    BY <2>1 DEF Steps, InstallOrder
  <2>5. TypeOK' /\ TrackerComplete'
    BY <2>1, <2>2, <2>3, <2>4 DEF FlowInv, TypeOK, TrackerComplete
  <2>6. InstallInv'
    BY <2>1, <2>2, <2>3, <2>4 DEF InstallInv, InstalledBefore
  <2> QED BY <2>2, <2>5, <2>6 DEF FlowInv, IdleInv, UninstallInv, UpgradeInv
<1> QED BY <1>1, <1>2 DEF StartInstall

\* A step of the install flow that is not the save goes on to the next step with
\* at least the artifacts installed and tracked so far and the one it is for.
LEMMA InstallDoneStep ==
    ASSUME FlowInv, pc \in DOMAIN InstallOrder, NEW h \in SUBSET Things, NEW t \in TrackerType,
           InstallDone(h, t), mem.artifacts \subseteq t.artifacts, host \cap Artifacts \subseteq h,
           pc = "credential" => ProviderArtifacts \cap t.artifacts \cap h # {},
           pc \in EksArtifacts => pc \in t.artifacts \cap h
    PROVE  FlowInv'
<1>1. /\ cmd.op = "install" /\ host' = h /\ mem' = t /\ pc' = InstallOrder[pc]
      /\ UNCHANGED <<user, file, cmd, last, faults>> /\ runcTaken' \in BOOLEAN
  BY DEF InstallDone, FlowInv, TypeOK
<1>2. pc' \in Steps
  BY <1>1 DEF InstallOrder, Steps, FlowInv, TypeOK
<1>3. TypeOK' /\ TrackerComplete'
  BY <1>1, <1>2 DEF FlowInv, TypeOK, TrackerComplete
<1>4. InstallInv'
  <2>1. pc' \in DOMAIN InstalledBefore /\ pc' # "write" /\ pc # "write"
    BY <1>1 DEF InstallOrder, InstalledBefore
  <2>2. file.state # "torn" /\ UNCHANGED file
    BY <1>1, <2>1 DEF FlowInv, InstallInv
  <2>3. InstalledBefore[pc'] \subseteq InstalledBefore[pc] \cup (EksArtifacts \cap {pc})
    <3>1. pc \in EksArtifacts \/ pc' \in {"containerd", "iptables", "credential", "kubelet"}
      BY <1>1 DEF InstallOrder
    <3>2. CASE pc' \in {"containerd", "iptables", "credential", "kubelet"}
      BY <3>2 DEF InstalledBefore
    <3>3. CASE pc = "kubelet"
      BY <1>1, <3>3 DEF InstallOrder, InstalledBefore
    <3>4. CASE pc = "kubectl"
      BY <1>1, <3>4 DEF InstallOrder, InstalledBefore
    <3>5. CASE pc = "cniPlugins"
      BY <1>1, <3>5 DEF InstallOrder, InstalledBefore
    <3>6. CASE pc = "imageCredentialProvider"
      BY <1>1, <3>6 DEF InstallOrder, InstalledBefore
    <3>7. CASE pc = "iamAuthenticator"
      BY <1>1, <3>7 DEF InstallOrder, InstalledBefore
    <3> QED BY <3>1, <3>2, <3>3, <3>4, <3>5, <3>6, <3>7
  <2>4. InstalledBefore[pc] \subseteq mem.artifacts \cap host \cap Artifacts
    BY <1>1 DEF FlowInv, InstallInv, TypeOK, TrackerType
  <2>5. InstalledBefore[pc'] \subseteq mem'.artifacts \cap host'
    BY <1>1, <2>3, <2>4
  <2>6. ASSUME pc' \in EksArtifacts \cup {"save", "write"}
        PROVE  ProviderArtifacts \cap mem'.artifacts \cap host' # {}
    <3>1. pc \in EksArtifacts \cup {"credential"}
      BY <1>1, <2>6 DEF InstallOrder
    <3>2. CASE pc \in EksArtifacts
      BY <1>1, <3>2 DEF FlowInv, InstallInv
    <3>3. CASE pc = "credential"
      BY <1>1, <3>3
    <3> QED BY <3>1, <3>2, <3>3
  <2> QED BY <2>1, <2>2, <2>5, <2>6 DEF InstallInv
<1> QED BY <1>1, <1>3, <1>4 DEF FlowInv, IdleInv, UninstallInv, UpgradeInv

LEMMA InstallStep == FlowInv /\ Install => FlowInv'
<1> SUFFICES ASSUME FlowInv, Install PROVE FlowInv'
  OBVIOUS
<1>t. /\ host \in SUBSET Things /\ mem \in TrackerType /\ cmd \in CmdType /\ file \in FileType
      /\ faults \in 0..MaxFaults /\ runcTaken \in BOOLEAN
  BY DEF FlowInv, TypeOK
<1>a. ASSUME NEW a \in Artifacts
      PROVE  /\ Track(a) \in TrackerType /\ host \cup {a} \in SUBSET Things
             /\ mem.artifacts \subseteq Track(a).artifacts /\ a \in Track(a).artifacts
  BY <1>t DEF Track, TrackerType, Things
<1>1. CASE InstallConfigure
  <2>1. PICK h : /\ h \in SUBSET Things /\ host \cap Artifacts \subseteq h
                 /\ InstallDone(h, mem) /\ pc = "configure"
    <3>1. CASE cmd.source # "docker"
      BY <1>1, <1>t, <3>1 DEF InstallConfigure
    <3>2. CASE cmd.source = "docker"
      <4>1. PICK g \in RuncRemoved : InstallDone(g \cup {"dockerRepo"}, mem)
        BY <1>1, <3>2 DEF InstallConfigure
      <4>2. g \in SUBSET Things /\ host \cap Artifacts \subseteq g
        BY <1>t, <4>1 DEF RuncRemoved
      <4>3. g \cup {"dockerRepo"} \in SUBSET Things
        BY <4>2 DEF Things
      <4> QED BY <1>1, <4>1, <4>2, <4>3 DEF InstallConfigure
    <3> QED BY <3>1, <3>2
  <2> QED BY <1>t, <2>1, InstallDoneStep DEF InstallOrder
<1>2. CASE InstallContainerd
  <2> DEFINE T(src) == [mem EXCEPT !.containerd = src]
  <2>1. ASSUME NEW src \in ContainerdSources
        PROVE  T(src) \in TrackerType /\ T(src).artifacts = mem.artifacts
    BY <1>t DEF TrackerType
  <2>2. pc = "containerd" /\ cmd.source \in ContainerdSources /\ "none" \in ContainerdSources
    BY <1>2, <1>t DEF InstallContainerd, CmdType
  <2>3. host \cup {"containerd", "runc"} \in SUBSET Things
    BY <1>t DEF Things
  <2>4. InstallDone(host, T("none")) \/ InstallDone(host \cup {"containerd", "runc"}, T(cmd.source))
    BY <1>2 DEF InstallContainerd
  <2> HIDE DEF T
  <2>5. CASE InstallDone(host, T("none"))
    BY <1>t, <2>1, <2>2, <2>5, InstallDoneStep DEF InstallOrder
  <2>6. CASE InstallDone(host \cup {"containerd", "runc"}, T(cmd.source))
    BY <1>t, <2>1, <2>2, <2>3, <2>6, InstallDoneStep DEF InstallOrder
  <2> QED BY <2>4, <2>5, <2>6
<1>3. CASE InstallIptables
  <2>1. pc = "iptables"
    BY <1>3 DEF InstallIptables
  <2>2. InstallDone(host, mem) \/ InstallDone(host \cup {"iptables"}, Track("iptables"))
    BY <1>3 DEF InstallIptables
  <2>3. CASE InstallDone(host, mem)
    BY <1>t, <2>1, <2>3, InstallDoneStep DEF InstallOrder
  <2>4. CASE InstallDone(host \cup {"iptables"}, Track("iptables"))
    BY <1>a, <2>1, <2>4, InstallDoneStep DEF InstallOrder
  <2> QED BY <2>2, <2>3, <2>4
<1>4. CASE InstallCredential
  <2> DEFINE a == ProviderArtifact(cmd.provider)
  <2>1. a \in ProviderArtifacts
    BY DEF ProviderArtifact
  <2>2. pc = "credential" /\ InstallDone(host \cup {a}, Track(a))
    BY <1>4 DEF InstallCredential
  <2>3. a \in ProviderArtifacts \cap Track(a).artifacts \cap (host \cup {a})
    BY <1>a, <2>1
  <2> HIDE DEF a
  <2> QED BY <1>a, <2>1, <2>2, <2>3, InstallDoneStep DEF InstallOrder
<1>5. CASE InstallEksArtifact
  <2>1. pc \in EksArtifacts /\ InstallDone(host \cup {pc}, Track(pc))
    BY <1>5 DEF InstallEksArtifact
  <2> QED BY <1>a, <2>1, InstallDoneStep DEF InstallOrder
<1>6. CASE SaveTruncate
  <2>1. /\ cmd.op = "install" /\ pc = "save" /\ pc' = "write" /\ file' = TornFile
        /\ UNCHANGED <<user, runcTaken, host, mem, cmd, last, faults>>
    BY <1>6 DEF SaveTruncate
  <2>2. file' \in FileType /\ file'.state = "torn"
    BY <2>1 DEF TornFile, FileType, NoArtifacts, TrackerType
  <2>3. TypeOK' /\ TrackerComplete'
    BY <2>1, <2>2 DEF FlowInv, TypeOK, TrackerComplete, Steps
  <2>4. InstallInv'
    BY <2>1, <2>2 DEF FlowInv, InstallInv, InstalledBefore
  <2> QED BY <2>1, <2>3, <2>4 DEF FlowInv, IdleInv, UninstallInv, UpgradeInv
<1>7. CASE SaveWrite
  <2>1. /\ cmd.op = "install" /\ pc = "write" /\ file' = SavedFile(mem) /\ Return("ok")
        /\ UNCHANGED <<user, runcTaken, host, faults>>
    BY <1>7 DEF SaveWrite
  <2>2. file' \in FileType /\ file'.tracker = mem
    BY <1>t, <2>1 DEF SavedFile, FileType
  <2>3. TrackerComplete'
    BY <2>1, <2>2 DEF FlowInv, InstallInv, InstalledBefore, TrackerComplete
  <2> QED BY <1>t, <2>1, <2>2, <2>3, ReturnStep
<1> QED BY <1>1, <1>2, <1>3, <1>4, <1>5, <1>6, <1>7 DEF Install

LEMMA StartUninstallStep == FlowInv /\ StartUninstall => FlowInv'
<1> SUFFICES ASSUME FlowInv, StartUninstall PROVE FlowInv'
  OBVIOUS
<1>1. CASE ReturnAtOnce("uninstall", "panic") \/ ReturnAtOnce("uninstall", "nothing")
  BY <1>1, ReturnAtOnceStep
<1>2. CASE ~(ReturnAtOnce("uninstall", "panic") \/ ReturnAtOnce("uninstall", "nothing"))
  <2>1. /\ cmd' = [Idle EXCEPT !.op = "uninstall"] /\ mem' = file.tracker /\ pc' = "kubelet"
        /\ file.state = "saved" /\ UNCHANGED <<user, runcTaken, host, file, last, faults>>
    BY <1>2 DEF StartUninstall
  <2>2. cmd' \in CmdType /\ cmd'.op = "uninstall"
    BY <2>1 DEF CmdType, Idle
  <2>3. mem' \in TrackerType /\ file = SavedFile(file.tracker)
    BY <2>1 DEF FlowInv, TypeOK, FileType, SavedFile
  <2>4. TypeOK' /\ TrackerComplete'
    BY <2>1, <2>2, <2>3 DEF FlowInv, TypeOK, TrackerComplete, Steps, UninstallOrder
  <2>5. UninstallInv'
    BY <2>1, <2>3 DEF UninstallInv, RemovedBefore, SavedFile
  <2> QED BY <2>2, <2>4, <2>5 DEF FlowInv, IdleInv, InstallInv, UpgradeInv
<1> QED BY <1>1, <1>2

\* What a step of the uninstall flow removes is the tracked component it stands
\* for, so the tracked components of the steps before it stay gone.
LEMMA UninstallFlowStep == FlowInv /\ Uninstall => FlowInv'
<1> SUFFICES ASSUME FlowInv, Uninstall PROVE FlowInv'
  OBVIOUS
<1>t. /\ host \in SUBSET Things /\ file \in FileType /\ faults \in 0..MaxFaults
      /\ mem \in TrackerType /\ runcTaken \in BOOLEAN
  BY DEF FlowInv, TypeOK
<1>1. CASE UninstallStep
  <2>1. /\ cmd.op = "uninstall" /\ pc \in DOMAIN UninstallOrder
        /\ host' = host \ UninstallRemoves /\ pc' = UninstallOrder[pc]
        /\ UNCHANGED <<user, runcTaken, file, mem, cmd, last, faults>>
    BY <1>1 DEF UninstallStep
  <2>2. pc' \in Steps
    BY <2>1 DEF UninstallOrder, Steps
  <2>3. TypeOK' /\ TrackerComplete'
    BY <2>1, <2>2 DEF FlowInv, TypeOK, TrackerComplete
  <2>4. file' = SavedFile(mem') /\ pc' \in DOMAIN RemovedBefore
    BY <2>1 DEF FlowInv, UninstallInv, UninstallOrder, RemovedBefore, SavedFile
  <2>5. RemovedBefore[pc'] \subseteq RemovedBefore[pc] \cup {pc}
    BY <2>1 DEF UninstallOrder, RemovedBefore
  <2>6. {pc} \cap Tracked(mem) \subseteq UninstallRemoves
    <3>1. CASE pc = "containerd"
      BY <3>1, <1>t DEF UninstallRemoves, Tracked, ContainerdPackage, TrackerType
    <3>2. CASE pc = "cleanup"
      BY <3>2, <1>t DEF Tracked, TrackerType
    <3>3. CASE pc # "containerd" /\ pc # "cleanup"
      BY <3>3, <1>t DEF UninstallRemoves, Tracked, TrackerType
    <3> QED BY <3>1, <3>2, <3>3
  <2>7. RemovedBefore[pc'] \cap Tracked(mem) \cap host' = {}
    BY <2>1, <2>5, <2>6 DEF FlowInv, UninstallInv
  <2>8. UninstallInv'
    BY <2>1, <2>4, <2>7 DEF UninstallInv, Tracked
  <2> QED BY <2>1, <2>3, <2>8 DEF FlowInv, IdleInv, InstallInv, UpgradeInv
<1>2. CASE UninstallClear
  <2>1. /\ cmd.op = "uninstall" /\ file' = MissingFile /\ Return("ok")
        /\ UNCHANGED <<user, runcTaken, host, faults>>
    BY <1>2 DEF UninstallClear
  <2>2. file' \in FileType /\ TrackerComplete'
    BY <2>1 DEF MissingFile, FileType, NoArtifacts, TrackerType, TrackerComplete
  <2> QED BY <1>t, <2>1, <2>2, ReturnStep
<1> QED BY <1>1, <1>2 DEF Uninstall

LEMMA StartUpgradeStep ==
    ASSUME FlowInv, NEW provider \in Providers, NEW private \in BOOLEAN,
           StartUpgrade(provider, private)
    PROVE  FlowInv'
<1>1. CASE \E result \in {"panic", "nothing", "error"} : ReturnAtOnce("upgrade", result)
  BY <1>1, ReturnAtOnceStep
<1>2. CASE ~\E result \in {"panic", "nothing", "error"} : ReturnAtOnce("upgrade", result)
  <2>1. /\ cmd' = [op |-> "upgrade", provider |-> provider, source |-> "none", private |-> private]
        /\ mem' = file.tracker /\ pc' = IF private THEN "credential" ELSE "containerd"
        /\ UNCHANGED <<user, runcTaken, host, file, last, faults>>
    BY <1>2 DEF StartUpgrade
  <2>2. cmd' \in CmdType /\ cmd'.op = "upgrade"
    BY <2>1 DEF CmdType
  <2>3. mem' \in TrackerType /\ pc' \in Steps /\ pc' \in DOMAIN UpgradeOrder
    BY <2>1 DEF FlowInv, TypeOK, FileType, Steps, UpgradeOrder
  <2>4. TypeOK' /\ TrackerComplete'
    BY <2>1, <2>2, <2>3 DEF FlowInv, TypeOK, TrackerComplete
  <2> QED BY <2>2, <2>3, <2>4 DEF FlowInv, IdleInv, InstallInv, UninstallInv, UpgradeInv
<1> QED BY <1>1, <1>2

LEMMA UpgradeFlowStep == FlowInv /\ Upgrade => FlowInv'
<1> SUFFICES ASSUME FlowInv, Upgrade PROVE FlowInv'
  OBVIOUS
<1>t. /\ host \in SUBSET Things /\ file \in FileType /\ faults \in 0..MaxFaults
      /\ TrackerComplete /\ runcTaken \in BOOLEAN
  BY DEF FlowInv, TypeOK
<1>1. CASE UpgradeStep
  <2>1. /\ cmd.op = "upgrade" /\ pc \in DOMAIN UpgradeOrder /\ pc' = UpgradeOrder[pc]
        /\ UNCHANGED <<user, runcTaken, file, mem, cmd, last, faults>>
    BY <1>1 DEF UpgradeStep
  <2>2. host' \in SUBSET Things
    BY <1>1, <1>t DEF UpgradeStep, Things
  <2>3. pc' \in Steps /\ pc' \in DOMAIN UpgradeOrder \cup {"daemons"}
    BY <2>1 DEF UpgradeOrder, Steps
  <2>4. TypeOK' /\ TrackerComplete'
    BY <2>1, <2>2, <2>3 DEF FlowInv, TypeOK, TrackerComplete
  <2> QED BY <2>1, <2>3, <2>4 DEF FlowInv, IdleInv, InstallInv, UninstallInv, UpgradeInv
<1>2. CASE UpgradeMissingFile
  <2>1. /\ cmd.op = "upgrade" /\ Return("error") /\ UNCHANGED <<user, runcTaken, host, file, faults>>
    BY <1>2 DEF UpgradeMissingFile
  <2> QED BY <1>t, <2>1, ReturnStep DEF TrackerComplete
<1>3. CASE UpgradeDaemons
  <2>1. /\ cmd.op = "upgrade" /\ Return("ok") /\ UNCHANGED <<user, runcTaken, host, file, faults>>
    BY <1>3 DEF UpgradeDaemons
  <2> QED BY <1>t, <2>1, ReturnStep DEF TrackerComplete
<1> QED BY <1>1, <1>2, <1>3 DEF Upgrade

\* Whatever part of a step's effect is left on the host, a failure leaves the
\* tracker file alone.
LEMMA FailureStep == FlowInv /\ (Abort \/ AbortInSave) => FlowInv'
<1> SUFFICES ASSUME FlowInv, Abort \/ AbortInSave PROVE FlowInv'
  OBVIOUS
<1>t. /\ host \in SUBSET Things /\ file \in FileType /\ faults \in 0..MaxFaults
      /\ TrackerComplete /\ runcTaken \in BOOLEAN
  BY DEF FlowInv, TypeOK
<1>f. faults' \in 0..MaxFaults /\ cmd.op # "idle"
  BY <1>t, NodeComponentsAssumption DEF Abort, AbortInSave
<1>r. Return("error") /\ UNCHANGED <<user, file>> /\ runcTaken' \in BOOLEAN
  BY DEF Abort, AbortInSave, FlowInv, TypeOK
<1>i. ASSUME pc \in DOMAIN InstallOrder \cup DOMAIN UpgradeOrder, pc # "configure"
      PROVE  StepThing \in Things
  BY <1>i DEF StepThing, ProviderArtifact, InstallOrder, UpgradeOrder, Things
<1>h. host' \in SUBSET Things
  <2>1. CASE cmd.op = "install" /\ pc \in DOMAIN InstallOrder /\ host' \in PartialInstall
    <3>1. PartialInstall \in SUBSET SUBSET Things
      <4>1. CASE pc = "configure"
        <5>1. RuncRemoved \subseteq SUBSET host
          BY DEF RuncRemoved
        <5> QED BY <4>1, <1>t, <5>1 DEF PartialInstall, Things
      <4>2. CASE pc = "containerd"
        BY <4>2, <1>t DEF PartialInstall, Things
      <4>3. CASE pc = "iptables"
        BY <4>3, <1>t DEF PartialInstall, Things
      <4>4. CASE pc \notin {"configure", "containerd", "iptables"}
        BY <4>4, <2>1, <1>t, <1>i DEF PartialInstall
      <4> QED BY <4>1, <4>2, <4>3, <4>4
    <3> QED BY <2>1, <3>1
  <2>2. CASE cmd.op = "upgrade" /\ host' \in PartialUpgrade
    <3>1. CASE pc \in {"containerd", "iptables", "daemons"}
      BY <2>2, <3>1, <1>t DEF PartialUpgrade
    <3>2. CASE pc \notin {"containerd", "iptables", "daemons"}
      <4>1. StepThing \in Things
        BY <2>2, <3>2, <1>i DEF FlowInv, UpgradeInv, UpgradeOrder
      <4> QED BY <2>2, <3>2, <4>1, <1>t DEF PartialUpgrade
    <3> QED BY <3>1, <3>2
  <2>3. CASE cmd.op = "uninstall" /\ host' \in PartialUninstall
    BY <2>3, <1>t DEF PartialUninstall
  <2>4. CASE UNCHANGED host
    BY <2>4, <1>t
  <2> QED BY <2>1, <2>2, <2>3, <2>4 DEF Abort, AbortInSave
<1> QED BY <1>t, <1>f, <1>r, <1>h, ReturnStep DEF TrackerComplete

LEMMA FlowInvInductive ==
    /\ Init => FlowInv
    /\ FlowInv /\ [Next]_vars => FlowInv'
<1>1. ASSUME FlowInv, [Next]_vars PROVE FlowInv'
  <2>1. ASSUME NEW op \in {"upgrade", "uninstall"}, Refuse(op) PROVE FlowInv'
    BY <1>1, <2>1, ReturnAtOnceStep DEF Refuse
  <2>2. CASE UNCHANGED vars
    BY <1>1, <2>2 DEF vars, FlowInv, TypeOK, TrackerComplete, IdleInv, InstallInv,
       UninstallInv, UpgradeInv
  <2> QED BY <1>1, <2>1, <2>2, StartInstallStep, InstallStep, StartUninstallStep,
             UninstallFlowStep, StartUpgradeStep, UpgradeFlowStep, FailureStep DEF Next
<1> QED BY <1>1, InitFlowInv

-----------------------------------------------------------------------------
\* The inductive invariant, and with it the types: how far install and uninstall are
\* says what is on the host and tracked, for every host and any number of failures.
THEOREM FlowsAreConsistent == Spec => []FlowInv
<1> QED BY FlowInvInductive, PTL DEF Spec

\* A saved tracker lists all EKS artifacts and a credential provider, however many
\* installs, upgrades and uninstalls failed (Installer.Run saves it last).
THEOREM TrackerIsComplete == Spec => []TrackerComplete
<1>1. FlowInv => TrackerComplete
  BY DEF FlowInv
<1> QED BY <1>1, FlowInvInductive, PTL DEF Spec

\* In the step that deletes the tracker file no component the file listed is left
\* on the host (Uninstaller.Run clears it last).
THEOREM ClearedIsGone == Spec => ClearedMeansGone
<1> DEFINE Cleared == (file.state = "saved" /\ file'.state = "missing")
                         => Tracked(file.tracker) \cap host' = {}
<1>1. ASSUME FlowInv, [Next]_vars PROVE [Cleared]_vars
  <2>1. CASE UninstallClear
    <3>1. cmd.op = "uninstall" /\ pc = "clear" /\ UNCHANGED host
      BY <2>1 DEF UninstallClear
    <3>2. file.tracker = mem /\ RemovedBefore["clear"] \cap Tracked(mem) \cap host = {}
      BY <1>1, <3>1 DEF FlowInv, UninstallInv, SavedFile
    <3>3. Tracked(mem) \subseteq RemovedBefore["clear"]
      BY <1>1 DEF FlowInv, TypeOK, TrackerType, Tracked, RemovedBefore
    <3> QED BY <3>1, <3>2, <3>3
  <2>2. CASE file' = TornFile \/ file' = SavedFile(mem) \/ UNCHANGED file
    BY <2>2 DEF TornFile, SavedFile
  <2>3. UninstallClear \/ file' = TornFile \/ file' = SavedFile(mem) \/ UNCHANGED file
    BY <1>1 DEF Next, vars, StartInstall, ReturnAtOnce, Install, InstallConfigure,
       InstallContainerd, InstallIptables, InstallCredential, InstallEksArtifact, InstallDone,
       SaveTruncate, SaveWrite, StartUninstall, Uninstall, UninstallStep, StartUpgrade, Upgrade,
       UpgradeStep, UpgradeMissingFile, UpgradeDaemons, Refuse, Abort, AbortInSave
  <2> QED BY <2>1, <2>2, <2>3
<1> QED BY <1>1, FlowInvInductive, PTL DEF Spec, ClearedMeansGone

-----------------------------------------------------------------------------
\* What is the user's own gets less only in the step that takes the runc.
LEMMA OwnedStep ==
    ASSUME FlowInv, [Next]_vars
    PROVE  /\ UNCHANGED user
           /\ runcTaken' = (runcTaken \/ (TakesRunc /\ "containerd" \in user)) \/ UNCHANGED runcTaken
           /\ Owned' \in {Owned, Owned \ {"containerd", "runc"}}
           /\ Owned' # Owned => TakesRunc
<1>1. /\ UNCHANGED user
      /\ runcTaken' = (runcTaken \/ (TakesRunc /\ "containerd" \in user)) \/ UNCHANGED runcTaken
  BY DEF Next, vars, StartInstall, ReturnAtOnce, Install, InstallConfigure,
     InstallContainerd, InstallIptables, InstallCredential, InstallEksArtifact, InstallDone,
     SaveTruncate, SaveWrite, StartUninstall, Uninstall, UninstallStep, UninstallClear,
     StartUpgrade, Upgrade, UpgradeStep, UpgradeMissingFile, UpgradeDaemons, Refuse, Abort,
     AbortInSave
<1>2. CASE runcTaken' = runcTaken
  BY <1>1, <1>2 DEF Owned
<1>3. CASE runcTaken' # runcTaken
  <2>1. TakesRunc /\ runcTaken' /\ ~runcTaken
    BY <1>1, <1>3 DEF FlowInv, TypeOK
  <2>2. Owned' = user \cap {"iptables"} /\ Owned \ {"containerd", "runc"} = user \cap {"iptables"}
    BY <1>1, <2>1 DEF Owned
  <2> QED BY <1>1, <2>1, <2>2
<1> QED BY <1>2, <1>3

\* The command's copy of the tracker and the file come from each other or are
\* empty, unless a step of install tracks what it has just installed.
LEMMA UntrackedInductive ==
    /\ Init => UserPackagesUntracked
    /\ FlowInv /\ UserPackagesUntracked /\ [Next]_vars => UserPackagesUntracked'
<1>1. Init => UserPackagesUntracked
  BY DEF Init, UserPackagesUntracked, UserPackagesKept, Owned, NoArtifacts, MissingFile
<1>2. ASSUME FlowInv, UserPackagesUntracked, [Next]_vars PROVE UserPackagesUntracked'
  <2> USE <1>2
  <2>t. host \in SUBSET Things /\ mem \in TrackerType /\ cmd \in CmdType /\ pc \in Steps
    BY DEF FlowInv, TypeOK
  <2>u. UNCHANGED user
    BY OwnedStep
  <2>n. NoArtifacts.containerd = "none" /\ NoArtifacts.artifacts = {}
    BY DEF NoArtifacts
  <2>o. Owned' \subseteq Owned /\ Owned \subseteq {"containerd", "runc", "iptables"}
    BY OwnedStep DEF Owned
  <2>k. ASSUME Owned \cap Owned' \subseteq host', mem' \in {mem, file.tracker, NoArtifacts},
               file'.tracker \in {mem, file.tracker, NoArtifacts}
        PROVE  UserPackagesUntracked'
    BY <2>k, <2>o, <2>n DEF UserPackagesUntracked, UserPackagesKept
  <2>h. Owned \subseteq host
    BY DEF UserPackagesUntracked, UserPackagesKept
  <2>1. ASSUME NEW provider \in Providers, NEW source \in Sources, NEW private \in BOOLEAN,
               StartInstall(provider, source, private)
        PROVE  UserPackagesUntracked'
    BY <2>1, <2>k, <2>h DEF StartInstall, ReturnAtOnce
  <2>2. CASE InstallConfigure
    <3>1. mem' = mem /\ UNCHANGED file
      BY <2>2 DEF InstallConfigure, InstallDone
    <3>2. host \ (IF TakesRunc THEN {"containerd", "runc"} ELSE {}) \subseteq host'
      BY <2>2 DEF InstallConfigure, InstallDone, RuncRemoved
    <3>3. CASE ~TakesRunc
      BY <2>h, <2>k, <3>1, <3>2, <3>3
    <3>4. CASE TakesRunc
      <4>1. runcTaken' = (runcTaken \/ "containerd" \in user)
        BY <2>2, <3>4 DEF InstallConfigure, InstallDone
      <4>2. Owned' \subseteq {"iptables"}
        BY <2>u, <4>1 DEF Owned
      <4> QED BY <2>h, <2>o, <2>k, <3>1, <3>2, <4>2
    <3> QED BY <3>3, <3>4
  <2>3. CASE InstallContainerd
    <3>1. host \subseteq host' /\ UNCHANGED file /\ mem'.artifacts = mem.artifacts
      BY <2>3, <2>t DEF InstallContainerd, InstallDone, TrackerType
    <3>2. "containerd" \in Owned => mem'.containerd = "none"
      <4>1. "containerd" \in Owned => ContainerdPresent
        BY <2>h DEF Owned, ContainerdPresent
      <4> QED BY <2>3, <2>t, <4>1 DEF InstallContainerd, InstallDone, TrackerType
    <3> QED BY <2>o, <2>h, <3>1, <3>2 DEF UserPackagesUntracked, UserPackagesKept
  <2>4. ASSUME NEW a \in Artifacts, InstallDone(host \cup {a}, Track(a)),
               a = "iptables" => "iptables" \notin Owned
        PROVE  UserPackagesUntracked'
    <3>1. host \subseteq host' /\ UNCHANGED file /\ mem' = Track(a)
      BY <2>4 DEF InstallDone
    <3>2. mem'.containerd = mem.containerd /\ mem'.artifacts = mem.artifacts \cup {a}
      BY <3>1, <2>t DEF Track, TrackerType
    <3> QED BY <2>4, <2>o, <2>h, <3>1, <3>2 DEF UserPackagesUntracked, UserPackagesKept
  <2>5. CASE InstallIptables
    <3>1. CASE "iptables" \in host
      BY <2>5, <3>1, <2>k, <2>h DEF InstallIptables, InstallDone
    <3>2. CASE "iptables" \notin host
      BY <2>5, <3>2, <2>4, <2>h DEF InstallIptables
    <3> QED BY <3>1, <3>2
  <2>6. CASE InstallCredential
    BY <2>6, <2>4 DEF InstallCredential, ProviderArtifact
  <2>7. CASE InstallEksArtifact
    BY <2>7, <2>4 DEF InstallEksArtifact
  <2>8. CASE SaveTruncate
    BY <2>8, <2>k, <2>h DEF SaveTruncate, TornFile
  <2>9. CASE SaveWrite
    BY <2>9, <2>k, <2>h DEF SaveWrite, SavedFile, Return
  <2>10. CASE StartUninstall
    BY <2>10, <2>k, <2>h DEF StartUninstall, ReturnAtOnce
  <2>11. ASSUME pc \in DOMAIN UninstallOrder PROVE UninstallRemoves \cap Owned = {}
    <3>1. CASE pc = "containerd"
      BY <3>1 DEF UninstallRemoves, ContainerdPackage, Owned, UserPackagesUntracked
    <3>2. CASE pc = "cleanup"
      BY <3>2 DEF UninstallRemoves, Owned
    <3>3. CASE pc \notin {"containerd", "cleanup"}
      BY <2>11, <3>3 DEF UninstallRemoves, Owned, UserPackagesUntracked, UninstallOrder
    <3> QED BY <3>1, <3>2, <3>3
  <2>12. CASE UninstallStep
    BY <2>12, <2>11, <2>k, <2>h DEF UninstallStep
  <2>13. CASE UninstallClear
    BY <2>13, <2>k, <2>h DEF UninstallClear, MissingFile, Return
  <2>14. ASSUME NEW provider \in Providers, NEW private \in BOOLEAN, StartUpgrade(provider, private)
         PROVE  UserPackagesUntracked'
    BY <2>14, <2>k, <2>h DEF StartUpgrade, ReturnAtOnce
  <2>15. CASE Upgrade
    BY <2>15, <2>k, <2>h DEF Upgrade, UpgradeStep, UpgradeMissingFile, UpgradeDaemons, Return
  <2>16. ASSUME NEW op \in {"upgrade", "uninstall"}, Refuse(op) PROVE UserPackagesUntracked'
    BY <2>16, <2>k, <2>h DEF Refuse, ReturnAtOnce
  <2>17. CASE Abort
    <3>1. mem' = NoArtifacts /\ UNCHANGED file
      BY <2>17 DEF Abort, Return
    <3>2. ASSUME pc \notin {"configure", "containerd", "iptables"} PROVE StepThing \notin Owned
      BY <3>2, <2>t DEF StepThing, ProviderArtifact, Owned, Steps, InstallOrder, UninstallOrder,
         UpgradeOrder
    <3>3. CASE cmd.op = "install" /\ host' \in PartialInstall
      <4>1. ASSUME pc = "configure" PROVE UserPackagesUntracked'
        <5>1. host \ (IF TakesRunc THEN {"containerd", "runc"} ELSE {}) \subseteq host'
          BY <3>3, <4>1 DEF PartialInstall, RuncRemoved
        <5>2. CASE ~TakesRunc
          BY <2>h, <2>k, <3>1, <5>1, <5>2
        <5>3. CASE TakesRunc
          <6>1. runcTaken' = (runcTaken \/ "containerd" \in user)
            BY <2>17, <5>3 DEF Abort
          <6>2. Owned' \subseteq {"iptables"}
            BY <2>u, <6>1 DEF Owned
          <6> QED BY <2>h, <2>o, <2>k, <3>1, <5>1, <6>2
        <5> QED BY <5>2, <5>3
      <4>2. ASSUME pc = "containerd" PROVE Owned \subseteq host'
        BY <2>h, <3>3, <4>2 DEF PartialInstall
      <4>3. ASSUME pc = "iptables" PROVE Owned \subseteq host'
        BY <2>h, <3>3, <4>3 DEF PartialInstall
      <4>4. ASSUME pc \notin {"configure", "containerd", "iptables"} PROVE Owned \subseteq host'
        BY <2>h, <3>2, <3>3, <4>4 DEF PartialInstall
      <4> QED BY <4>1, <4>2, <4>3, <4>4, <3>1, <2>k
    <3>4. CASE cmd.op = "upgrade" /\ host' \in PartialUpgrade
      <4>1. pc # "configure"
        BY <3>4 DEF FlowInv, UpgradeInv, UpgradeOrder
      <4>2. Owned \subseteq host'
        BY <2>h, <3>2, <3>4, <4>1 DEF PartialUpgrade
      <4> QED BY <4>2, <3>1, <2>k
    <3>5. CASE pc \in DOMAIN UninstallOrder /\ host' \in PartialUninstall
      BY <2>h, <2>11, <3>1, <3>5, <2>k DEF PartialUninstall
    <3>6. CASE UNCHANGED host
      BY <2>h, <3>1, <3>6, <2>k
    <3> QED BY <2>17, <3>3, <3>4, <3>5, <3>6 DEF Abort
  <2>18. CASE AbortInSave
    BY <2>18, <2>k, <2>h DEF AbortInSave, Return
  <2>19. CASE UNCHANGED vars
    BY <2>19, <2>k, <2>h DEF vars
  <2> QED BY <2>1, <2>2, <2>3, <2>5, <2>6, <2>7, <2>8, <2>9, <2>10, <2>12, <2>13, <2>14, <2>15,
             <2>16, <2>17, <2>18, <2>19 DEF Next, Install, Uninstall
<1> QED BY <1>1, <1>2

\* On every host, no sequence of commands and failures removes an iptables that was
\* there before nodeadm, or a containerd with its runc unless an install with the docker
\* source has taken the runc away with yum.
THEOREM UserPackagesAreKept == Spec => []UserPackagesKept
<1>1. UserPackagesUntracked => UserPackagesKept
  BY DEF UserPackagesUntracked, UserPackagesKept
<1> QED BY <1>1, FlowInvInductive, UntrackedInductive, PTL DEF Spec

-----------------------------------------------------------------------------
\* The commands implement NodeLifecycle on every host: every step of a flow, failure or
\* kill is a step of the abstract specification under the mapping of Lifecycle, or
\* leaves it alone, and only on hosts with yum is anything taken over from the user.
THEOREM ImplementsNodeLifecycle == Spec => ImplementsLifecycle
<1> DEFINE State == IF file.state = "torn" THEN "damaged" ELSE file.state
           Rec == [state |-> State, lists |-> Tracked(file.tracker)]
           Taken == IF UsesApt THEN {} ELSE {"containerd", "runc"}
<1>1. ASSUME Init PROVE Lifecycle!Init
  <2>1. host = user /\ user \in SUBSET Things
    BY <1>1, NodeComponentsAssumption DEF Init, Things
  <2>2. file.state = "missing" /\ Tracked(file.tracker) = {}
    BY <1>1 DEF Init, MissingFile, NoArtifacts, Tracked
  <2>3. Owned \subseteq user
    BY DEF Owned
  <2> QED BY <2>1, <2>2, <2>3 DEF Lifecycle!Init, Lifecycle!Record
<1>2. ASSUME FlowInv, FlowInv', UserPackagesUntracked, UserPackagesUntracked', [Next]_vars
      PROVE  [Lifecycle!Next]_Lifecycle!vars
  <2> USE <1>2
  <2>u. /\ host' \in SUBSET Things /\ Owned' \subseteq host' /\ Owned' \in {Owned, Owned \ Taken}
        /\ Owned' # Owned => TakesRunc
    BY OwnedStep DEF FlowInv, TypeOK, UserPackagesUntracked, UserPackagesKept, TakesRunc
  <2>o. pc # "configure" => Owned' = Owned
    BY <2>u DEF TakesRunc
  <2>1. CASE UNCHANGED file
    <3>1. Lifecycle!Work
      BY <2>u, <2>1 DEF Lifecycle!Work
    <3> QED BY <3>1 DEF Lifecycle!Next
  <2>2. CASE SaveTruncate
    <3>1. Lifecycle!Overwrite
      BY <2>o, <2>2 DEF SaveTruncate, Lifecycle!Overwrite, Lifecycle!Record, TornFile, NoArtifacts,
         Tracked
    <3> QED BY <3>1 DEF Lifecycle!Next
  <2>3. CASE SaveWrite
    <3>1. cmd.op = "install" /\ pc = "write" /\ file' = SavedFile(mem) /\ UNCHANGED host
      BY <2>3 DEF SaveWrite
    <3>2. /\ file.state = "torn" /\ EksArtifacts \subseteq mem.artifacts \cap host
          /\ ProviderArtifacts \cap mem.artifacts \cap host # {}
      BY <3>1 DEF FlowInv, InstallInv, InstalledBefore
    <3>3. Tracked(mem) \in SUBSET Things /\ mem.artifacts \subseteq Tracked(mem)
      BY DEF FlowInv, TypeOK, TrackerType, Tracked, Things
    <3>4. Lifecycle!Complete(Tracked(mem) \cap host)
      BY <3>2, <3>3 DEF Lifecycle!Complete
    <3>5. file'.state = "saved" /\ file'.tracker = mem
      BY <3>1 DEF SavedFile
    <3>6. Rec' = Lifecycle!Record("saved", Tracked(mem))
      BY <3>5 DEF Lifecycle!Record, Tracked
    <3>7. Rec.state = "damaged"
      BY <3>2
    <3>8. Lifecycle!Register
      BY <2>o, <3>1, <3>3, <3>4, <3>6, <3>7 DEF Lifecycle!Register
    <3> QED BY <3>8 DEF Lifecycle!Next
  <2>4. CASE UninstallClear
    <3>1. cmd.op = "uninstall" /\ pc = "clear" /\ file' = MissingFile /\ UNCHANGED host
      BY <2>4 DEF UninstallClear
    <3>2. /\ file.state = "saved" /\ file.tracker = mem
          /\ RemovedBefore["clear"] \cap Tracked(mem) \cap host = {}
      BY <3>1 DEF FlowInv, UninstallInv, SavedFile
    <3>3. Tracked(mem) \subseteq RemovedBefore["clear"]
      BY DEF FlowInv, TypeOK, TrackerType, Tracked, RemovedBefore
    <3>4. Rec.state = "saved" /\ Rec.lists \cap host = {}
      BY <3>2, <3>3
    <3>5. file'.state = "missing" /\ Tracked(file'.tracker) = {}
      BY <3>1 DEF MissingFile, NoArtifacts, Tracked
    <3>6. Lifecycle!Forget
      BY <2>o, <3>1, <3>4, <3>5 DEF Lifecycle!Forget, Lifecycle!Record, Tracked
    <3> QED BY <3>6 DEF Lifecycle!Next
  <2>5. UNCHANGED file \/ SaveTruncate \/ SaveWrite \/ UninstallClear
    BY DEF Next, vars, StartInstall, ReturnAtOnce, Install, InstallConfigure,
       InstallContainerd, InstallIptables, InstallCredential, InstallEksArtifact, InstallDone,
       StartUninstall, Uninstall, UninstallStep, StartUpgrade, Upgrade,
       UpgradeStep, UpgradeMissingFile, UpgradeDaemons, Refuse, Abort, AbortInSave
  <2> QED BY <2>1, <2>2, <2>3, <2>4, <2>5
<1> QED BY <1>1, <1>2, FlowInvInductive, UntrackedInductive, PTL
       DEF Spec, ImplementsLifecycle, Lifecycle!Spec


-----------------------------------------------------------------------------
\* What is known of nodeadm's components: the copy an install adds to, or the file.
Record == IF cmd.op = "install" THEN mem ELSE file.tracker

\* While no command has failed or was killed, every artifact on the host is the user's
\* or tracked; containerd, its runc and the docker repository are not artifacts of the
\* tracker's, and a second install gives them up (containerd.Install records "none").
NothingLost == faults = 0 => (host \cap Artifacts) \ user \subseteq Record.artifacts

\* What an upgrade works from, which is why what it installs again is tracked.
UpgradeRecord ==
    cmd.op = "upgrade" => /\ file.state = "saved"
                          /\ cmd.provider = "ssm" => "ssm" \in file.tracker.artifacts

\* Every step of a command that does not fail keeps what is on the host accounted for.
LEMMA AccountedInductive ==
    ASSUME FlowInv, UpgradeRecord, NothingLost, [Next]_vars
    PROVE  UpgradeRecord' /\ NothingLost'
<1>t. host \in SUBSET Things /\ mem \in TrackerType /\ cmd \in CmdType /\ pc \in Steps
      /\ file \in FileType
  BY DEF FlowInv, TypeOK
<1>n. NoArtifacts.artifacts = {} /\ MissingFile.tracker = NoArtifacts /\ Idle.op = "idle"
  BY DEF NoArtifacts, MissingFile, Idle
<1>1. ASSUME NEW provider \in Providers, NEW source \in Sources, NEW private \in BOOLEAN,
             StartInstall(provider, source, private)
      PROVE  UpgradeRecord' /\ NothingLost'
  BY <1>1, <1>n DEF StartInstall, ReturnAtOnce, UpgradeRecord, NothingLost, Record
<1>2. ASSUME NEW h, NEW t, InstallDone(h, t), mem.artifacts \subseteq t.artifacts,
             (h \ host) \cap Artifacts \subseteq t.artifacts
      PROVE  UpgradeRecord' /\ NothingLost'
  BY <1>2 DEF InstallDone, UpgradeRecord, NothingLost, Record
<1>3. CASE InstallConfigure
  BY <1>2, <1>3
  DEF InstallConfigure, RuncRemoved, Artifacts, EksArtifacts, ProviderArtifacts
<1>4. CASE InstallContainerd
  <2>1. \A s : [mem EXCEPT !.containerd = s].artifacts = mem.artifacts
    BY <1>t DEF TrackerType
  <2> QED BY <1>2, <1>4, <2>1 DEF InstallContainerd, Artifacts, EksArtifacts, ProviderArtifacts
<1>5. \A a : Track(a).artifacts = mem.artifacts \cup {a}
  BY <1>t DEF Track, TrackerType
<1>6. CASE InstallIptables \/ InstallCredential \/ InstallEksArtifact
  BY <1>2, <1>5, <1>6 DEF InstallIptables, InstallCredential, InstallEksArtifact
<1>7. CASE SaveTruncate
  BY <1>7 DEF SaveTruncate, UpgradeRecord, NothingLost, Record
<1>8. CASE SaveWrite
  BY <1>8, <1>n DEF SaveWrite, Return, SavedFile, UpgradeRecord, NothingLost, Record
<1>9. CASE StartUninstall
  <2>1. [Idle EXCEPT !.op = "uninstall"].op = "uninstall"
    BY DEF Idle
  <2> QED BY <1>9, <1>n, <2>1 DEF StartUninstall, ReturnAtOnce, UpgradeRecord, NothingLost, Record
<1>10. CASE UninstallStep
  BY <1>10 DEF UninstallStep, UpgradeRecord, NothingLost, Record
<1>11. CASE UninstallClear
  <2>1. file.tracker = mem /\ RemovedBefore["clear"] \cap Tracked(mem) \cap host = {}
    BY <1>11 DEF UninstallClear, FlowInv, UninstallInv, SavedFile
  <2>2. mem.artifacts \subseteq RemovedBefore["clear"] \cap Tracked(mem)
    BY <1>t DEF TrackerType, Tracked, RemovedBefore
  <2>3. host' = host /\ faults' = faults /\ user' = user /\ cmd'.op = "idle"
    BY <1>11, <1>n DEF UninstallClear, Return
  <2>4. faults = 0 => (host \cap Artifacts) \ user = {}
    BY <1>11, <2>1, <2>2 DEF UninstallClear, NothingLost, Record
  <2> QED BY <2>3, <2>4 DEF UpgradeRecord, NothingLost
<1>12. ASSUME NEW provider \in Providers, NEW private \in BOOLEAN, StartUpgrade(provider, private)
       PROVE  UpgradeRecord' /\ NothingLost'
  BY <1>12, <1>n
  DEF StartUpgrade, ReturnAtOnce, InstalledProvider, UpgradeRecord, NothingLost, Record
<1>13. CASE UpgradeStep
  <2>1. StepThing \in {"ssm", "cniPlugins"} => StepThing \in file.tracker.artifacts
    <3>1. "cniPlugins" \in file.tracker.artifacts
      BY <1>13 DEF UpgradeStep, UpgradeRecord, FlowInv, TrackerComplete, EksArtifacts
    <3>2. pc # "ssm"
      BY <1>13 DEF UpgradeStep, UpgradeOrder
    <3>3. StepThing = "ssm" => cmd.provider = "ssm"
      BY <1>t, <3>2 DEF StepThing, ProviderArtifact, CmdType, Providers
    <3> QED BY <1>13, <3>1, <3>3 DEF UpgradeStep, UpgradeRecord
  <2> QED BY <1>13, <2>1 DEF UpgradeStep, UpgradeRecord, NothingLost, Record
<1>14. CASE UpgradeMissingFile \/ UpgradeDaemons
  BY <1>14, <1>n DEF UpgradeMissingFile, UpgradeDaemons, Return, UpgradeRecord, NothingLost, Record
<1>15. ASSUME NEW op \in {"upgrade", "uninstall"}, Refuse(op) PROVE UpgradeRecord' /\ NothingLost'
  BY <1>15 DEF Refuse, ReturnAtOnce, UpgradeRecord, NothingLost, Record
<1>16. CASE Abort \/ AbortInSave
  <2>1. faults' # 0 /\ cmd'.op = "idle"
    BY <1>16, <1>n, NodeComponentsAssumption DEF Abort, AbortInSave, Return, FlowInv, TypeOK
  <2> QED BY <2>1 DEF UpgradeRecord, NothingLost
<1>17. CASE UNCHANGED vars
  BY <1>17 DEF vars, UpgradeRecord, NothingLost, Record
<1> QED
  BY <1>1, <1>3, <1>4, <1>6, <1>7, <1>8, <1>9, <1>10, <1>11, <1>12, <1>13, <1>14, <1>15, <1>16,
     <1>17
  DEF Next, Install, Uninstall, Upgrade

\* As long as no command fails, installs, upgrades, refused commands and uninstalls in any
\* order and from any source leave no artifact on the host that the tracker does not
\* list and the user did not bring; in particular an uninstall that ran to its end has
\* removed all of nodeadm's (Installer.Run, Upgrader.Run, Uninstaller.Run).
THEOREM TrackedUnlessFailed == Spec => []NothingLost
<1>1. Init => UpgradeRecord /\ NothingLost
  <2>1. ASSUME Init PROVE host = user /\ cmd.op = "idle"
    BY <2>1 DEF Init, Idle
  <2> QED BY <2>1 DEF UpgradeRecord, NothingLost
<1> QED BY <1>1, AccountedInductive, FlowInvInductive, PTL DEF Spec

-----------------------------------------------------------------------------
\* The place of a step in its flow.
InstallPlace ==
    [configure |-> 1, containerd |-> 2, iptables |-> 3, credential |-> 4, kubelet |-> 5,
     kubectl |-> 6, cniPlugins |-> 7, imageCredentialProvider |-> 8, iamAuthenticator |-> 9,
     save |-> 10, write |-> 11]
UninstallPlace ==
    [kubelet |-> 1, ssm |-> 2, containerd |-> 3, kubectl |-> 4, cniPlugins |-> 5,
     iamAuthenticator |-> 6, iamRolesAnywhere |-> 7, imageCredentialProvider |-> 8,
     iptables |-> 9, cleanup |-> 10, clear |-> 11]
UpgradePlace ==
    [containerd |-> 1, iptables |-> 2, credential |-> 3, kubelet |-> 4, kubectl |-> 5,
     imageCredentialProvider |-> 6, iamAuthenticator |-> 7, cniPlugins |-> 8, daemons |-> 9]

\* The running command goes on to a later step of its flow.
GoesOn ==
    /\ cmd' = cmd
    /\ \/ cmd.op = "install" /\ InstallPlace[pc'] > InstallPlace[pc]
       \/ cmd.op = "uninstall" /\ UninstallPlace[pc'] > UninstallPlace[pc]
       \/ cmd.op = "upgrade" /\ UpgradePlace[pc'] > UpgradePlace[pc]

\* Every step of a flow (Installer.Run, Uninstaller.Run, Upgrader.Run) ends the command or
\* goes on to a later step, whatever it finds on the host: no step is repeated by the flow,
\* so a command is over after as many steps as its flow has.
\* This is the part of UninstallConverges that is about one run of uninstall.
THEOREM FlowsRunOnce == Spec => [][cmd # Idle => cmd' = Idle \/ GoesOn]_vars
<1> DEFINE Once == cmd # Idle => cmd' = Idle \/ GoesOn
<1>1. ASSUME Next PROVE Once
  <2>1. ASSUME NEW op \in {"upgrade", "uninstall"}, Refuse(op) PROVE Once
    BY <2>1 DEF Refuse
  <2>2. ASSUME NEW provider \in Providers, NEW source \in Sources, NEW private \in BOOLEAN,
               StartInstall(provider, source, private)
        PROVE  Once
    BY <2>2 DEF StartInstall
  <2>3. ASSUME NEW provider \in Providers, NEW private \in BOOLEAN, StartUpgrade(provider, private)
        PROVE  Once
    BY <2>3 DEF StartUpgrade
  <2>4. CASE StartUninstall
    BY <2>4 DEF StartUninstall
  <2>5. ASSUME NEW h, NEW t, InstallDone(h, t), pc \in DOMAIN InstallOrder PROVE Once
    <3>1. cmd' = cmd /\ cmd.op = "install" /\ pc' = InstallOrder[pc]
      BY <2>5 DEF InstallDone
    <3>2. InstallPlace[InstallOrder[pc]] > InstallPlace[pc]
      BY <2>5 DEF InstallOrder, InstallPlace
    <3> QED BY <3>1, <3>2 DEF GoesOn
  <2>6. {"configure", "containerd", "iptables", "credential"} \cup EksArtifacts \subseteq DOMAIN InstallOrder
    BY DEF EksArtifacts, InstallOrder
  <2>7. CASE InstallConfigure \/ InstallContainerd \/ InstallIptables
    BY <2>5, <2>6, <2>7 DEF InstallConfigure, InstallContainerd, InstallIptables
  <2>8. CASE InstallCredential \/ InstallEksArtifact
    BY <2>5, <2>6, <2>8 DEF InstallCredential, InstallEksArtifact
  <2>9. CASE SaveTruncate
    BY <2>9 DEF SaveTruncate, GoesOn, InstallPlace
  <2>10. CASE UninstallStep
    <3>1. cmd' = cmd /\ cmd.op = "uninstall" /\ pc \in DOMAIN UninstallOrder /\ pc' = UninstallOrder[pc]
      BY <2>10 DEF UninstallStep
    <3>2. UninstallPlace[UninstallOrder[pc]] > UninstallPlace[pc]
      BY <3>1 DEF UninstallOrder, UninstallPlace
    <3> QED BY <3>1, <3>2 DEF GoesOn
  <2>11. CASE UpgradeStep
    <3>1. cmd' = cmd /\ cmd.op = "upgrade" /\ pc \in DOMAIN UpgradeOrder /\ pc' = UpgradeOrder[pc]
      BY <2>11 DEF UpgradeStep
    <3>2. UpgradePlace[UpgradeOrder[pc]] > UpgradePlace[pc]
      BY <3>1 DEF UpgradeOrder, UpgradePlace
    <3> QED BY <3>1, <3>2 DEF GoesOn
  <2>12. CASE SaveWrite \/ UninstallClear \/ UpgradeMissingFile \/ UpgradeDaemons \/ Abort \/ AbortInSave
    BY <2>12 DEF SaveWrite, UninstallClear, UpgradeMissingFile, UpgradeDaemons, Abort, AbortInSave, Return
  <2> QED
    BY <1>1, <2>1, <2>2, <2>3, <2>4, <2>7, <2>8, <2>9, <2>10, <2>11, <2>12
    DEF Next, Install, Uninstall, Upgrade
<1>2. [Next]_vars => [Once]_vars
  BY <1>1
<1> QED BY <1>2, PTL DEF Spec
=============================================================================
