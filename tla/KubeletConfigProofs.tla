------------------------ MODULE KubeletConfigProofs ------------------------
(***************************************************************************)
(* For any configurations, hosts and number of init commands that end      *)
(* anywhere: an init that succeeded has left files with which every        *)
(* kubelet that starts works as asked for, from which its name is read     *)
(* back, and which reserve what the tables say.                            *)
(***************************************************************************)
EXTENDS KubeletConfig, TLAPS, FiniteSetTheorems

(* What the operators depend on                                            *)

\* The generated contents depend on the configuration and the host only.
LEMMA SameHost ==
    ASSUME host' = host
    PROVE  /\ \A c, v : ConfigFile(c, v)' = ConfigFile(c, v)
           /\ \A c : Wanted(c)' = Wanted(c)
BY DEF ConfigFile, Wanted, GenerateKubeletConfig, Reserved

\* What was written depends on the files and the host.
LEMMA SameWritten ==
    ASSUME host' = host, file' = file
    PROVE  \A c, v, pc : WrittenBefore(c, v, pc)' <=> WrittenBefore(c, v, pc)
BY SameHost DEF WrittenBefore, Written

\* What is asked for of a kubelet depends on the same.
LEMMA SameFits ==
    ASSUME host' = host, file' = file
    PROVE  \A p, c : Fits(p, c)' <=> Fits(p, c)
BY SameHost DEF Fits, JoinedBefore, Readable

\* The flags of a Configure, from one step to the next.
LEMMA FlagSteps ==
    ASSUME NEW c, NEW v
    PROVE  /\ FlagsBefore(c, v, IF HasDropIn(c, v) THEN "drop-in" ELSE "kubeconfig") = ConfigFlags(c, v)
           /\ HasDropIn(c, v) =>
                 FlagsBefore(c, v, "kubeconfig")
                   = [FlagsBefore(c, v, "drop-in") EXCEPT !["config-dir"] = "config.json.d"]
           /\ FlagsBefore(c, v, "image-credential")
                = [FlagsBefore(c, v, "kubeconfig") EXCEPT ![KubeconfigFile(c)] = KubeconfigFile(c)]
           /\ FlagsBefore(c, v, "ca")
                = [FlagsBefore(c, v, "image-credential") EXCEPT
                      !["image-credential-provider-config"] = "config.json"]
           /\ FlagsBefore(c, v, "environment") = FlagsBefore(c, v, "ca")
           /\ \A pc \in {"validate", "restart", "wait"} : FlagsBefore(c, v, pc) = FlagsBefore(c, v, "environment")
<1>1. FlagsBefore(c, v, IF HasDropIn(c, v) THEN "drop-in" ELSE "kubeconfig") = ConfigFlags(c, v)
  BY DEF FlagsBefore, ConfigFlags, Past, Steps, FlagNames
<1>2. HasDropIn(c, v) =>
         FlagsBefore(c, v, "kubeconfig")
           = [FlagsBefore(c, v, "drop-in") EXCEPT !["config-dir"] = "config.json.d"]
  BY DEF FlagsBefore, Past, Steps, FlagNames
<1>3. FlagsBefore(c, v, "image-credential")
        = [FlagsBefore(c, v, "kubeconfig") EXCEPT ![KubeconfigFile(c)] = KubeconfigFile(c)]
  BY DEF FlagsBefore, Past, Steps, FlagNames, KubeconfigFile
<1>4. FlagsBefore(c, v, "ca")
        = [FlagsBefore(c, v, "image-credential") EXCEPT !["image-credential-provider-config"] = "config.json"]
  BY DEF FlagsBefore, Past, Steps, FlagNames
<1>5. /\ FlagsBefore(c, v, "environment") = FlagsBefore(c, v, "ca")
      /\ \A pc \in {"validate", "restart", "wait"} : FlagsBefore(c, v, pc) = FlagsBefore(c, v, "environment")
  BY DEF FlagsBefore, Past, Steps, FlagNames
<1> QED BY <1>1, <1>2, <1>3, <1>4, <1>5

\* Without settings of the user's, merging changes nothing.
LEMMA MergeOfNothing ==
    ASSUME NEW c, ~HasUserConfig(c)
    PROVE  Merge(GenerateKubeletConfig(c), c.user) = GenerateKubeletConfig(c)
BY DEF HasUserConfig, Merge, GenerateKubeletConfig, DefaultKubeletSubConfig

\* A flag the user does not pass has the value nodeadm or the unit gives it.
LEMMA NotOwned ==
    ASSUME NEW c, NEW flags, NEW f, ~Owns(c, {f})
    PROVE  FlagValue(Environment(flags, c), f) = IF flags[f] # None THEN flags[f] ELSE UnitFlag(f)
<1>1. LastValue(c.flags, f) = None
  BY DEF Owns, LastValue
<1> QED BY <1>1 DEF FlagValue, Environment

\* The name and the labels in the environment file.
LEMMA NameInEnvironment ==
    ASSUME NEW c, NEW v
    PROVE  LET env == Environment(FlagsBefore(c, v, "wait"), c) IN
           /\ FlagValue(env, "hostname-override") = NameOf(c)
           /\ NodeLabels(env.flags["node-labels"], env.user) = Wanted(c).labels
<1>1. /\ FlagsBefore(c, v, "wait")["hostname-override"] = c.name
      /\ FlagsBefore(c, v, "wait")["node-labels"] = IF Hybrid(c) THEN c.kind ELSE None
  BY DEF FlagsBefore, ConfigFlags, FlagNames
<1> QED BY <1>1 DEF FlagValue, UnitFlag, Environment, NameOf, Wanted

\* With the files of a whole Configure on the disk, a kubelet that starts works with what
\* was asked for, in either layout, and starts unless it does not know the directory.
LEMMA ViewFits ==
    ASSUME NEW c, NEW v \in Versions, WrittenBefore(c, v, "wait")
    PROVE  /\ Works(View) => Fits(View, c)
           /\ Works(View) \/ TooOld \/ Owns(c, {"config-dir"})
<1> DEFINE flags == FlagsBefore(c, v, "wait")
<1>0. None \notin {"config.json", "config.json.d", "kubeconfig", "bootstrap-kubeconfig"}
  BY KubeletConfigAssumption DEF FlagNames
<1>1. /\ file["environment"] = Written(Environment(flags, c))
      /\ file["config"] = Written(ConfigFile(c, v))
      /\ HasDropIn(c, v) => file["drop-in"] = Written(c.user)
      /\ file[KubeconfigFile(c)] = Written(Kubeconfig(c))
      /\ file["image-credential"] = Written(ImageCredential(c))
      /\ file["ca"] = Written(c.cluster)
  BY DEF WrittenBefore, Past, Steps
<1>2. /\ flags["config"] = "config.json"
      /\ flags["config-dir"] = IF HasDropIn(c, v) THEN "config.json.d" ELSE None
      /\ flags["image-credential-provider-config"] = "config.json"
      /\ \A f \in {"kubeconfig", "bootstrap-kubeconfig"} :
            flags[f] = IF f = KubeconfigFile(c) THEN f ELSE None
  BY DEF FlagsBefore, ConfigFlags, FlagNames, Past, Steps
<1>3. EnvironmentFile = Environment(flags, c)
  BY <1>1 DEF EnvironmentFile, Written
<1> HIDE DEF flags
<1>4. ~Owns(c, {"config"}) => Flag("config") = "config.json"
  BY <1>0, <1>2, <1>3, NotOwned DEF Flag
<1>5. ~Owns(c, {"config-dir"}) => Flag("config-dir") = IF HasDropIn(c, v) THEN "config.json.d" ELSE None
  BY <1>0, <1>2, <1>3, NotOwned DEF Flag, UnitFlag
<1>6. ~Owns(c, {"kubeconfig"}) => Flag("kubeconfig") = "kubeconfig"
  BY <1>0, <1>2, <1>3, NotOwned DEF Flag, UnitFlag
<1>7. ~Owns(c, {"bootstrap-kubeconfig"}) =>
         Flag("bootstrap-kubeconfig") = IF c.kind = "outpost" THEN "bootstrap-kubeconfig" ELSE None
  BY <1>0, <1>2, <1>3, NotOwned DEF Flag, UnitFlag, KubeconfigFile
<1>8. ~Owns(c, {"image-credential-provider-config"}) =>
         Flag("image-credential-provider-config") = "config.json"
  BY <1>0, <1>2, <1>3, NotOwned DEF Flag
<1>9. /\ Flag("hostname-override") = NameOf(c)
      /\ NodeLabels(EnvironmentFile.flags["node-labels"], EnvironmentFile.user) = Wanted(c).labels
  BY <1>3, NameInEnvironment DEF Flag, flags
<1>10. ASSUME ~Owns(c, {"config", "config-dir"}) PROVE EffectiveConfig = Wanted(c).config
  <2>1. ~Owns(c, {"config"}) /\ ~Owns(c, {"config-dir"})
    BY <1>10 DEF Owns
  <2>2. file["config"].content = ConfigFile(c, v) /\ (HasDropIn(c, v) => file["drop-in"].content = c.user)
    BY <1>1 DEF Written
  <2>3. CASE HasDropIn(c, v)
    BY <2>1, <2>2, <2>3, <1>0, <1>4, <1>5 DEF EffectiveConfig, ConfigFile, HasDropIn, Wanted
  <2>4. CASE ~HasDropIn(c, v)
    <3>1. EffectiveConfig = ConfigFile(c, v)
      BY <2>1, <2>2, <2>4, <1>0, <1>4, <1>5 DEF EffectiveConfig
    <3> QED BY <3>1, <2>4, MergeOfNothing DEF ConfigFile, HasDropIn, Wanted
  <2> QED BY <2>3, <2>4
<1>11. ASSUME ~Owns(c, {"kubeconfig", "bootstrap-kubeconfig"}), ~JoinedBefore(c)
       PROVE  EffectiveKubeconfig = Wanted(c).kubeconfig
  <2>1. ~Owns(c, {"kubeconfig"}) /\ ~Owns(c, {"bootstrap-kubeconfig"})
    BY <1>11 DEF Owns
  <2>2. CASE c.kind = "outpost"
    <3>1. Readable("bootstrap-kubeconfig") /\ file["bootstrap-kubeconfig"].content.cluster = c.cluster
      BY <2>2, <1>1 DEF KubeconfigFile, Kubeconfig, Written, Readable
    <3>2. Readable("kubeconfig") => file["kubeconfig"] = ClientOf(c.cluster)
      BY <2>2, <1>11 DEF JoinedBefore
    <3> QED BY <2>1, <2>2, <3>1, <3>2, <1>6, <1>7 DEF EffectiveKubeconfig, Wanted
  <2>3. CASE c.kind # "outpost"
    <3>1. file["kubeconfig"] = Written(Kubeconfig(c))
      BY <2>3, <1>1 DEF KubeconfigFile
    <3> QED BY <2>1, <2>3, <3>1, <1>0, <1>6, <1>7 DEF EffectiveKubeconfig, Wanted
  <2> QED BY <2>2, <2>3
<1>12. ~Owns(c, {"image-credential-provider-config"}) => EffectiveCredential = Wanted(c).credential
  BY <1>1, <1>8 DEF EffectiveCredential, Wanted
<1>13. Works(View) => Fits(View, c)
  <2>1. SUFFICES ASSUME CanStart PROVE Fits(View, c)
    BY DEF View, Works
  <2>2. /\ View.config = EffectiveConfig /\ View.name = Flag("hostname-override")
        /\ View.labels = NodeLabels(EnvironmentFile.flags["node-labels"], EnvironmentFile.user)
        /\ View.kubeconfig = EffectiveKubeconfig /\ View.credential = EffectiveCredential
        /\ View.ca = file["ca"]
    BY <2>1 DEF View
  <2>3. Wanted(c).name = NameOf(c) /\ Wanted(c).ca = Written(c.cluster)
    BY DEF Wanted
  <2> QED BY <2>2, <2>3, <1>1, <1>9, <1>10, <1>11, <1>12 DEF Fits
<1>14. ASSUME ~TooOld, ~Owns(c, {"config-dir"}) PROVE Works(View)
  <2>1. Readable("environment") /\ Readable("config") /\ (HasDropIn(c, v) => Readable("drop-in"))
    BY <1>1 DEF Readable, Written
  <2>2. CanStart
    BY <2>1, <1>0, <1>5, <1>14 DEF CanStart, TooOld
  <2> QED BY <2>2 DEF View, Works
<1> QED BY <1>13, <1>14

-----------------------------------------------------------------------------
(* The inductive invariant                                                 *)

\* An init that succeeded has left all its files; the kubelet that runs was started since
\* the last of them was written, unless its restart is still queued or was dropped.
SettledInv ==
    /\ settled # None =>
          /\ whole = settled /\ cmd.pc = "idle" /\ running # Stopped
          /\ \E ver \in Versions : WrittenBefore(settled, ver, "wait")
          /\ job \/ dropped \/ (Works(running) => Fits(running, settled))
    /\ cmd.pc = "wait" => job \/ dropped \/ (Works(running) => Fits(running, cmd.cfg))

IInv == KubeletInv /\ SettledInv

\* A step that leaves no init waiting or settled has nothing to keep.
LEMMA NothingSettled ==
    ASSUME settled' = None, cmd'.pc # "wait" PROVE SettledInv'
BY DEF SettledInv

\* Nothing that is written about changes.
LEMMA FilesKept ==
    ASSUME KubeletInv, UNCHANGED <<machine, file, cmd, whole, settled>>,
           kver' \in Versions, job' \in BOOLEAN, dropped' \in BOOLEAN
    PROVE  KubeletInv'
<1>1. TypeOK'
  BY DEF KubeletInv, TypeOK, machine
<1>2. ConfigureInv'
  BY SameWritten DEF KubeletInv, ConfigureInv, machine
<1>3. WholeInv'
  BY SameHost DEF KubeletInv, WholeInv, machine, Written, Versions
<1> QED BY <1>1, <1>2, <1>3 DEF KubeletInv

\* Whatever starts a kubelet, it starts on the files of the init that waits or succeeded.
LEMMA StartKeeps ==
    ASSUME IInv, Start, job' \in BOOLEAN, UNCHANGED <<kver, machine, file, cmd, whole, settled>>
    PROVE  IInv'
<1>1. KubeletInv'
  BY FilesKept DEF IInv, Start, KubeletInv, TypeOK
<1>2. host' = host /\ file' = file /\ cmd' = cmd /\ settled' = settled /\ running' = View
  BY DEF machine, Start
<1>3. View # Stopped
  BY DEF View, Stopped
<1>4. ASSUME settled # None
      PROVE  /\ \E ver \in Versions : WrittenBefore(settled, ver, "wait")'
             /\ Works(running)' => Fits(running, settled)'
  <2>1. PICK ver \in Versions : WrittenBefore(settled, ver, "wait")
    BY <1>4 DEF IInv, SettledInv
  <2>2. Works(View) => Fits(View, settled)
    BY <2>1, ViewFits
  <2>3. WrittenBefore(settled, ver, "wait")'
    BY <2>1, <1>2, SameWritten
  <2>4. Works(running)' => Fits(running, settled)'
    BY <2>2, <1>2, SameFits DEF Works
  <2> QED BY <2>3, <2>4
<1>5. ASSUME cmd.pc = "wait" PROVE Works(running)' => Fits(running, cmd.cfg)'
  <2>1. WrittenBefore(cmd.cfg, cmd.ver, "wait") /\ cmd.ver \in Versions
    BY <1>5 DEF IInv, KubeletInv, ConfigureInv, TypeOK
  <2>2. Works(View) => Fits(View, cmd.cfg)
    BY <2>1, ViewFits
  <2> QED BY <2>2, <1>2, SameFits DEF Works
<1>6. SettledInv'
  BY <1>2, <1>3, <1>4, <1>5 DEF IInv, SettledInv
<1> QED BY <1>1, <1>6 DEF IInv

\* The start of an init, and every file that its Configure writes.
LEMMA InitInductive ==
    ASSUME IInv,
           \/ \E cfg \in Configs : StartInit(cfg)
           \/ WriteKubeletConfig \/ WriteDropIn \/ WriteKubeconfig
           \/ WriteImageCredentialProviderConfig \/ WriteClusterCaCert \/ WriteKubeletEnvironment
    PROVE  IInv'
<1>0. TypeOK /\ ConfigureInv /\ WholeInv
  BY DEF IInv, KubeletInv
<1>s. cmd.pc # "idle" => settled = None
  BY <1>0 DEF ConfigureInv
<1>w. Past(cmd.pc, "config") => whole = IF Past(cmd.pc, "environment") THEN cmd.cfg ELSE None
  BY <1>0 DEF ConfigureInv
<1> DEFINE c == cmd.cfg
           v == cmd.ver
<1>1. ASSUME NEW cfg \in Configs, StartInit(cfg) PROVE IInv'
  <2>0. cmd' = [pc |-> "config", cfg |-> cfg, ver |-> kver, runs |-> cmd.runs + 1,
                flags |-> [f \in FlagNames |-> None]]
    BY <1>1, <1>0 DEF StartInit, TypeOK
  <2>1. TypeOK'
    <3>1. cmd.runs \in Nat
      BY <1>0 DEF TypeOK
    <3>2. /\ cmd'.pc = "config" /\ cmd'.cfg = cfg /\ cmd'.ver = kver /\ cmd'.runs = cmd.runs + 1
          /\ cmd'.flags = [f \in FlagNames |-> None]
      BY <2>0
    <3>3. cmd' = [pc |-> cmd'.pc, cfg |-> cmd'.cfg, ver |-> cmd'.ver, flags |-> cmd'.flags,
                  runs |-> cmd'.runs]
      BY <2>0, <3>2
    <3>4. kver' = kver /\ host' = host /\ site' = site /\ file' = file /\ whole' = whole /\ settled' = None
      BY <1>1 DEF StartInit, machine
    <3>5. job' \in BOOLEAN /\ dropped' \in BOOLEAN
      BY <1>1, <1>0 DEF StartInit, TypeOK, unit
    <3> QED
      BY <1>0, <3>1, <3>2, <3>3, <3>4, <3>5 DEF TypeOK, Steps
  <2>2. cmd'.pc = "config" /\ settled' = None
    BY <2>0, <1>1 DEF StartInit
  <2>3. ConfigureInv'
    BY <2>2 DEF ConfigureInv, WrittenBefore, Past, Steps
  <2>4. WholeInv'
    BY <1>1, <1>0, SameHost DEF StartInit, WholeInv, machine, Written, Versions
  <2> QED BY <2>1, <2>2, <2>3, <2>4, NothingSettled DEF IInv, KubeletInv
<1>2. CASE WriteKubeletConfig
  <2>1. TypeOK'
    BY <1>2, <1>0 DEF WriteKubeletConfig, TypeOK, Steps, ConfigFlags, Files, Written, machine, unit
  <2>2. /\ cmd'.pc = (IF HasDropIn(c, v) THEN "drop-in" ELSE "kubeconfig") /\ cmd'.cfg = c /\ cmd'.ver = v
        /\ cmd'.flags = ConfigFlags(c, v)
    BY <1>2, <1>0 DEF WriteKubeletConfig, TypeOK
  <2>3. file'["config"] = Written(ConfigFile(c, v)) /\ host' = host /\ settled' = None /\ whole' = None
    BY <1>2, <1>0, <1>s DEF WriteKubeletConfig, TypeOK, Files, machine
  <2>4. WrittenBefore(c, v, IF HasDropIn(c, v) THEN "drop-in" ELSE "kubeconfig")'
    BY <2>3, <2>2, SameHost DEF WrittenBefore, Past, Steps, Written
  <2>5. ConfigureInv'
    BY <2>2, <2>3, <2>4, FlagSteps DEF ConfigureInv, Past, Steps
  <2> QED BY <2>1, <2>2, <2>3, <2>5, NothingSettled DEF IInv, KubeletInv, WholeInv
<1>3. CASE WriteDropIn
  <2>1. TypeOK'
    BY <1>3, <1>0 DEF WriteDropIn, TypeOK, Steps, Files, Written, machine, unit
  <2>2. /\ cmd'.pc = "kubeconfig" /\ cmd'.cfg = c /\ cmd'.ver = v
        /\ cmd'.flags = [cmd.flags EXCEPT !["config-dir"] = "config.json.d"]
    BY <1>3, <1>0 DEF WriteDropIn, TypeOK
  <2>3. /\ file'["config"] = file["config"] /\ file'["drop-in"] = Written(c.user)
        /\ host' = host /\ settled' = None /\ whole' = None /\ cmd.pc = "drop-in"
    BY <1>3, <1>0, <1>s, <1>w DEF WriteDropIn, TypeOK, Files, machine, Past, Steps
  <2>4. HasDropIn(c, v) /\ cmd.flags = FlagsBefore(c, v, "drop-in") /\ file["config"] = Written(ConfigFile(c, v))
    BY <2>3, <1>0 DEF ConfigureInv, WrittenBefore, Past, Steps
  <2>5. cmd'.flags = FlagsBefore(c, v, "kubeconfig")
    BY <2>2, <2>4, FlagSteps
  <2>6. ConfigureInv'
    BY <2>2, <2>3, <2>4, <2>5, SameHost DEF ConfigureInv, WrittenBefore, Past, Steps, Written
  <2> QED BY <2>1, <2>2, <2>3, <2>6, NothingSettled DEF IInv, KubeletInv, WholeInv
<1>4. CASE WriteKubeconfig
  <2>1. TypeOK'
    BY <1>4, <1>0 DEF WriteKubeconfig, TypeOK, Steps, Files, Written, KubeconfigFile, machine, unit
  <2>2. /\ cmd'.pc = "image-credential" /\ cmd'.cfg = c /\ cmd'.ver = v
        /\ cmd'.flags = [cmd.flags EXCEPT ![KubeconfigFile(c)] = KubeconfigFile(c)]
    BY <1>4, <1>0 DEF WriteKubeconfig, TypeOK
  <2>3. /\ \A f \in {"config", "drop-in"} : file'[f] = file[f]
        /\ file'[KubeconfigFile(c)] = Written(Kubeconfig(c))
        /\ host' = host /\ settled' = None /\ whole' = None /\ cmd.pc = "kubeconfig"
    BY <1>4, <1>0, <1>s, <1>w DEF WriteKubeconfig, TypeOK, Files, KubeconfigFile, machine, Past, Steps
  <2>4. /\ cmd.flags = FlagsBefore(c, v, "kubeconfig") /\ file["config"] = Written(ConfigFile(c, v))
        /\ HasDropIn(c, v) => file["drop-in"] = Written(c.user)
    BY <2>3, <1>0 DEF ConfigureInv, WrittenBefore, Past, Steps
  <2>5. cmd'.flags = FlagsBefore(c, v, "image-credential")
    BY <2>2, <2>4, FlagSteps
  <2>6. ConfigureInv'
    BY <2>2, <2>3, <2>4, <2>5, SameHost DEF ConfigureInv, WrittenBefore, Past, Steps, Written
  <2> QED BY <2>1, <2>2, <2>3, <2>6, NothingSettled DEF IInv, KubeletInv, WholeInv
<1>5. CASE WriteImageCredentialProviderConfig
  <2>1. TypeOK'
    BY <1>5, <1>0 DEF WriteImageCredentialProviderConfig, TypeOK, Steps, Files, Written, machine, unit
  <2>2. /\ cmd'.pc = "ca" /\ cmd'.cfg = c /\ cmd'.ver = v
        /\ cmd'.flags = [cmd.flags EXCEPT !["image-credential-provider-config"] = "config.json"]
    BY <1>5, <1>0 DEF WriteImageCredentialProviderConfig, TypeOK
  <2>3. /\ \A f \in Files \ {"image-credential"} : file'[f] = file[f]
        /\ file'["image-credential"] = Written(ImageCredential(c))
        /\ host' = host /\ settled' = None /\ whole' = None /\ cmd.pc = "image-credential"
    BY <1>5, <1>0, <1>s, <1>w DEF WriteImageCredentialProviderConfig, TypeOK, Files, machine, Past, Steps
  <2>4. /\ cmd.flags = FlagsBefore(c, v, "image-credential") /\ file["config"] = Written(ConfigFile(c, v))
        /\ HasDropIn(c, v) => file["drop-in"] = Written(c.user)
        /\ file[KubeconfigFile(c)] = Written(Kubeconfig(c))
    BY <2>3, <1>0 DEF ConfigureInv, WrittenBefore, Past, Steps
  <2>5. cmd'.flags = FlagsBefore(c, v, "ca")
    BY <2>2, <2>4, FlagSteps
  <2>6. ConfigureInv'
    BY <2>2, <2>3, <2>4, <2>5, SameHost
    DEF ConfigureInv, WrittenBefore, Past, Steps, Written, Files, KubeconfigFile
  <2> QED BY <2>1, <2>2, <2>3, <2>6, NothingSettled DEF IInv, KubeletInv, WholeInv
<1>6. CASE WriteClusterCaCert
  <2>1. TypeOK'
    BY <1>6, <1>0 DEF WriteClusterCaCert, TypeOK, Steps, Files, Written, machine, unit
  <2>2. cmd'.pc = "environment" /\ cmd'.cfg = c /\ cmd'.ver = v /\ cmd'.flags = cmd.flags
    BY <1>6, <1>0 DEF WriteClusterCaCert, TypeOK
  <2>3. /\ \A f \in Files \ {"ca"} : file'[f] = file[f]
        /\ file'["ca"] = Written(c.cluster)
        /\ host' = host /\ settled' = None /\ whole' = None /\ cmd.pc = "ca"
    BY <1>6, <1>0, <1>s, <1>w DEF WriteClusterCaCert, TypeOK, Files, machine, Past, Steps
  <2>4. /\ cmd.flags = FlagsBefore(c, v, "ca") /\ file["config"] = Written(ConfigFile(c, v))
        /\ HasDropIn(c, v) => file["drop-in"] = Written(c.user)
        /\ file[KubeconfigFile(c)] = Written(Kubeconfig(c))
        /\ file["image-credential"] = Written(ImageCredential(c))
    BY <2>3, <1>0 DEF ConfigureInv, WrittenBefore, Past, Steps
  <2>5. cmd'.flags = FlagsBefore(c, v, "environment")
    BY <2>2, <2>4, FlagSteps
  <2>6. ConfigureInv'
    BY <2>2, <2>3, <2>4, <2>5, SameHost
    DEF ConfigureInv, WrittenBefore, Past, Steps, Written, Files, KubeconfigFile
  <2> QED BY <2>1, <2>2, <2>3, <2>6, NothingSettled DEF IInv, KubeletInv, WholeInv
<1>7. CASE WriteKubeletEnvironment
  <2>1. TypeOK'
    BY <1>7, <1>0 DEF WriteKubeletEnvironment, TypeOK, Steps, Files, Written, machine, unit
  <2>2. /\ cmd'.pc \in {"validate", "restart"} /\ cmd'.cfg = c /\ cmd'.ver = v /\ cmd'.flags = cmd.flags
        /\ v \in Versions
    BY <1>7, <1>0 DEF WriteKubeletEnvironment, TypeOK
  <2>3. /\ \A f \in Files \ {"environment"} : file'[f] = file[f]
        /\ file'["environment"] = Written(Environment(cmd.flags, c))
        /\ host' = host /\ settled' = None /\ whole' = c /\ cmd.pc = "environment"
    BY <1>7, <1>0, <1>s DEF WriteKubeletEnvironment, TypeOK, Files, machine
  <2>4. /\ cmd.flags = FlagsBefore(c, v, "environment") /\ file["config"] = Written(ConfigFile(c, v))
        /\ HasDropIn(c, v) => file["drop-in"] = Written(c.user)
        /\ file[KubeconfigFile(c)] = Written(Kubeconfig(c))
        /\ file["image-credential"] = Written(ImageCredential(c))
        /\ file["ca"] = Written(c.cluster)
    BY <2>3, <1>0 DEF ConfigureInv, WrittenBefore, Past, Steps
  <2>5. cmd'.flags = FlagsBefore(c, v, "wait") /\ cmd'.flags = FlagsBefore(c, v, cmd'.pc)
    BY <2>2, <2>4, FlagSteps
  <2>6. /\ file'["environment"] = Written(Environment(FlagsBefore(c, v, "wait"), c))
        /\ file'["config"] = Written(ConfigFile(c, v)')
    BY <2>2, <2>3, <2>4, <2>5, SameHost DEF Files
  <2>7. ConfigureInv'
    BY <2>2, <2>3, <2>4, <2>5, <2>6
    DEF ConfigureInv, WrittenBefore, Past, Steps, Written, Files, KubeconfigFile
  <2>8. WholeInv'
    BY <2>2, <2>3, <2>6 DEF WholeInv, Written, Versions
  <2> QED BY <2>1, <2>2, <2>3, <2>7, <2>8, NothingSettled DEF IInv, KubeletInv
<1> QED BY <1>1, <1>2, <1>3, <1>4, <1>5, <1>6, <1>7

\* The check of the credentials, the restart and its end.
LEMMA EnsureRunningInductive ==
    ASSUME IInv, ValidateAuthentication \/ RestartDaemon \/ WaitForStatus PROVE IInv'
<1>0. TypeOK /\ ConfigureInv /\ WholeInv /\ SettledInv
  BY DEF IInv, KubeletInv
<1>1. host' = host /\ file' = file /\ whole' = whole /\ cmd.pc \in {"validate", "restart", "wait"}
  BY DEF ValidateAuthentication, RestartDaemon, WaitForStatus, machine
<1>2. WholeInv'
  BY <1>0, <1>1, SameHost DEF WholeInv, Written, Versions
<1>c. PICK c, v : c = cmd.cfg /\ v = cmd.ver
  OBVIOUS
<1>3. /\ c \in Configs /\ v \in Versions /\ settled = None /\ whole = c /\ c # None
      /\ WrittenBefore(c, v, cmd.pc) /\ cmd.flags = FlagsBefore(c, v, "wait")
  BY <1>0, <1>1, <1>c, FlagSteps, KubeletConfigAssumption DEF TypeOK, ConfigureInv, Past, Steps
<1>4. WrittenBefore(c, v, "validate") /\ WrittenBefore(c, v, "restart") /\ WrittenBefore(c, v, "wait")
  BY <1>1, <1>3 DEF WrittenBefore, Past, Steps
<1>5. CASE ValidateAuthentication \/ RestartDaemon
  <2>1. TypeOK'
    BY <1>5, <1>0 DEF ValidateAuthentication, RestartDaemon, TypeOK, Steps, machine, unit
  <2>2. /\ cmd'.pc \in {"restart", "wait"} /\ cmd'.cfg = c /\ cmd'.ver = v /\ cmd'.flags = cmd.flags
        /\ settled' = None /\ (cmd'.pc = "wait" => job')
    BY <1>5, <1>0, <1>3, <1>c DEF ValidateAuthentication, RestartDaemon, TypeOK
  <2>3. WrittenBefore(c, v, "restart")' /\ WrittenBefore(c, v, "wait")'
    BY <1>1, <1>4, SameWritten
  <2>4. cmd'.flags = FlagsBefore(c, v, cmd'.pc)
    BY <2>2, <1>3, FlagSteps
  <2>5. ConfigureInv'
    BY <2>2, <2>3, <2>4, <1>1, <1>3, <1>c DEF ConfigureInv, Past, Steps
  <2>6. SettledInv'
    BY <2>2 DEF SettledInv
  <2> QED BY <2>1, <2>5, <2>6, <1>2 DEF IInv, KubeletInv
<1>6. CASE WaitForStatus
  <2>1. TypeOK'
    BY <1>6, <1>0, <1>3, <1>c DEF WaitForStatus, EndInit, NoCmd, TypeOK, machine, unit
  <2>2. /\ cmd'.pc = "idle" /\ settled' = c /\ running' = running /\ running # Stopped /\ cmd.pc = "wait"
        /\ job' = job /\ dropped' = dropped
    BY <1>6, <1>c DEF WaitForStatus, EndInit, NoCmd, unit
  <2>3. ConfigureInv'
    BY <2>2 DEF ConfigureInv, WrittenBefore, Past, Steps
  <2>4. WrittenBefore(c, v, "wait")'
    BY <1>1, <1>4, SameWritten
  <2>5. job \/ dropped \/ (Works(running) => Fits(running, c)')
    BY <2>2, <1>0, <1>1, <1>c, SameFits DEF SettledInv
  <2>6. SettledInv'
    BY <2>2, <2>4, <2>5, <1>1, <1>3 DEF SettledInv, Works
  <2> QED BY <2>1, <2>3, <2>6, <1>2 DEF IInv, KubeletInv
<1> QED BY <1>5, <1>6

\* The kubelet of an Outpost writes the one file that no Configure there writes.
LEMMA BootstrapInductive ==
    ASSUME IInv, KubeletBootstraps PROVE IInv'
<1>0. TypeOK /\ ConfigureInv /\ WholeInv /\ SettledInv
  BY DEF IInv, KubeletInv
<1>1. /\ host' = host /\ UNCHANGED <<cmd, unit, whole, settled>> /\ ~Readable("kubeconfig")
      /\ \A f \in Files \ {"kubeconfig"} : file'[f] = file[f]
      /\ file'["kubeconfig"] = running.kubeconfig
      /\ running' = running /\ job' = job /\ dropped' = dropped
  BY <1>0 DEF KubeletBootstraps, TypeOK, Files, machine, unit
<1>2. TypeOK'
  BY <1>0 DEF KubeletBootstraps, TypeOK, Files, machine, unit
<1>3. \A c, v, pc : WrittenBefore(c, v, pc) => WrittenBefore(c, v, pc)'
  <2>1. SUFFICES ASSUME NEW c, NEW v, NEW pc, WrittenBefore(c, v, pc) PROVE WrittenBefore(c, v, pc)'
    OBVIOUS
  <2>2. Past(pc, "kubeconfig") => file'[KubeconfigFile(c)] = Written(Kubeconfig(c))
    BY <1>1, <2>1 DEF WrittenBefore, Readable, Written, KubeconfigFile, Files
  <2> QED BY <1>1, <2>1, <2>2, SameHost DEF WrittenBefore, Written, Files
<1>4. ConfigureInv'
  BY <1>0, <1>1, <1>3 DEF ConfigureInv
<1>5. WholeInv'
  BY <1>0, <1>1, SameHost DEF WholeInv, Written, Versions, Files
<1>6. \A c : Fits(running, c) => Fits(running, c)'
  BY <1>1, SameHost DEF Fits, JoinedBefore
<1>7. SettledInv'
  BY <1>0, <1>1, <1>3, <1>6 DEF SettledInv, Works
<1> QED BY <1>2, <1>4, <1>5, <1>7 DEF IInv, KubeletInv

\* Every file that Configure writes, every end of it, every start of a kubelet and every
\* other command keeps the invariant.
LEMMA IInvInductive ==
    ASSUME IInv, [Next]_vars PROVE IInv'
<1>0. TypeOK /\ ConfigureInv /\ WholeInv /\ SettledInv
  BY DEF IInv, KubeletInv
<1>1. CASE InitEndsEarly
  <2>1. /\ cmd'.pc = "idle" /\ settled' = None /\ host' = host /\ whole' = whole
        /\ file' = [f \in Files |-> file'[f]]
        /\ \A f \in Files \ FileOfStep : file'[f] = file[f]
        /\ \A f \in Files : file'[f] \in {Torn, file[f]}
    BY <1>1, <1>0 DEF InitEndsEarly, EndInit, NoCmd, ConfigureInv, machine
  <2>2. TypeOK'
    BY <1>1, <1>0, <2>1 DEF InitEndsEarly, EndInit, NoCmd, TypeOK, Torn, machine, unit
  <2>3. ConfigureInv'
    BY <2>1 DEF ConfigureInv, WrittenBefore, Past, Steps
  <2>4. whole # None => "environment" \notin FileOfStep
    <3>1. cmd.pc = "environment" => whole = None
      BY <1>0 DEF ConfigureInv, Past, Steps
    <3> QED BY <3>1 DEF FileOfStep, KubeconfigFile
  <2>5. WholeInv'
    BY <2>1, <2>4, <1>0, SameHost DEF WholeInv, Written, Versions, Files
  <2> QED BY <2>1, <2>2, <2>3, <2>5, NothingSettled DEF IInv, KubeletInv
<1>2. CASE RunJob \/ KubeletRestarts \/ Reboot
  <2>1. Start /\ job' \in BOOLEAN /\ UNCHANGED <<kver, machine, file, cmd, whole, settled>>
    BY <1>2, <1>0 DEF RunJob, KubeletRestarts, Reboot, TypeOK
  <2> QED BY <2>1, StartKeeps
<1>3. CASE JobDropped \/ ReplaceKubelet \/ UNCHANGED vars
  <2>1. /\ UNCHANGED <<machine, file, cmd, whole, settled>>
        /\ kver' \in Versions /\ job' \in BOOLEAN /\ dropped' \in BOOLEAN
        /\ running' = running /\ (~job' /\ ~dropped' => ~job /\ ~dropped)
    BY <1>3, <1>0 DEF JobDropped, ReplaceKubelet, vars, TypeOK, unit
  <2>2. KubeletInv'
    BY <2>1, FilesKept DEF IInv
  <2>3. host' = host /\ file' = file /\ cmd' = cmd /\ whole' = whole /\ settled' = settled
    BY <2>1 DEF machine
  <2>4. SettledInv'
    BY <2>1, <2>3, <1>0, SameFits, SameWritten DEF SettledInv, Works
  <2> QED BY <2>2, <2>4 DEF IInv
<1>4. CASE Uninstall
  <2>1. TypeOK'
    BY <1>4, <1>0 DEF Uninstall, TypeOK, Missing, machine
  <2>2. cmd'.pc = "idle" /\ settled' = None /\ whole' = None
    BY <1>4 DEF Uninstall
  <2>3. ConfigureInv'
    BY <2>2 DEF ConfigureInv, WrittenBefore, Past, Steps
  <2> QED BY <2>1, <2>2, <2>3, NothingSettled DEF IInv, KubeletInv, WholeInv
<1> QED
  BY <1>1, <1>2, <1>3, <1>4, InitInductive, EnsureRunningInductive, BootstrapInductive DEF Next

LEMMA IInvHolds == Spec => []IInv
<1>1. ASSUME Init PROVE IInv
  BY <1>1, KubeletConfigAssumption
  DEF Init, IInv, KubeletInv, SettledInv, TypeOK, ConfigureInv, WholeInv, WrittenBefore, NoCmd, Missing,
      Past, Steps, Files
<1>2. IInv /\ [Next]_vars => IInv'
  BY IInvInductive
<1> QED BY <1>1, <1>2, PTL DEF Spec

\* The inductive invariant of the files, for any configurations, hosts and number of
\* inits: what Configure has written so far is there and named by the flags, although
\* kubelets start, fail and write meanwhile, and inits end anywhere.
THEOREM ConfiguringIsConsistent == Spec => []KubeletInv
<1>1. IInv => KubeletInv
  BY DEF IInv
<1> QED BY <1>1, IInvHolds, PTL

\* After an init that succeeded every kubelet that starts, and the one that runs once its
\* restart is done, works with exactly what the configuration asks for, whatever earlier
\* commands left on the disk.
THEOREM OkIsEffective == Spec => []OkMeansEffective
<1>1. ASSUME IInv, settled # None
      PROVE  /\ Works(View) => Fits(View, settled)
             /\ Works(View) \/ TooOld \/ Owns(settled, {"config-dir"})
             /\ running # Stopped
             /\ job \/ dropped \/ (Works(running) => Fits(running, settled))
  <2>1. PICK ver \in Versions : WrittenBefore(settled, ver, "wait")
    BY <1>1 DEF IInv, SettledInv
  <2>2. /\ Works(View) => Fits(View, settled)
        /\ Works(View) \/ TooOld \/ Owns(settled, {"config-dir"})
    BY <2>1, ViewFits
  <2> QED BY <2>2, <1>1 DEF IInv, SettledInv
<1>2. IInv => OkMeansEffective
  BY <1>1 DEF OkMeansEffective
<1> QED BY <1>2, IInvHolds, PTL

\* The provider ID in a configuration file of either layout.
LEMMA ProviderIdInFile ==
    ASSUME NEW c, NEW v \in Versions, Hybrid(c), ~IdReplaced(c)
    PROVE  ConfigFile(c, v)["providerID"] = <<"eks-hybrid", c.cluster, c.name>>
<1>1. GenerateKubeletConfig(c)["providerID"] = <<"eks-hybrid", c.cluster, c.name>>
  BY DEF GenerateKubeletConfig, DefaultKubeletSubConfig, Settings, ProviderId
<1> QED BY <1>1 DEF ConfigFile, Merge, Settings, IdReplaced

\* GetNodeName, which upgrade, uninstall and debug use, reads the name from the file under
\* which every kubelet that starts registers, in both layouts of the configuration and
\* also after inits that ended anywhere but between the configuration and the environment.
THEOREM NameIsReadBack == Spec => []NodeNameReadBack
<1>1. ASSUME IInv, whole # None, Hybrid(whole), ~IdReplaced(whole), NameOf(whole) = whole.name
      PROVE  /\ GetNodeName \in {None, whole.name}
             /\ Works(View) => View.name = whole.name
             /\ settled # None =>
                   /\ GetNodeName = settled.name
                   /\ job \/ dropped \/ (Works(running) => running.name = GetNodeName)
  <2>1. PICK v \in Versions :
            /\ file["environment"] = Written(Environment(FlagsBefore(whole, v, "wait"), whole))
            /\ file["config"] \in {Torn, Written(ConfigFile(whole, v))}
    BY <1>1 DEF IInv, KubeletInv, WholeInv
  <2>2. ASSUME NEW w \in Versions, file["config"] = Written(ConfigFile(whole, w))
        PROVE  GetNodeName = whole.name
    <3>1. Readable("config") /\ file["config"].content = ConfigFile(whole, w)
      BY <2>2 DEF Readable, Written
    <3> QED BY <3>1, <1>1, ProviderIdInFile DEF GetNodeName
  <2>3. file["config"] = Torn => GetNodeName = None
    BY DEF GetNodeName, Readable, Torn
  <2>4. EnvironmentFile = Environment(FlagsBefore(whole, v, "wait"), whole)
    BY <2>1 DEF EnvironmentFile, Written
  <2>5. Works(View) => View.name = whole.name
    <3>1. Flag("hostname-override") = NameOf(whole)
      BY <2>4, NameInEnvironment DEF Flag
    <3> QED BY <3>1, <1>1 DEF View, Works
  <2>6. ASSUME settled # None
        PROVE  /\ GetNodeName = settled.name
               /\ job \/ dropped \/ (Works(running) => running.name = GetNodeName)
    <3>1. PICK w \in Versions : whole = settled /\ WrittenBefore(settled, w, "wait")
      BY <1>1, <2>6 DEF IInv, SettledInv
    <3>2. GetNodeName = settled.name
      BY <3>1, <2>2 DEF WrittenBefore, Past, Steps
    <3>3. job \/ dropped \/ (Works(running) => running.name = NameOf(settled))
      BY <1>1, <2>6 DEF IInv, SettledInv, Fits, Wanted
    <3> QED BY <3>1, <3>2, <3>3, <1>1
  <2> QED BY <2>1, <2>2, <2>3, <2>5, <2>6
<1>2. IInv => NodeNameReadBack
  BY <1>1 DEF NodeNameReadBack
<1> QED BY <1>2, IInvHolds, PTL

-----------------------------------------------------------------------------
(* The tables, for every size of a host                                    *)

\* The switch of withHybridReservedResources is the table in its comment.
LEMMA SwitchIsTable ==
    \A gib \in Nat : MemoryHundredths(gib) = MemoryTable(gib)
BY DEF MemoryHundredths, MemoryTable, Share

\* Its bounds, once rounded, with the edge at 1 GiB: for every number of GiB.
LEMMA MemoryFollowsTable ==
    ASSUME NEW gib \in Nat PROVE MemoryPerTable(gib)
<1> DEFINE h(g) == MemoryHundredths(g)
<1>1. \A g \in Nat : HybridMemoryToReserve(1024 * g) = IF g < 1 THEN 255 ELSE 1024 * Round(h(g))
  BY DEF HybridMemoryToReserve
<1>2. h(gib) \in Nat /\ h(gib + 1) \in Nat /\ h(gib) <= h(gib + 1) /\ h(gib + 1) <= h(gib) + 25
      /\ h(gib) <= 25 * gib /\ (gib >= 2 => h(gib) >= 50) /\ h(1) = 25
  BY DEF MemoryHundredths
<1> HIDE DEF h
<1>3. \A x \in Nat : /\ Round(x) \in Nat
                    /\ 100 * Round(x) <= x + 50 /\ x - 50 <= 100 * Round(x)
  BY DEF Round
<1>4. Round(h(gib)) <= Round(h(gib + 1)) /\ Round(h(gib + 1)) <= Round(h(gib)) + 1
  BY <1>2 DEF Round
<1>5. gib >= 1 => Round(h(gib)) < gib
  BY <1>2 DEF Round
<1>6. MemoryTable(gib) = h(gib)
  BY SwitchIsTable DEF h
<1>7. /\ HybridMemoryToReserve(1024 * gib) = IF gib < 1 THEN 255 ELSE 1024 * Round(h(gib))
      /\ HybridMemoryToReserve(1024 * (gib + 1)) = 1024 * Round(h(gib + 1))
  BY <1>1
<1>8. Round(h(gib)) \in Nat /\ Round(h(gib + 1)) \in Nat
  BY <1>2, <1>3
<1>9. 100 * Round(h(gib)) <= h(gib) + 50 /\ h(gib) - 50 <= 100 * Round(h(gib))
  BY <1>2, <1>3
<1>10. gib >= 1 => (Round(h(gib)) = 0 <=> gib = 1)
  BY <1>2 DEF Round
<1>11. gib = 0 => Round(h(gib + 1)) = 0
  BY <1>2 DEF Round
<1>12. CASE gib >= 1
  BY <1>12, <1>2, <1>4, <1>5, <1>6, <1>7, <1>8, <1>9, <1>10 DEF MemoryPerTable
<1>13. CASE gib = 0
  BY <1>13, <1>7, <1>11 DEF MemoryPerTable
<1> QED BY <1>12, <1>13

\* Every whole core is reserved at most 60 of its 1000 millicores.
LEMMA CPUFollowsTable ==
    ASSUME NEW n \in Nat PROVE CPUPerTable(1000 * n)
BY DEF CPUPerTable, CPUMillicoresToReserve, InRange

\* GetMilliNumCores is an error or a number of whole cores.
LEMMA WholeCores ==
    ASSUME NEW h \in Hosts, GetMilliNumCores(h.topology) >= 0
    PROVE  \E n \in Nat : GetMilliNumCores(h.topology) = 1000 * n
<1> DEFINE online == {c \in h.topology.cpus : IsCPUOnline(h.topology.online, c.id)}
           counted == {c \in online : c.ids = "there"}
<1>1. IsFiniteSet(h.topology.cpus)
  BY KubeletConfigAssumption
<1>2. Cardinality(h.topology.cpus) \in Nat
  BY <1>1, FS_CardinalityType
<1>3. counted \subseteq h.topology.cpus
  OBVIOUS
<1>4. Cardinality(counted) \in Nat
  BY <1>1, <1>3, FS_Subset, FS_CardinalityType
<1>5. GetMilliNumCores(h.topology)
        \in {-1, 1000 * Cardinality(h.topology.cpus), 1000 * Cardinality(counted)}
  BY DEF GetMilliNumCores
<1> HIDE DEF counted
<1> QED BY <1>2, <1>4, <1>5

\* What a configured hybrid node reserves follows the tables of the code's comments on
\* every host, whatever its memory and its CPUs, but for the memory of one with 1 GiB.
THEOREM ReserveFollowsTable == Spec => []ReservedPerTable
<1>1. ASSUME IInv, settled # None, Hybrid(settled), settled.user["kubeReserved"] = None
      PROVE  LET reserved == file["config"].content["kubeReserved"]
                 gib == host.memory \div 1024
                 milli == GetMilliNumCores(host.topology)
             IN /\ reserved.memory = HybridMemoryToReserve(1024 * gib)
                /\ MemoryPerTable(gib)
                /\ milli >= 0 => reserved.cpu = CPUMillicoresToReserve(milli) /\ CPUPerTable(milli)
  <2>1. host \in Hosts /\ host.memory \in Nat
    BY <1>1, KubeletConfigAssumption DEF IInv, KubeletInv, TypeOK
  <2>0. PICK v \in Versions : WrittenBefore(settled, v, "wait")
    BY <1>1 DEF IInv, SettledInv
  <2>2. file["config"].content = ConfigFile(settled, v)
    BY <2>0 DEF WrittenBefore, Past, Steps, Written
  <2>3. file["config"].content["kubeReserved"] = Reserved(settled)
    <3>1. GenerateKubeletConfig(settled)["kubeReserved"] = Reserved(settled)
      BY DEF GenerateKubeletConfig, DefaultKubeletSubConfig, Settings
    <3> QED BY <1>1, <2>2, <3>1 DEF ConfigFile, Merge, Settings
  <2>4. /\ Reserved(settled).memory = HybridMemoryToReserve(host.memory)
        /\ Reserved(settled).cpu = CPUMillicoresToReserve(GetMilliNumCores(host.topology))
    BY <1>1 DEF Reserved
  <2>5. host.memory \div 1024 \in Nat
    BY <2>1
  <2>6. HybridMemoryToReserve(host.memory) = HybridMemoryToReserve(1024 * (host.memory \div 1024))
    BY <2>1 DEF HybridMemoryToReserve
  <2>7. MemoryPerTable(host.memory \div 1024)
    BY <2>5, MemoryFollowsTable
  <2>8. GetMilliNumCores(host.topology) >= 0 => CPUPerTable(GetMilliNumCores(host.topology))
    BY <2>1, WholeCores, CPUFollowsTable
  <2> QED BY <2>3, <2>4, <2>6, <2>7, <2>8
<1>2. IInv => ReservedPerTable
  BY <1>1 DEF ReservedPerTable
<1> QED BY <1>2, IInvHolds, PTL
=============================================================================
