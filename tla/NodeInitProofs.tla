--------------------------- MODULE NodeInitProofs ---------------------------
(* Proofs about NodeInit, for any node configurations, hosts and skip lists, *)
(* and any number of commands and faults.                                   *)
EXTENDS NodeInit, TLAPS

\* The validations are nine, and the fourth is the one of the certificate.
LEMMA ValidationsFacts ==
    /\ DOMAIN Validations = 1..9
    /\ Validations[4] = "kubelet-cert-validation"
    /\ \A i \in 1..9 : Validations[i] = "kubelet-cert-validation" => i = 4
BY DEF Validations

\* Every file is written once, the drop-in second.
LEMMA WriteOrderFacts ==
    /\ DOMAIN WriteOrder = 1..7
    /\ \A i \in 1..7 : WriteOrder[i] \in Files
    /\ WriteOrder[2] = "dropin"
    /\ \A f \in Files : \E i \in 1..7 : WriteOrder[i] = f
    /\ \A i, j \in 1..7 : WriteOrder[i] = WriteOrder[j] => i = j
BY DEF WriteOrder, Files

\* Every step of the specification keeps the types.
LEMMA TypeNext == TypeOK /\ [Next]_vars => TypeOK'
<1> SUFFICES ASSUME TypeOK, [Next]_vars PROVE TypeOK'
  OBVIOUS
<1> USE DEF TypeOK, provider, units, aspects, run, Goto, Return, Steps
<1>1. ASSUME NEW kind \in {"init", "upgrade"}, NEW c \in NodeConfigs, NEW skip \in SkipSets,
             Start(kind, c, skip)
      PROVE TypeOK'
  BY <1>1, NodeInitAssumption DEF Start, NothingSeen, SeenType
<1>2. CASE InstallValidation
  BY <1>2 DEF InstallValidation
<1>3. CASE CniValidation
  BY <1>3 DEF CniValidation, Flushed, FirewallType
<1>4. CASE LoadConfig
  BY <1>4 DEF LoadConfig
<1>5. CASE ConfigureAws
  BY <1>5 DEF ConfigureAws
<1>6. CASE StartAgent
  BY <1>6, NodeInitAssumption DEF StartAgent, Config, ConfigType
<1>7. CASE WaitForCredentials
  BY <1>7 DEF WaitForCredentials
<1>8. CASE Enrich
  <2>1. PICK b \in BOOLEAN : seen' = [seen EXCEPT !.described = b]
    BY <1>8, Zenon DEF Enrich
  <2>2. seen' \in SeenType
    BY <2>1 DEF SeenType
  <2> QED BY <1>8, <2>2 DEF Enrich
<1>9. CASE Validate
  <2>1. seen' \in SeenType
    <3>1. PICK o : seen' = [seen EXCEPT
              !.failed = @ \/ o = "error",
              !.busy = @ \/ (Validations[next] = "kubelet-cert-validation" /\ CertFits /\ "kubelet" \in alive \cup job)]
      BY <1>9 DEF Validate
    <3> DEFINE b == seen.failed \/ o = "error"
               c == seen.busy \/ (Validations[next] = "kubelet-cert-validation" /\ CertFits /\ "kubelet" \in alive \cup job)
    <3>3. b \in BOOLEAN /\ c \in BOOLEAN
      BY Zenon
    <3>4. seen' = [seen EXCEPT !.failed = b, !.busy = c]
      BY <3>1, Zenon
    <3> HIDE DEF b, c
    <3> QED BY <3>3, <3>4 DEF SeenType
  <2> QED BY <1>9, <2>1, ValidationsFacts DEF Validate
<1>10. CASE Validated
  BY <1>10 DEF Validated
<1>11. CASE Sysctl
  BY <1>11 DEF Sysctl
<1>12. CASE SwapOff
  BY <1>12 DEF SwapOff, SwapType
<1>13. CASE TruncateFstab
  BY <1>13 DEF TruncateFstab, SwapType, SeenType
<1>14. CASE RewriteFstab
  BY <1>14 DEF RewriteFstab, SwapType, SeenType
<1>15. CASE AllowPorts
  <2>1. firewall' \in FirewallType
    <3>1. PICK r \in SUBSET {"cni", "node"}, p \in SUBSET {"cni", "node"} :
             firewall' = [firewall EXCEPT !.permanent = p, !.runtime = r]
      <4>1. /\ firewall.permanent \in SUBSET {"cni", "node"}
            /\ firewall.runtime \in SUBSET {"cni", "node"}
            /\ firewall = [firewall EXCEPT !.permanent = firewall.permanent, !.runtime = firewall.runtime]
        BY DEF FirewallType
      <4> QED BY <1>15, <4>1 DEF AllowPorts
    <3> QED BY <3>1 DEF FirewallType
  <2> QED BY <1>15, <2>1 DEF AllowPorts
<1>16. CASE FlushRules
  BY <1>16 DEF FlushRules, Flushed, FirewallType
<1>17. CASE InitDaemons
  BY <1>17 DEF InitDaemons
<1>18. CASE WriteConfig
  BY <1>18, WriteOrderFacts DEF WriteConfig, Config
<1>19. CASE Configured
  BY <1>19 DEF Configured
<1>20. CASE Authenticate
  <2>1. seen' \in SeenType
    BY <1>20 DEF Authenticate, SeenType
  <2> QED BY <1>20, <2>1 DEF Authenticate
<1>21. CASE RunDaemons
  BY <1>21 DEF RunDaemons
<1>22. ASSUME NEW d \in Daemons, EnableDaemon(d) PROVE TypeOK'
  BY <1>22 DEF EnableDaemon, RestartStep
<1>23. ASSUME NEW d \in Daemons, RestartDaemon(d) PROVE TypeOK'
  BY <1>23 DEF RestartDaemon, WaitStep
<1>24. ASSUME NEW d \in Daemons, WaitForStatus(d) PROVE TypeOK'
  BY <1>24 DEF WaitForStatus
<1>25. CASE CacheSandboxImage
  BY <1>25 DEF CacheSandboxImage
<1>26. CASE Fail \/ DeadlinePassed
  BY <1>26 DEF Fail, DeadlinePassed
<1>27. ASSUME NEW p \in Providers, WriteCredentials(p) PROVE TypeOK'
  BY <1>27 DEF WriteCredentials
<1>28. ASSUME NEW d \in Daemons, RunJob(d) \/ JobFails(d) \/ JobDropped(d) PROVE TypeOK'
  <2>1. CASE RunJob(d)
    BY <1>28, <2>1 DEF RunJob, ReadBy
  <2>2. CASE JobFails(d) \/ JobDropped(d)
    <3>1. faults' \in 0..MaxFaults
      BY <2>2, NodeInitAssumption DEF JobFails, JobDropped, Fault
    <3> QED BY <1>28, <2>2, <3>1 DEF JobFails, JobDropped
  <2> QED BY <1>28, <2>1, <2>2
<1>29. CASE IssueCertificate
  BY <1>29 DEF IssueCertificate, Clusters, Files, Daemons
<1>30. CASE ExpireCertificate
  <2>1. faults' \in 0..MaxFaults
    BY <1>30, NodeInitAssumption DEF ExpireCertificate, Fault
  <2>2. cert' \in [cluster : Clusters \cup {"none"}, expired : BOOLEAN]
    BY <1>30 DEF ExpireCertificate
  <2>3. UNCHANGED <<installed, provider, conf, units, aspects, run, pc, next, seen, result>>
    BY <1>30 DEF ExpireCertificate
  <2> QED BY <2>1, <2>2, <2>3
<1>31. CASE Reboot
  <2>1. faults' \in 0..MaxFaults
    BY <1>31, NodeInitAssumption DEF Reboot, Fault
  <2>2. process' \in [Daemons -> [Files -> NodeConfigs \cup {NoConfig}]]
    BY <1>31 DEF Reboot, ReadBy
  <2>3. swap' \in SwapType /\ firewall' \in FirewallType
    BY <1>31 DEF Reboot, SwapType, FirewallType
  <2> QED BY <1>31, <2>1, <2>2, <2>3 DEF Reboot
<1>32. CASE UNCHANGED vars
  BY <1>32 DEF vars
<1> QED
  BY <1>1, <1>2, <1>3, <1>4, <1>5, <1>6, <1>7, <1>8, <1>9, <1>10, <1>11, <1>12, <1>13, <1>14,
     <1>15, <1>16, <1>17, <1>18, <1>19, <1>20, <1>21, <1>22, <1>23, <1>24, <1>25, <1>26, <1>27,
     <1>28, <1>29, <1>30, <1>31, <1>32 DEF Next, Command, Progress, Host

\* Every step keeps what is on disk at each step of a command.
LEMMA ConfigNext == InitInv /\ [Next]_vars => ConfigInv'
<1> SUFFICES ASSUME InitInv, [Next]_vars PROVE ConfigInv'
  OBVIOUS
<1>t. TypeOK /\ TypeOK'
  BY TypeNext DEF InitInv
<1>i. ConfigInv
  BY DEF InitInv
<1> USE <1>t, <1>i DEF TypeOK, provider, units, aspects, run, Goto, Return,
       ConfigInv, BeforeWrite, DaemonSteps, RunSteps, Steps, Written, Config, Skipped
<1>1. ASSUME NEW kind \in {"init", "upgrade"}, NEW c \in NodeConfigs, NEW skip \in SkipSets,
             Start(kind, c, skip)
      PROVE ConfigInv'
  BY <1>1 DEF Start, NothingSeen
<1>2. CASE InstallValidation \/ CniValidation \/ LoadConfig
  BY <1>2 DEF InstallValidation, CniValidation, Flushed, LoadConfig
<1>3. CASE ConfigureAws \/ StartAgent \/ WaitForCredentials
  BY <1>3 DEF ConfigureAws, StartAgent, WaitForCredentials
<1>4. CASE Enrich
  BY <1>4 DEF Enrich
<1>5. CASE Validate
  BY <1>5, ValidationsFacts DEF Validate
<1>6. CASE Validated
  BY <1>6 DEF Validated
<1>7. CASE Sysctl \/ SwapOff
  BY <1>7 DEF Sysctl, SwapOff
<1>8. CASE TruncateFstab
  BY <1>8 DEF TruncateFstab
<1>9. CASE RewriteFstab
  BY <1>9 DEF RewriteFstab
<1>10. CASE AllowPorts
  BY <1>10 DEF AllowPorts
<1>11. CASE FlushRules
  BY <1>11 DEF FlushRules, Flushed
<1>12. CASE InitDaemons
  BY <1>12 DEF InitDaemons
<1>13. CASE Configured
  BY <1>13, WriteOrderFacts DEF Configured
<1>14. CASE Authenticate
  BY <1>14 DEF Authenticate, SeenType
<1>15. CASE RunDaemons
  BY <1>15 DEF RunDaemons
<1>16. CASE WriteConfig
  BY <1>16, WriteOrderFacts DEF WriteConfig
<1>17. ASSUME NEW d \in Daemons, EnableDaemon(d) \/ RestartDaemon(d) \/ WaitForStatus(d) PROVE ConfigInv'
  BY <1>17 DEF EnableDaemon, EnableStep, RestartStep, RestartDaemon, WaitStep, WaitForStatus
<1>18. CASE CacheSandboxImage \/ Fail \/ DeadlinePassed
  BY <1>18 DEF CacheSandboxImage, Fail, DeadlinePassed
<1>19. ASSUME NEW p \in Providers, WriteCredentials(p) PROVE ConfigInv'
  BY <1>19 DEF WriteCredentials
<1>20. ASSUME NEW d \in Daemons, RunJob(d) \/ JobFails(d) \/ JobDropped(d) PROVE ConfigInv'
  BY <1>20 DEF RunJob, JobFails, JobDropped, Dependents, Fault
<1>21. CASE IssueCertificate \/ ExpireCertificate
  BY <1>21 DEF IssueCertificate, ExpireCertificate, Fault
<1>22. CASE Reboot
  BY <1>22 DEF Reboot, Fault
<1>23. CASE UNCHANGED vars
  BY <1>23 DEF vars
<1> QED
  BY <1>1, <1>2, <1>3, <1>4, <1>5, <1>6, <1>7, <1>8, <1>9, <1>10, <1>11, <1>12, <1>13, <1>14,
     <1>15, <1>16, <1>17, <1>18, <1>19, <1>20, <1>21, <1>22, <1>23 DEF Next, Command, Progress, Host

\* Every step keeps what is enabled and restarted at each step of a command.
LEMMA RunNext == InitInv /\ [Next]_vars => RunInv'
<1> SUFFICES ASSUME InitInv, [Next]_vars PROVE RunInv'
  OBVIOUS
<1>t. TypeOK /\ TypeOK'
  BY TypeNext DEF InitInv
<1>i. RunInv
  BY DEF InitInv
<1> USE <1>t, <1>i DEF TypeOK, provider, units, aspects, run, Goto, Return,
       RunInv, Steps, UpToDate, ReadBy, Daemons
<1>1. ASSUME NEW kind \in {"init", "upgrade"}, NEW c \in NodeConfigs, NEW skip \in SkipSets,
             Start(kind, c, skip)
      PROVE RunInv'
  BY <1>1 DEF Start, NothingSeen
<1>2. CASE InstallValidation \/ CniValidation \/ LoadConfig
  BY <1>2 DEF InstallValidation, CniValidation, Flushed, LoadConfig
<1>3. CASE ConfigureAws \/ StartAgent \/ WaitForCredentials
  BY <1>3 DEF ConfigureAws, StartAgent, WaitForCredentials
<1>4. CASE Enrich
  BY <1>4 DEF Enrich
<1>5. CASE Validate
  BY <1>5 DEF Validate
<1>6. CASE Validated
  BY <1>6 DEF Validated
<1>7. CASE Sysctl \/ SwapOff
  BY <1>7 DEF Sysctl, SwapOff
<1>8. CASE TruncateFstab
  BY <1>8 DEF TruncateFstab
<1>9. CASE RewriteFstab
  BY <1>9 DEF RewriteFstab
<1>10. CASE AllowPorts
  BY <1>10 DEF AllowPorts
<1>11. CASE FlushRules
  BY <1>11 DEF FlushRules, Flushed
<1>12. CASE InitDaemons \/ Configured
  BY <1>12 DEF InitDaemons, Configured
<1>13. CASE Authenticate
  BY <1>13 DEF Authenticate
<1>14. CASE RunDaemons
  BY <1>14 DEF RunDaemons
<1>15. CASE WriteConfig
  BY <1>15 DEF WriteConfig
<1>16. ASSUME NEW d \in Daemons, EnableDaemon(d) \/ RestartDaemon(d) \/ WaitForStatus(d) PROVE RunInv'
  BY <1>16 DEF EnableDaemon, EnableStep, RestartStep, RestartDaemon, WaitStep, WaitForStatus
<1>17. CASE CacheSandboxImage \/ Fail \/ DeadlinePassed
  BY <1>17 DEF CacheSandboxImage, Fail, DeadlinePassed
<1>18. ASSUME NEW p \in Providers, WriteCredentials(p) PROVE RunInv'
  BY <1>18 DEF WriteCredentials
<1>19. ASSUME NEW d \in Daemons, RunJob(d) \/ JobFails(d) \/ JobDropped(d) PROVE RunInv'
  BY <1>19 DEF RunJob, JobFails, JobDropped, Dependents, Fault
<1>20. CASE IssueCertificate \/ ExpireCertificate
  BY <1>20 DEF IssueCertificate, ExpireCertificate, Fault
<1>21. CASE Reboot
  BY <1>21 DEF Reboot, Fault
<1>22. CASE UNCHANGED vars
  BY <1>22 DEF vars
<1> QED
  BY <1>1, <1>2, <1>3, <1>4, <1>5, <1>6, <1>7, <1>8, <1>9, <1>10, <1>11, <1>12, <1>13, <1>14,
     <1>15, <1>16, <1>17, <1>18, <1>19, <1>20, <1>21, <1>22 DEF Next, Command, Progress, Host

\* Every step keeps how far the host is prepared at each step of a command.
LEMMA HostNext == InitInv /\ [Next]_vars => HostInv'
<1> SUFFICES ASSUME InitInv, [Next]_vars PROVE HostInv'
  OBVIOUS
<1>t. TypeOK /\ TypeOK'
  BY TypeNext DEF InitInv
<1>i. HostInv
  BY DEF InitInv
<1> USE <1>t, <1>i DEF TypeOK, provider, units, aspects, run, Goto, Return,
       HostInv, DaemonSteps, RunSteps, Steps, SwapType, FirewallType, Skipped
<1>1. ASSUME NEW kind \in {"init", "upgrade"}, NEW c \in NodeConfigs, NEW skip \in SkipSets,
             Start(kind, c, skip)
      PROVE HostInv'
  BY <1>1 DEF Start, NothingSeen
<1>2. CASE InstallValidation \/ CniValidation \/ LoadConfig
  BY <1>2 DEF InstallValidation, CniValidation, Flushed, LoadConfig
<1>3. CASE ConfigureAws \/ StartAgent \/ WaitForCredentials
  BY <1>3 DEF ConfigureAws, StartAgent, WaitForCredentials
<1>4. CASE Enrich
  BY <1>4 DEF Enrich
<1>5. CASE Validate
  BY <1>5 DEF Validate
<1>6. CASE Validated
  BY <1>6 DEF Validated
<1>7. CASE Sysctl \/ SwapOff
  BY <1>7 DEF Sysctl, SwapOff
<1>8. CASE TruncateFstab
  BY <1>8 DEF TruncateFstab
<1>9. CASE RewriteFstab
  BY <1>9 DEF RewriteFstab
<1>10. CASE AllowPorts
  <2>1. CASE firewall.status = "on"
    <3>1. firewall' = [firewall EXCEPT !.permanent = @ \cup {"node"},
                                   !.runtime = IF firewall.kind = "ufw" THEN @ \cup {"node"} ELSE @]
      BY <1>10, <2>1 DEF AllowPorts
    <3>2. pc' = "flush" /\ UNCHANGED <<swap, cmd>> /\ pc = "allowPorts"
      BY <1>10, <2>1 DEF AllowPorts
    <3>3. CASE firewall.kind = "ufw"
      <4>1. /\ firewall'.kind = "ufw" /\ firewall'.status = "on"
            /\ firewall'.permanent = firewall.permanent \cup {"node"}
            /\ firewall'.runtime = firewall.runtime \cup {"node"}
        BY <2>1, <3>1, <3>3
      <4> QED BY <2>1, <3>2, <3>3, <4>1
    <3>4. CASE firewall.kind # "ufw"
      <4>1. /\ firewall'.kind # "ufw" /\ firewall'.status = "on"
            /\ firewall'.permanent = firewall.permanent \cup {"node"}
            /\ firewall'.runtime = firewall.runtime
        BY <2>1, <3>1, <3>4
      <4> QED BY <2>1, <3>2, <3>4, <4>1
    <3> QED BY <3>3, <3>4
  <2>2. CASE firewall.status # "on"
    BY <1>10, <2>2 DEF AllowPorts
  <2> QED BY <2>1, <2>2
<1>11. CASE FlushRules
  BY <1>11 DEF FlushRules, Flushed
<1>12. CASE InitDaemons \/ Configured
  BY <1>12 DEF InitDaemons, Configured
<1>13. CASE Authenticate
  BY <1>13 DEF Authenticate
<1>14. CASE RunDaemons
  BY <1>14 DEF RunDaemons
<1>15. CASE WriteConfig
  BY <1>15 DEF WriteConfig
<1>16. ASSUME NEW d \in Daemons, EnableDaemon(d) \/ RestartDaemon(d) \/ WaitForStatus(d) PROVE HostInv'
  BY <1>16 DEF EnableDaemon, EnableStep, RestartStep, RestartDaemon, WaitStep, WaitForStatus
<1>17. CASE CacheSandboxImage \/ Fail \/ DeadlinePassed
  BY <1>17 DEF CacheSandboxImage, Fail, DeadlinePassed
<1>18. ASSUME NEW p \in Providers, WriteCredentials(p) PROVE HostInv'
  BY <1>18 DEF WriteCredentials
<1>19. ASSUME NEW d \in Daemons, RunJob(d) \/ JobFails(d) \/ JobDropped(d) PROVE HostInv'
  BY <1>19 DEF RunJob, JobFails, JobDropped, Dependents, Fault
<1>20. CASE IssueCertificate \/ ExpireCertificate
  BY <1>20 DEF IssueCertificate, ExpireCertificate, Fault
<1>21. CASE Reboot
  BY <1>21 DEF Reboot, Fault
<1>22. CASE UNCHANGED vars
  BY <1>22 DEF vars
<1> QED
  BY <1>1, <1>2, <1>3, <1>4, <1>5, <1>6, <1>7, <1>8, <1>9, <1>10, <1>11, <1>12, <1>13, <1>14,
     <1>15, <1>16, <1>17, <1>18, <1>19, <1>20, <1>21, <1>22 DEF Next, Command, Progress, Host

\* Every step keeps the certificate check's result until kubelet runs.
LEMMA CertNext == InitInv /\ [Next]_vars => CertInv'
<1> SUFFICES ASSUME InitInv, [Next]_vars PROVE CertInv'
  OBVIOUS
<1>t. TypeOK /\ TypeOK'
  BY TypeNext DEF InitInv
<1>i. ConfigInv /\ RunInv /\ HostInv /\ CertInv /\ OkMeansConfigured
  BY DEF InitInv
<1> USE <1>t, <1>i DEF TypeOK, provider, units, aspects, run, Goto, Return,
       ConfigInv, RunInv, HostInv, CertInv, OkMeansConfigured, CertChecked, CertFits, UpToDate, ReadBy, Written, Config, Skipped,
       DaemonSteps, RunSteps, Steps, Daemons, Files, FilesOf
<1>1. ASSUME NEW kind \in {"init", "upgrade"}, NEW c \in NodeConfigs, NEW skip \in SkipSets,
             Start(kind, c, skip)
      PROVE CertInv'
  BY <1>1 DEF Start, NothingSeen
<1>2. CASE InstallValidation \/ CniValidation \/ LoadConfig
  BY <1>2 DEF InstallValidation, CniValidation, Flushed, LoadConfig
<1>3. CASE ConfigureAws \/ StartAgent \/ WaitForCredentials
  BY <1>3 DEF ConfigureAws, StartAgent, WaitForCredentials
<1>4. CASE Enrich
  BY <1>4 DEF Enrich
<1>5. CASE Validate
  <2>1. PICK o \in IF Skipped(Validations[next]) THEN {"ok"} ELSE Outcomes(Validations[next]) :
           seen' = [seen EXCEPT
              !.failed = @ \/ o = "error",
              !.busy = @ \/ (Validations[next] = "kubelet-cert-validation" /\ CertFits /\ "kubelet" \in alive \cup job)]
    BY <1>5 DEF Validate
  <2>2. /\ seen'.failed <=> seen.failed \/ o = "error"
        /\ seen'.busy <=> seen.busy \/ (Validations[next] = "kubelet-cert-validation" /\ CertFits /\ "kubelet" \in alive \cup job)
    BY <2>1 DEF SeenType
  <2>3. CertChecked' /\ next = 4 => o = "error" \/ (CertFits /\ "kubelet" \notin alive \cup job)
    <3> SUFFICES ASSUME CertChecked', next = 4
                 PROVE  o = "error" \/ (CertFits /\ "kubelet" \notin alive \cup job)
      OBVIOUS
    <3>1. Validations[next] = "kubelet-cert-validation" /\ ~Skipped(Validations[next])
      BY <1>5, ValidationsFacts DEF Validate
    <3>2. o \in IF CertAccepted THEN {"ok"} ELSE {"error"}
      BY <2>1, <3>1 DEF Outcomes, KubeletCertOutcomes
    <3> QED BY <2>2, <3>1, <3>2 DEF CertAccepted
  <2> QED BY <1>5, <2>2, <2>3, ValidationsFacts DEF Validate
<1>6. CASE Validated
  BY <1>6, ValidationsFacts DEF Validated
<1>7. CASE Sysctl \/ SwapOff
  BY <1>7 DEF Sysctl, SwapOff
<1>8. CASE TruncateFstab
  BY <1>8 DEF TruncateFstab
<1>9. CASE RewriteFstab
  BY <1>9 DEF RewriteFstab
<1>10. CASE AllowPorts
  BY <1>10 DEF AllowPorts
<1>11. CASE FlushRules
  BY <1>11 DEF FlushRules, Flushed
<1>12. CASE InitDaemons \/ Configured
  BY <1>12 DEF InitDaemons, Configured
<1>13. CASE Authenticate
  BY <1>13 DEF Authenticate, SeenType
<1>14. CASE RunDaemons
  BY <1>14 DEF RunDaemons
<1>15. CASE WriteConfig
  BY <1>15 DEF WriteConfig
<1>16. ASSUME NEW d \in Daemons, EnableDaemon(d) \/ RestartDaemon(d) \/ WaitForStatus(d) PROVE CertInv'
  BY <1>16 DEF EnableDaemon, EnableStep, RestartStep, RestartDaemon, WaitStep, WaitForStatus
<1>17. CASE CacheSandboxImage \/ Fail \/ DeadlinePassed
  BY <1>17 DEF CacheSandboxImage, Fail, DeadlinePassed
<1>18. ASSUME NEW p \in Providers, WriteCredentials(p) PROVE CertInv'
  BY <1>18 DEF WriteCredentials
<1>19. ASSUME NEW d \in Daemons, RunJob(d) \/ JobFails(d) \/ JobDropped(d) PROVE CertInv'
  BY <1>19 DEF RunJob, JobFails, JobDropped, Dependents, Fault
<1>20. CASE IssueCertificate \/ ExpireCertificate
  BY <1>20 DEF IssueCertificate, ExpireCertificate, Fault
<1>21. CASE Reboot
  BY <1>21 DEF Reboot, Fault
<1>22. CASE UNCHANGED vars
  BY <1>22 DEF vars
<1> QED
  BY <1>1, <1>2, <1>3, <1>4, <1>5, <1>6, <1>7, <1>8, <1>9, <1>10, <1>11, <1>12, <1>13, <1>14,
     <1>15, <1>16, <1>17, <1>18, <1>19, <1>20, <1>21, <1>22 DEF Next, Command, Progress, Host

\* Every step keeps what a command that returned nil has configured.
LEMMA OkNext == InitInv /\ [Next]_vars => OkMeansConfigured'
<1> SUFFICES ASSUME InitInv, [Next]_vars PROVE OkMeansConfigured'
  OBVIOUS
<1>t. TypeOK /\ TypeOK'
  BY TypeNext DEF InitInv
<1>i. ConfigInv /\ RunInv /\ OkMeansConfigured
  BY DEF InitInv
<1> USE <1>t, <1>i DEF TypeOK, provider, units, aspects, run, Goto, Return,
       ConfigInv, RunInv, OkMeansConfigured, UpToDate, ReadBy, Written, Config, Skipped, RunSteps, Daemons
<1>1. ASSUME NEW kind \in {"init", "upgrade"}, NEW c \in NodeConfigs, NEW skip \in SkipSets,
             Start(kind, c, skip)
      PROVE OkMeansConfigured'
  BY <1>1 DEF Start, NothingSeen
<1>2. CASE InstallValidation \/ CniValidation \/ LoadConfig
  BY <1>2 DEF InstallValidation, CniValidation, Flushed, LoadConfig
<1>3. CASE ConfigureAws \/ StartAgent \/ WaitForCredentials
  BY <1>3 DEF ConfigureAws, StartAgent, WaitForCredentials
<1>4. CASE Enrich
  BY <1>4 DEF Enrich
<1>5. CASE Validate
  BY <1>5 DEF Validate
<1>6. CASE Validated
  BY <1>6 DEF Validated
<1>7. CASE Sysctl \/ SwapOff
  BY <1>7 DEF Sysctl, SwapOff
<1>8. CASE TruncateFstab
  BY <1>8 DEF TruncateFstab
<1>9. CASE RewriteFstab
  BY <1>9 DEF RewriteFstab
<1>10. CASE AllowPorts
  BY <1>10 DEF AllowPorts
<1>11. CASE FlushRules
  BY <1>11 DEF FlushRules, Flushed
<1>12. CASE InitDaemons \/ Configured
  BY <1>12 DEF InitDaemons, Configured
<1>13. CASE Authenticate
  BY <1>13 DEF Authenticate
<1>14. CASE RunDaemons
  BY <1>14 DEF RunDaemons
<1>15. CASE WriteConfig
  BY <1>15 DEF WriteConfig
<1>16. ASSUME NEW d \in Daemons, EnableDaemon(d) \/ RestartDaemon(d) \/ WaitForStatus(d) PROVE OkMeansConfigured'
  BY <1>16 DEF EnableDaemon, EnableStep, RestartStep, RestartDaemon, WaitStep, WaitForStatus
<1>17. CASE CacheSandboxImage \/ Fail \/ DeadlinePassed
  BY <1>17 DEF CacheSandboxImage, Fail, DeadlinePassed
<1>18. ASSUME NEW p \in Providers, WriteCredentials(p) PROVE OkMeansConfigured'
  BY <1>18 DEF WriteCredentials
<1>19. ASSUME NEW d \in Daemons, RunJob(d) \/ JobFails(d) \/ JobDropped(d) PROVE OkMeansConfigured'
  BY <1>19 DEF RunJob, JobFails, JobDropped, Dependents, Fault
<1>20. CASE IssueCertificate \/ ExpireCertificate
  BY <1>20 DEF IssueCertificate, ExpireCertificate, Fault
<1>21. CASE Reboot
  BY <1>21 DEF Reboot, Fault
<1>22. CASE UNCHANGED vars
  BY <1>22 DEF vars
<1> QED
  BY <1>1, <1>2, <1>3, <1>4, <1>5, <1>6, <1>7, <1>8, <1>9, <1>10, <1>11, <1>12, <1>13, <1>14,
     <1>15, <1>16, <1>17, <1>18, <1>19, <1>20, <1>21, <1>22 DEF Next, Command, Progress, Host

\* Every step keeps what an init that returned nil has prepared.
LEMMA PreparedNext == InitInv /\ [Next]_vars => HostStaysPrepared'
<1> SUFFICES ASSUME InitInv, [Next]_vars PROVE HostStaysPrepared'
  OBVIOUS
<1>t. TypeOK /\ TypeOK'
  BY TypeNext DEF InitInv
<1>i. ConfigInv /\ HostInv /\ HostStaysPrepared
  BY DEF InitInv
<1> USE <1>t, <1>i DEF TypeOK, provider, units, aspects, run, Goto, Return,
       ConfigInv, HostInv, HostStaysPrepared, DaemonSteps, RunSteps, SwapType, FirewallType, Skipped
<1>1. ASSUME NEW kind \in {"init", "upgrade"}, NEW c \in NodeConfigs, NEW skip \in SkipSets,
             Start(kind, c, skip)
      PROVE HostStaysPrepared'
  BY <1>1 DEF Start, NothingSeen
<1>2. CASE InstallValidation \/ CniValidation \/ LoadConfig
  BY <1>2 DEF InstallValidation, CniValidation, Flushed, LoadConfig
<1>3. CASE ConfigureAws \/ StartAgent \/ WaitForCredentials
  BY <1>3 DEF ConfigureAws, StartAgent, WaitForCredentials
<1>4. CASE Enrich
  BY <1>4 DEF Enrich
<1>5. CASE Validate
  BY <1>5 DEF Validate
<1>6. CASE Validated
  BY <1>6 DEF Validated
<1>7. CASE Sysctl \/ SwapOff
  BY <1>7 DEF Sysctl, SwapOff
<1>8. CASE TruncateFstab
  BY <1>8 DEF TruncateFstab
<1>9. CASE RewriteFstab
  BY <1>9 DEF RewriteFstab
<1>10. CASE AllowPorts
  BY <1>10 DEF AllowPorts
<1>11. CASE FlushRules
  BY <1>11 DEF FlushRules, Flushed
<1>12. CASE InitDaemons \/ Configured
  BY <1>12 DEF InitDaemons, Configured
<1>13. CASE Authenticate
  BY <1>13 DEF Authenticate
<1>14. CASE RunDaemons
  BY <1>14 DEF RunDaemons
<1>15. CASE WriteConfig
  BY <1>15 DEF WriteConfig
<1>16. ASSUME NEW d \in Daemons, EnableDaemon(d) \/ RestartDaemon(d) \/ WaitForStatus(d) PROVE HostStaysPrepared'
  BY <1>16 DEF EnableDaemon, EnableStep, RestartStep, RestartDaemon, WaitStep, WaitForStatus
<1>17. CASE CacheSandboxImage \/ Fail \/ DeadlinePassed
  BY <1>17 DEF CacheSandboxImage, Fail, DeadlinePassed
<1>18. ASSUME NEW p \in Providers, WriteCredentials(p) PROVE HostStaysPrepared'
  BY <1>18 DEF WriteCredentials
<1>19. ASSUME NEW d \in Daemons, RunJob(d) \/ JobFails(d) \/ JobDropped(d) PROVE HostStaysPrepared'
  BY <1>19 DEF RunJob, JobFails, JobDropped, Dependents, Fault
<1>20. CASE IssueCertificate \/ ExpireCertificate
  BY <1>20 DEF IssueCertificate, ExpireCertificate, Fault
<1>21. CASE Reboot
  BY <1>21 DEF Reboot, Fault
<1>22. CASE UNCHANGED vars
  BY <1>22 DEF vars
<1> QED
  BY <1>1, <1>2, <1>3, <1>4, <1>5, <1>6, <1>7, <1>8, <1>9, <1>10, <1>11, <1>12, <1>13, <1>14,
     <1>15, <1>16, <1>17, <1>18, <1>19, <1>20, <1>21, <1>22 DEF Next, Command, Progress, Host

\* InitInv is inductive.
LEMMA InitInvInductive ==
    /\ Init => InitInv
    /\ InitInv /\ [Next]_vars => InitInv'
<1>1. ASSUME Init PROVE InitInv
  <2>1. TypeOK
    <3>1. installed \in Providers \cup {"none"} /\ swap \in SwapType /\ firewall \in FirewallType
      BY <1>1, NodeInitAssumption DEF Init
    <3>2. seen \in SeenType /\ cert \in [cluster : Clusters \cup {"none"}, expired : BOOLEAN]
      BY <1>1 DEF Init, NothingSeen, SeenType, NoCert
    <3>3. /\ conf \in [Files -> NodeConfigs \cup {NoConfig}]
          /\ process \in [Daemons -> [Files -> NodeConfigs \cup {NoConfig}]]
          /\ before \in [Files -> NodeConfigs \cup {NoConfig}]
      BY <1>1 DEF Init
    <3>4. alive \subseteq Daemons /\ enabled \subseteq Daemons /\ job \subseteq Daemons /\ dropped \subseteq Daemons
      BY <1>1 DEF Init, Daemons
    <3>5. cmd \in [kind : {"init", "upgrade"}, config : NodeConfigs, skip : SkipSets \cup {{}}]
      BY <1>1 DEF Init
    <3>6. commands \in 0..MaxCommands /\ faults \in 0..MaxFaults /\ next \in 1..10
      BY <1>1, NodeInitAssumption DEF Init
    <3>7. /\ registered \in BOOLEAN /\ agents \subseteq Providers /\ credentials \subseteq Providers
          /\ pc \in Steps \cup {"idle"} /\ result \in {"none", "ok", "notInstalled", "error"}
      BY <1>1 DEF Init
    <3> QED BY <3>1, <3>2, <3>3, <3>4, <3>5, <3>6, <3>7 DEF TypeOK
  <2>2. ConfigInv /\ RunInv /\ CertInv /\ OkMeansConfigured /\ HostStaysPrepared
    BY <1>1 DEF Init, ConfigInv, RunInv, CertInv, OkMeansConfigured, HostStaysPrepared, BeforeWrite,
       DaemonSteps, RunSteps, Steps, NothingSeen
  <2>3. HostInv
    BY <1>1, NodeInitAssumption DEF Init, HostInv, DaemonSteps, RunSteps, Steps
  <2> QED BY <2>1, <2>2, <2>3 DEF InitInv
<1>2. ASSUME InitInv, [Next]_vars PROVE InitInv'
  BY <1>2, TypeNext, ConfigNext, RunNext, HostNext, CertNext, OkNext, PreparedNext DEF InitInv
<1> QED BY <1>1, <1>2

\* The inductive invariant, for any configurations, hosts and skip lists: how far a
\* command is says which files are its own, which checks have passed, what the host is
\* prepared for and which configuration the daemons run with or will be started with.
THEOREM InitInvAlways == Spec => []InitInv
<1> QED BY InitInvInductive, PTL DEF Spec

\* For any configurations, hosts and skip lists: a command (flows/init.go) that
\* returned nil has written every file of its configuration, and each daemon that runs
\* does so, or is about to, with just these files, for any number of earlier failures,
\* failed starts and reboots, unless systemd dropped its restart job.
THEOREM OkIsConfigured == Spec => []OkMeansConfigured
<1>1. InitInv => OkMeansConfigured
  BY DEF InitInv
<1> QED BY <1>1, InitInvAlways, PTL

\* A command one of whose validations (hybrid.go, Validate) failed has not touched the
\* daemons' files, whichever validation it was and whatever the others returned; one
\* that the API server refused (kubelet's Configure) has written every one of them.
THEOREM RefusedKeepsFiles == Spec => []RefusedIsNotConfigured
<1>1. InitInv => RefusedIsNotConfigured
  BY DEF InitInv, ConfigInv, RefusedIsNotConfigured
<1> QED BY <1>1, InitInvAlways, PTL

\* kubelet does not come up for one cluster with the unexpired certificate of another
\* (cert.go, Run), if no kubelet ran when the certificate was checked.
THEOREM ForeignCertIsRefused == Spec => []ForeignCertRefused
<1>1. InitInv => ForeignCertRefused
  BY DEF InitInv, CertInv, ForeignCertRefused
<1> QED BY <1>1, InitInvAlways, PTL

\* Swap stays off and the node's ports stay open (swap.go, ports.go) after an init
\* that returned nil, over any number of reboots.
THEOREM HostIsPrepared == Spec => []HostStaysPrepared
<1>1. InitInv => HostStaysPrepared
  BY DEF InitInv
<1> QED BY <1>1, InitInvAlways, PTL

-----------------------------------------------------------------------------
\* The place of a step in the flow of init (flows/init.go, Run), which the flow of
\* upgrade shares from "load" on.
Place ==
    [installed |-> 1, cni |-> 2, load |-> 3, configureAws |-> 4, agent |-> 5, credentials |-> 6,
     enrich |-> 7, validate |-> 8, sysctl |-> 9, swapOff |-> 10, truncate |-> 11, rewrite |-> 12,
     allowPorts |-> 13, flush |-> 14, daemons |-> 15, write |-> 16, authenticate |-> 17,
     run |-> 18, enableContainerd |-> 19, restartContainerd |-> 20, waitContainerd |-> 21,
     cacheImage |-> 22, enableKubelet |-> 23, restartKubelet |-> 24, waitKubelet |-> 25]

\* The command goes on: to a later step, or to the next validation or file of this one.
GoesOn == Place[pc'] > Place[pc] \/ (pc' = pc /\ next' = next + 1)

\* A step of a running command ends it or takes it further, and what the host does
\* meanwhile (agents, jobs, certificates) does not move it unless it ends it, by a
\* reboot: no phase is entered twice, so a command makes at most one pass over
\* validations and files. With the fairness of FairSpec this is why CommandReturns holds.
THEOREM OnePassThroughFlow ==
    Spec => [][pc # "idle" => \/ pc' = "idle"
                              \/ Command /\ GoesOn
                              \/ Host /\ UNCHANGED <<cmd, pc, next>>]_vars
<1> DEFINE Passes == pc # "idle" => \/ pc' = "idle"
                                    \/ Command /\ GoesOn
                                    \/ Host /\ UNCHANGED <<cmd, pc, next>>
<1>1. ASSUME Next PROVE Passes
  <2>1. ASSUME NEW kind \in {"init", "upgrade"}, NEW c \in NodeConfigs, NEW skip \in SkipSets,
               Start(kind, c, skip)
        PROVE  Passes
    BY <2>1 DEF Start
  <2>2. CASE Host
    BY <2>2 DEF Host, WriteCredentials, RunJob, JobFails, JobDropped, IssueCertificate, ExpireCertificate, Reboot, Return, run
  <2>3. Command => pc' = "idle" \/ GoesOn
    <3> USE DEF Goto, Return, GoesOn, Place
    <3>1. CASE InstallValidation \/ CniValidation \/ LoadConfig \/ Fail \/ DeadlinePassed
      BY <3>1 DEF InstallValidation, CniValidation, LoadConfig, Fail, DeadlinePassed
    <3>2. CASE ConfigureAws \/ StartAgent \/ WaitForCredentials \/ Enrich
      BY <3>2 DEF ConfigureAws, StartAgent, WaitForCredentials, Enrich
    <3>3. CASE Validated \/ Configured
      BY <3>3 DEF Validated, Configured
    <3>4. (Validate => pc' = pc /\ next' = next + 1) /\ (WriteConfig => pc' = pc /\ next' = next + 1)
      BY DEF Validate, WriteConfig
    <3>5. CASE Sysctl \/ SwapOff \/ TruncateFstab \/ RewriteFstab \/ AllowPorts \/ FlushRules
      BY <3>5 DEF Sysctl, SwapOff, TruncateFstab, RewriteFstab, AllowPorts, FlushRules
    <3>6. CASE InitDaemons \/ Authenticate \/ RunDaemons \/ CacheSandboxImage
      BY <3>6 DEF InitDaemons, Authenticate, RunDaemons, CacheSandboxImage
    <3>7. ASSUME NEW d \in Daemons, EnableDaemon(d) \/ RestartDaemon(d) \/ WaitForStatus(d)
          PROVE  pc' = "idle" \/ GoesOn
      BY <3>7 DEF EnableDaemon, RestartDaemon, WaitForStatus, EnableStep, RestartStep, WaitStep, Daemons
    <3> QED BY <3>1, <3>2, <3>3, <3>4, <3>5, <3>6, <3>7 DEF Command, Progress
  <2> QED BY <1>1, <2>1, <2>2, <2>3 DEF Next
<1>2. [Next]_vars => [Passes]_vars
  BY <1>1
<1> QED BY <1>2, PTL DEF Spec
=============================================================================
