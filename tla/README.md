# A TLA+ model of nodeadm for EKS hybrid nodes

`nodeadm` turns an on-premises host into a node of an EKS cluster and back. It
runs as short-lived commands (`install`, `init`, `upgrade`, `uninstall`), each of
which changes a host, a systemd instance, an AWS service and a Kubernetes cluster
that go on changing by themselves. None of these changes is transactional and
none is rolled back, so what the program guarantees is a matter of order: what
is written before what, what is read again after a failure, and what the next
command makes of what the last one left behind. That is what these modules are
about.

## 1. Inventory

| Part (source) | State it keeps | Operations | Talks to | Hard behaviour | Correct when |
|---|---|---|---|---|---|
| retry (`internal/retry`, `internal/kubernetes/retry.go`, `wait.go`) | loop counters, last error, the handler's count | `Do`, `NewMaxConsecutiveErrorHandler`, `WaitFor`, `NetworkRequest` | Kubernetes' backoff loop, the operation it is given | timeouts racing answers; errors interleaved with successes | success is real; it gives up exactly on the configured streak; it returns |
| flows (`internal/flows`, `cmd/nodeadm/{install,upgrade,uninstall}`) | what is on the host | one step per component, in a fixed order | all of the below | failure or kill at any step; commands repeated and mixed | the tracker never lists half an installation, uninstall converges, user packages survive |
| tracker (`internal/tracker`) | `/opt/nodeadm/tracker` and the command's copy | `Add`, `Save`, `Clear`, `GetInstalledArtifacts`, `GetCurrentState` | flows | written once, in place, at the end | readable, complete, given up last |
| package manager (`internal/packagemanager`, `containerd`, `iptables`) | OS packages, the docker repository | `Configure`, `Install`, `Upgrade`, `Uninstall`, `Cleanup` | yum, apt | retried commands; presence decides ownership | removes what it added and nothing else |
| SSM agent (`internal/ssm`, `internal/node/hybrid/aws.go`) | registration file, agent files, managed instance at the service | `registerMachine`, `Deregister`, `Install`, `Uninstall`, `EnsureRunning` | Systems Manager, systemd | lost answers, non-idempotent registration, kill between two places of one fact | no instance leaks silently; success of uninstall is real |
| preflight checks (`internal/node`) | none | `IsDrained`, `IsUnscheduled` | the API server | two requests, cluster moves in between | a cordoned, drained node stays so until the flow starts |
| daemon manager (`internal/daemon`) | systemd's jobs, the unit's state | `Enable`, `Restart`, `WaitForStatus`, `WaitForOperation`, `RetryOperation`, `Stop`, `Disable` | systemd over D-Bus | asynchronous jobs, other actors, crashes, deadlines | the process that runs has the written configuration; calls return |
| artifact installation (`internal/artifact`, `*/install.go`) | files, unpacked plugins | `InstallFile`, `InstallTarGz`, `VerifyChecksum`, `Upgrade`, download loops | release manifest, HTTP | remove-write-verify at the final path; kill anywhere | success means the wanted version, all of it |
| init flow (`internal/flows/init.go`, `cmd/nodeadm/init`, `internal/node/hybrid`) | configuration files, daemons, credentials | credentials, enrichment, validations, system aspects, daemons, in this order | all daemons, AWS, the API server | partial initialisation, re-init for another cluster, reboots | success means configured and restarted, or the restart is pending; a node that is refused before its files are written keeps them |
| validations (`internal/validation`, `nodevalidator`, `node/hybrid/*validator.go`) | results of one run | run all, collect errors and warnings | AWS, API server | skipped phases, aggregation, what is checked going stale | one error is enough; what was checked still holds when it is used |
| system aspects and firewall (`internal/system`, `internal/firewall`) | swap, `/etc/fstab`, ports | swap off, rewrite of fstab, allow ports, flush | the kernel, ufw, firewalld | in force now and in force after a reboot are two things | a prepared host stays prepared |
| certificates (`internal/certificate`, `internal/kubelet`) | kubelet's serving certificate | the check before configuration | the cluster that signs it | issued, expired or replaced around the check | no kubelet for one cluster with another's certificate |
| kubelet configuration (`internal/kubelet`, `internal/system/resources.go`, `internal/util`) | six files, the installed kubelet's layout, the running kubelet and its queued restart | generate, merge, write each file, restart, poll, read the node name back, `Uninstall` | the host, instance metadata, systemd | files of earlier inits, a kill between two files, layouts that change with the version, tables with integer arithmetic | kubelet works with exactly what was asked for, now and after a restart; the name read back is the registered one; the reserve follows its table |
| release manifests and sources (`internal/aws`, `internal/ssm/source.go`, `internal/util/net.go`) | none; the manifest it read | resolve a version, pick an artifact, registry of a region, fetch with checksum or signature | the public manifest, S3, the agent's bucket | object and checksum are two requests; manifests that others write | success means the files of the release that was asked for |
| artifact mirror (`cmd/nodeadm/sync_artifacts`) | objects in a bucket, a manifest file | `Run`, `collectArtifacts`, `syncArtifactToS3`, `generateCustomManifest` | upstream, S3, later installs | several commands in one bucket, upstream publishing meanwhile, a stop at any object | a manifest is never ahead of its copies; a complete mirror can be installed from |
| configuration API (`api`, `internal/api`, `internal/configprovider`) | none | parsing, conversion, defaults | | none | left out, see section 7 |
| command line, e2e harness, helpers | | | | | left out, see section 7 |

`PROJECT.json` lists the same parts under `components` with their status, and
under `hazards` every place where this code can go wrong in a way a test would
hardly reach, with the property that would notice.

## 2. Modules

One module per component; the `MC*.tla` modules give constants their values where
a `.cfg` cannot; the `*Proofs.tla` modules hold theorems only. `NodeLifecycle` is
the abstract specification of one of them. No module uses recursion.

**`Retrier`** models `Retrier.Do` round by round. `LoopHead`, `Backoff` and
`CtxExpires` are the loop of `wait.ExponentialBackoffWithContext`, which the
repository does not contain and which is modelled from how `Do` uses it: steps are
looked at before the context, the context may expire after it was looked at, the
last step does not wait. `Operate` and `Handle` are the closure that `Do` passes
to it, in its order: the outcome, the remembered error, the handler, and then the
test of an `err` that the handler has overwritten. Operations return anything, done
together with an error included. `MCRetrier` has the three
`Retrier` values in use (`WaitFor`, `defaultRetrier`, `NetworkRequest`).
`streak` is a history variable: the true number of errors in a row.

**`NodeComponents`** is the host under `install`, `upgrade` and `uninstall`.
`host` is what is there, `file` the tracker file, `mem` the running command's
copy, `pc` the step that runs next. `InstallOrder`, `UninstallOrder` and
`UpgradeOrder` are the flows' orders. Each step is one action with all its
effects (the removal of a conflicting runc by `Configure`, with or without the
containerd package that depends on it, and the tracker entry that `Install` of a
component adds). `runcTaken` is a history: that removal was run on a host with a
containerd of the user's. `Tracker.Save` is two actions, because the file is
truncated before it is written. `Abort` ends any command at any step with any part
of the step's effect on the host: an error that a step returns, the command's
timeout and a kill differ only in what is printed. `Refuse` is a command that
ends before its flow (`NodePreflight` models the most important reason).

**`NodeLifecycle`** is what these three commands promise together, without their
steps: any step may add or remove components but nothing the host owned, of which
it may take over what is contested (`Work`); the record is damaged before a new one is written (`Overwrite`); a new
one lists a complete installation that is on the host (`Register`); it is given up
when nothing it lists is left (`Forget`). `NodeComponents` is an implementation of it
under the mapping `Lifecycle`: the host is `present`, the tracker file is `record`
(a file cut off by a kill is "damaged"), the user's iptables and containerd
with its runc are `owned`, and the latter, on yum hosts, are contested: the docker source
takes the runc away. A step of a flow, failed or killed ones with any part of their effect
included, maps to `Work`, or to a stutter when it changes no component.

**`SSMAgent`** is one fact in two places: the managed instances at the service
(`registered`) and the id in the registration file (`reg`). Calls fail with or
without effect (`RegisterAnswerLost`, `DeregisterFails`), commands are killed, the
instance is deregistered in the console. The removal of the agent's package is
repeated until it succeeds, with nothing that ends it (`RemoveAgent`,
`RemoveAgentFails`). `held` and `excused` are histories: the
ids the file has held, and those about which a call failed.

**`NodePreflight`** is `IsDrained` and `IsUnscheduled` as two requests, with the
scheduler, evictions, cordons and node deletions free to happen before, between
and after them. Its names differ from those of `Retrier` (`PreflightSpec`,
`preflightVars`) so that one module can hold the theorems about both.

**`DaemonManager`** is one systemd unit and its caller. A restart only enqueues a
job; the job stops the old process, starts a new one with the configuration on
disk and reports a result, each some time later, or fails, or is replaced, or is given
up before it touched a process (`JobDropped`, with the results "dependency" and
"skipped", which `WaitForOperation` takes for success; the history `dropped` says so).
`caller` tells the two kinds of `EnsureRunning` apart: ssm awaits the job
(`RetryOperation` around `WaitForOperation`), kubelet and containerd poll the
unit's state. systemd is external and modelled as far as this code can see it.

**`ArtifactInstall`** is one artifact, a file or the CNI archive, from the stream
to the disk: fetch, compare (upgrade only), remove, write, verify, unpack. A
stream is the wanted version, corrupt or cut short; disk contents are versions or
one of `missing`, `partial`, `corrupt`. Every version's archive has members of its own
(`archive`); unpacking overwrites and removes nothing, and `Uninstall` removes all. The
history `unpacked` has the versions unpacked since then. Failures are not counted: the state space
is finite without a bound on them.

**`NodeInit`** is `init`, and the half of `upgrade` that ends in the same code.
`pc` names the step that runs next; `Start` enters an init at its install check and
an upgrade at the loading of the configuration. An upgrade goes from enrichment
straight to the daemons: it neither validates nor touches the system aspects. A
file on disk (`conf`) is the node configuration it was written from, and a process
(`process`) the files it was started with, so "configured for the old cluster" is a
value that can be told from "configured for the new one". `WriteConfig` writes one
file per step, in `WriteOrder`. The validations run one by one in the order the
providers register them, with an error or a warning each, and `Validated` looks at
the errors; the check of the API server comes after the files are written and may
refuse (`seen.denied`). `Fail` ends a command at any step with an error or a kill, and
`DeadlinePassed` is the end of those waits that have a deadline. Around the command, the agents write credentials
(`WriteCredentials`), systemd runs its restart jobs (`RunJob`), fails to start the
new process (`JobFails`) or drops the job (`JobDropped`), a restart of containerd takes
kubelet along (`Dependents`), kubelet is issued a
serving certificate that may expire, and the host reboots: enabled daemons, fstab
and the permanent firewall rules decide what is there afterwards. `seen` is what
the running command has found out; `before` is a history, the files at its start.

**`KubeletConfig`** is `kubelet.Configure` file by file, the restart that is queued
and polled for, and what a kubelet that starts at any moment makes of the files
(`View`). A file is missing, torn (cut off by a kill) or written, and a written file's
content is the part of it that depends on the node configuration, the host and the
installed kubelet: `GenerateKubeletConfig` with provider ID, cluster DNS, maximum
pods and reserved resources computed as in the code (integer arithmetic and rounding
included), the flags as a function, the user's settings merged into the one file of
a kubelet below 1.29 or written as a drop-in beside it (`UsesDir`; a kubelet before 1.28
does not know the flag for the directory, `KnowsDir`). Settings that are the same on
every node are one setting. `View` has the command line of `kubelet.service`: flags of
the unit (`UnitFlag`), then those of nodeadm, then the user's, of which the last counts;
one that points to a file of the user's own makes kubelet read that. The unit always
names the kubeconfig, so on an Outpost the bootstrap kubeconfig that nodeadm
writes is used only as long as there is no kubeconfig (`EffectiveKubeconfig`,
`KubeletBootstraps`). `StartInit` has passed the validators, of which only the one that
looks at the user's flags decides anything here. `RestartDaemon` queues a job and
`WaitForStatus` takes any process of the unit; `RunJob` and `JobDropped` are what systemd
does with the job, before or after init has returned, and `KubeletRestarts` its restart
of a kubelet at any time, between two files too. `InitEndsEarly` ends an init anywhere
and may cut off the file of that step; `ReplaceKubelet` is an install or an upgrade to
another version; `Uninstall` removes what the code removes and leaves the environment
file. `Wanted` is the reference: what a configuration asks for, whatever the layout.
`GetNodeName` is the reading of the name by later commands. `whole` and `settled` are
histories: the configuration of which the last init wrote all of its files, and the one
of the last init if it succeeded.

**`ReleaseMirror`** is a release on its way from the upstream manifest to a host,
directly or through a mirror. `CanResolve` is the absence of the code's errors in the
resolution of a version and `Source` its result, with `Matched`, `LatestDate`, `LatestIam`
and `Registry` (in-region accounts, fallback by prefix, FIPS) as its algorithms; the loops over lists that keep the first greatest entry
are `FirstGreatest`. What a command has still to copy or install is a set of places in
its list, of which the first is next (`IsFirst`), and an object or file that is not there
is the empty set. Upstream publishes manifests and agent installers while commands run.
`sync-artifacts` takes its timestamp, copies one object per step with its checksum in
another step (whose failure is only a warning) and writes a manifest; several of them
share a bucket, and keys have the second of the timestamp in them and neither version
nor architecture. Install fetches each artifact and then its checksum or signature,
each as of the moment, up to `Attempts` times.

The modules meet at these points: `NodeComponents` treats an artifact's
installation as one step whose partial results `ArtifactInstall` explains, and
the SSM agent as one component whose registration `SSMAgent` follows;
`NodePreflight` decides what is `Refuse` there; `SSMAgent`'s `EnsureRunning` is a
`DaemonManager` caller of kind "awaits"; `NodeInit` takes what `NodeComponents`
leaves behind as `installed`, starts where `NodePreflight` has let an upgrade pass,
knows of `SSMAgent`'s registration only whether there is one, and reduces
`DaemonManager`'s restart to a job that is pending, was dropped or has run, as `KubeletConfig`
does, too. `KubeletConfig` takes
apart what `NodeInit` has as the files of kubelet, and `ReleaseMirror` explains the
streams that `ArtifactInstall` finds corrupt or of another version.

## 3. Runs

| Run | Checks | Shows | States |
|---|---|---|---|
| `retrier` | `LoopInv` `SuccessIsReal` `GivesUpOnStreak` `DoReturns` | the retry loop over all interleavings of any outcomes, steps and deadline | 410 |
| `components` | `FlowInv` `UserPackagesKept` `ClearedMeansGone` `ImplementsLifecycle` `UninstallConverges` | installs, upgrades and uninstalls in any order and from any containerd source on a yum host, with a user's runc or a user's containerd, runc and iptables, two failures or kills; the refinement of `NodeLifecycle` | 910 000 |
| `ssm` | `RegistrationInv` `OkMeansDeregistered` `NoSilentLeak` `CommandsReturn` | three registrations, two faults of any kind | 76 000 |
| `preflight` | `CordonedStaysDrained` | a daemon-set pod, a static pod and two workloads on a node that is cordoned, uncordoned and deleted at will | 2 200 |
| `daemon` | `AwaitInv` `AwaitedIsReconfigured` `RestartUnderway` `EnsureRunningReturns` | three configurations, three faults and any number of dropped jobs, both kinds of caller, with and without other actors | 17 000 |
| `artifact` | `InstallInv` `OkMeansInstalled` `UpToDateIsUntouched` `CommandReturns` | two versions with any of two archive members each, any number of faults | 440 000 |
| `init` | `InitInv` `OkMeansConfigured` `RefusedIsNotConfigured` `ForeignCertRefused` `HostStaysPrepared` `CommandReturns` | two commands, init or upgrade, with one of three configurations on two clusters, on five hosts, a reboot, an expired certificate or a restart that fails or is dropped anywhere | 330 000 |
| `mirror` | `MirrorInv` `OkMeansRelease` `ResolvedAsRequested` `CompleteMirrorInstalls` | two sync commands in one bucket, two upstream manifests, an install from any of them | 470 000 |
| `kubelet` | `KubeletInv` `OkMeansEffective` `NodeNameReadBack` `ReservedPerTable` | two inits with one of eight configurations on eight hosts, kubelets of three versions and both layouts, ends and restarts anywhere, restarts queued and dropped | 165 000 |
| `ssm_retry` | `UninstallDeregisters` | violated, see section 6 | |
| `preflight_static` | `StaticPodsAllowed` | violated | |
| `init_auth` | `AuthenticatedUnlessSkipped` | violated | |

A component's type invariant is a conjunct of its inductive invariant (`LoopInv`,
`FlowInv`, `RegistrationInv`, `AwaitInv`, `InstallInv`, `InitInv`,
`KubeletInv`, `MirrorInv`) and is not listed apart.

Bounds. Two faults in `components` and `ssm` let a command fail, its repetition
fail at another place, and a third run finish. Three ids in `ssm` are one more
than the faults that can lose one. Three configurations in `daemon` are an old
one, one whose restart timed out and a new one. Two versions and two members in
`artifact` are enough for a mix and for a plugin that one of the versions lacks. `WaitFor` runs with its real limit of three
errors and `defaultRetrier` with its four steps. In `init`, two
commands are a first one that ends anywhere and one that meets what it left; the
configurations differ in cluster, in provider and in what is optional in them; the
hosts cover each kind of swap (none, file, partition, deleted file), both firewalls
and each of their states, and a host on which nothing is installed; the skip lists
are none, the certificate check and configuration, and everything else. In
`kubelet`, the second init finds what the first one left, complete or not; the
configurations have each credential provider, an EC2 node, an Outpost node of either of
two clusters, settings that replace the cluster DNS or the provider ID, labels, the
hostname flag in both of its forms, and flags to files of the user's own; the hosts have memory at and around each boundary of the table and CPUs
that are offline or incomplete. In `mirror`, one EKS artifact and the signing helper
are enough to have two artifacts that different releases and architectures have or
lack; two seconds let two sync commands have the same timestamp or not; the second
manifest has a rebuilt release, one of an older date listed last, one filed under
the wrong patch and an older patch that is listed as the latest, too; one region has its
account from the code and a DNS suffix that its name implies, the other an account from
the manifest and a suffix that its name does not imply; two attempts, of the code's three, outlast the one publication of the
agent's installer that can come between installer and signature. `Related` cuts off
an install from upstream beside sync commands, which share nothing; the two sync
commands are interchangeable (`SyncSymmetry`). What is
proved (section 5) holds without these bounds.

`CHECK_DEADLOCK FALSE` is set where the model may stop: for `retrier`, because a
call of `Do` ends, and for `init`, `init_auth` and `mirror`, after the last of the
bounded number of commands.

Every property of a passing run has a mutant in `PROJECT.json`: a definition above
the one it replaces, marked `\* mutant`, with a plausible bug, under which TLC
finds that property violated.

## 4. Fairness

* `Retrier`: the loop runs in the calling goroutine, operations get the context
  and return, and deadlines, where there are any, pass. All three values in use
  have one.
* `NodeComponents`: a command that runs takes its next step; the operator who
  wants a clean node runs uninstall again whenever no command is running. That
  steps stop failing is the bound on faults.
* `SSMAgent`: a command's own steps and `SSMRegistrationTimeout`. It is not
  assumed that the service ever accepts a registration, nor that the removal of the
  agent's package ever succeeds: `cmd.Retry` repeats it under uninstall's
  `context.Background()`, which is why `CommandsReturn` excepts that step.
* `DaemonManager`: the caller's steps and its deadlines. Nothing is assumed of
  systemd.
* `ArtifactInstall`: a command takes its next step; a download ends, perhaps with
  an error, each time.
* `NodeInit`: a command takes its next step (`Progress`); calls without a deadline are
  assumed to return, and the deadlines of the waits for credentials and daemons to pass.
  `Fail` is not part of it: no call is assumed to fail, no agent or daemon to come up
  and no job to run.

`KubeletConfig` and `ReleaseMirror` state no fairness: their properties are about
what has been done, and that their commands return is the subject of `NodeInit` and
`ArtifactInstall`.

## 5. Proofs

All theorems are checked by TLAPS for every value of the constants, under the
assumptions the component modules state (`RetrierAssumption` and so on: sets have
their types, bounds are naturals, a version is none of the markers for bad
contents, `NoId` is no id).

* `RetrierProofs`. `LoopInv` is inductive: the handler's count is the true streak
  except between an outcome and the handler, where it lags by that outcome.
  `LoopIsConsistent`, `GivesUpOnlyOnStreak` for every limit, and
  `SuccessIsRealForAnyOperation`, which has no hypothesis on operations and therefore names
  the case of done together with an error (section 6). `ExpiredIsLastRound` and
  `LimitedRoundsRunOut` are why `DoReturns` holds: after its deadline `Do` makes at most one
  more call, and without one a limited loop uses up a step in every round.
  The module also holds the theorems about `NodePreflight`, whose requests run in `Do`:
  `CordonedIsDrained`, for any set of pods. A node that counts as
  cordoned since its pods were listed has not been schedulable in between, so nothing
  could be bound to it.
* `NodeComponentsProofs`. `TrackerComplete` alone is not inductive: `FlowInv` adds
  what the install flow has tracked by each step and what the uninstall flow has
  removed by each step, and that during uninstall the command's copy is the file.
  From it `FlowsAreConsistent`, `TrackerIsComplete` and `ClearedIsGone`.
  `UserPackagesAreKept` needs the further invariant `UserPackagesUntracked`. It is about
  what counts as the user's own (`Owned`): an iptables, and a containerd with its runc
  until an install with the docker source on a yum host has removed that runc
  (section 6). A containerd without a runc nodeadm never takes for the user's.
  `ImplementsNodeLifecycle` is the refinement, on every host: every initial state maps to
  one, and every step to a step of `NodeLifecycle` or a stutter. The step of an install
  that saves the tracker is `Register` because `FlowInv` says that what is tracked by then
  is on the host and complete; the one that clears it is `Forget` because of what
  uninstall has removed by its last step; all others, `Abort` with any partial effect
  included, keep what the host owns because of `UserPackagesUntracked`, or are the one that
  takes over what is contested.
  `TrackedUnlessFailed` is the other direction of the tracker: while no command has failed,
  every artifact on the host is the user's or listed. An upgrade installs the SSM agent and
  the CNI plugins again without tracking them; that they are tracked by then needs
  `TrackerComplete` and `UpgradeRecord`. It cannot include containerd (section 6).
  `FlowsRunOnce`: no flow repeats a step.
* `SSMAgentProofs`. `RegistrationInv` says that the steps which talk to the
  service run while the file still names the instance found at the start, and that
  an instance still registered after `Deregister` has left an error behind. From
  it `RegistrationIsConsistent`, `OkIsDeregistered` and `LeaksHaveACause`, and
  `LeaksCostFailures`: every failed call excuses one instance, so n failures leave at most n
  instances behind, however many commands there were. `OnePassButForRetries`: only the
  registration command and the removal of the agent's package are ever repeated, and only
  after a failure.
* `DaemonManagerProofs`. `AwaitingIsConsistent` and from it
  `AwaitedRestartIsReconfigured`: while a caller that
  awaits its job and is alone waits, the job on the way is its own, so "done"
  means that the process of that job, with the new configuration, was the last
  one started; a result that is neither done nor an error is that of a dropped job, the
  exception both properties make. `PolledRestartIsUnderway` is what remains for kubelet and containerd, which
  only poll: an older process may be running when they return, but the restart that
  replaces it is still systemd's unless it was dropped. `RetriesCostFailures`: `RetryOperation` goes round its loop
  only after a failure.
* `ArtifactInstallProofs`. `InstallInvHolds`, and from it `OkIsInstalled` and
  `UpToDateIsLeftAlone`: what is verified is what was written, only a verified archive is
  unpacked, the members that are done have its version, and an upgrade removes only a file
  that is not the wanted one.
  `AttemptsRunOut`: attempts, steps of an attempt and members to unpack decrease in this
  order, for archives of any size.
* `NodeInitProofs`. `InitInv` is inductive. It says how far a command has got at
  each step: which files are written (`ConfigInv`), which daemons are enabled and
  restarted (`RunInv`), what is off and open now and after a reboot (`HostInv`), and
  that from the certificate check on no kubelet runs that could be issued another
  certificate (`CertInv`). None of the properties is inductive without it, since a
  reboot or a job, run, failed or dropped, may come between any two steps: `OkMeansConfigured` needs that
  containerd, restarted early, is still up to date when kubelet comes up, and
  `HostStaysPrepared` that rules in force are also permanent. From it
  (`InitInvAlways`) `OkIsConfigured`, `RefusedKeepsFiles`, `ForeignCertIsRefused` and
  `HostIsPrepared`, for any configurations, hosts, skip lists and bounds.
  `OnePassThroughFlow` orders the steps: a command only moves forward, and the host moves
  it only by ending it.
* `KubeletConfigProofs`. `KubeletInv` is `TypeOK`, `ConfigureInv` (the files that are written
  by each step of `Configure` are the command's own, and the flags collected so far name
  exactly them) and `WholeInv` (configuration and environment are of one init unless a
  later one stopped between them). The proofs add `SettledInv`: the kubelet that runs
  was started since the last file was written, unless its restart is queued or was
  dropped. From it `ConfiguringIsConsistent`, `OkIsEffective` and `NameIsReadBack`, whatever
  files earlier inits left. `ReserveFollowsTable` is arithmetic over the branches of the
  tables, with the integer division of the code, for every memory size and every finite
  set of CPUs, the size at which nothing is reserved included; `None`, the absent setting,
  is assumed to be no configuration and no name of a flag.
* `ReleaseMirrorProofs`. `MirrorInv` is `TypeOK`, `CopiesInv` (what a sync command has copied so
  far is in the bucket, and is what it resolved unless another command has the same
  second), `ManifestsInv` (a manifest that can be read is that of a command that has made
  all its copies) and `InstalledInv` (what an install
  has verified is what it resolved). From it `ManifestNeverAheadOfCopies` and
  `OkIsTheRelease`, for any manifests, lists of artifacts and numbers of commands. The
  code's loops over lists would need induction; the proofs use the least element of a set
  of places instead, which is why the model has the places still to do as sets.
  `ResolvesWhatIsAsked` has no hypothesis on upstream's manifests: it says of releases that
  disagree on the latest patch, and of regions whose suffix their name does not imply,
  what the code makes of them (section 6). `CompleteMirrorServes` has fewer publications of
  the agent's installer than attempts at it. Its invariant `ServingInv` says that every attempt that
  failed had a publication between installer and signature: the attempts left and the
  version published last add up to more than `Attempts`.

Every safety property of a passing run is stated by a theorem. Only model-checked are the
liveness properties (`DoReturns`, `UninstallConverges`, `CommandsReturn`,
`EnsureRunningReturns`, `CommandReturns` of two modules): fairness and
`ENABLED` are beyond the proof system. Theorems show the part of them that is about the
order of steps, that every step is one towards the end: `ExpiredIsLastRound` and
`LimitedRoundsRunOut`, `FlowsRunOnce`, `OnePassButForRetries`, `RetriesCostFailures`,
`AttemptsRunOut` and `OnePassThroughFlow`. That a step is possible until then, and is taken,
is what the runs check, with the fairness of section 4.

## 6. Where the code and its words disagree

Each is a run that is expected to be violated, and a finding in `PROJECT.json`
with the line that is contradicted.

* `ssm_retry`: a failed deregistration does not keep `Uninstall` from deleting the
  registration file; the next uninstall reports success and the instance stays
  registered.
* `preflight_static`: static pod manifests are decoded into `ObjectMeta`, so their
  names are always empty and static pods count as workload.
* `init_auth`: the authenticated request to the API server is made only if the skip
  list is not nil, so a plain `init` never makes it, and an `init` that skips some
  other phase does.

Observations made while modelling that have no run of their own.

* Retry. `Do` overwrites `err` with the handler's result before testing it (`retry.go:76`),
  so with a handler it returns nil for an operation that says done together with an
  error, contrary to the comment above the test (`:81-83`; no operation in the repository
  does so today; `SuccessIsReal` has it as its second half), and may wrap an error of an earlier round around a later interruption.
  `GetPodsOnNode` makes four attempts where its comment says five.
* Tracker. It is saved after the last artifact: an install that fails before leaves
  components that uninstall does not see and reports as "already uninstalled". A
  kill inside `Save` leaves an empty tracker, on which later commands dereference
  nil.
* Packages. With `--containerd-source docker` on a host that already has containerd,
  the docker repository is configured (`containerd/install.go:41` then records the
  source as none) and never removed, although `packagemanager.go:290` has a `Cleanup`
  for it. No failure is needed.
  On a yum host that install first removes the runc in PATH, whatever containerd is there
  (`packagemanager.go:97-102`). `containerd.Install` then does not find both, installs and
  tracks containerd.io, and the next uninstall removes the containerd that was the user's,
  although the comment at `containerd/install.go:31-36` has it skipped and excluded.
  A second install finds the containerd that the first one installed, records its source
  as none as for a user's own (the comment at `containerd/install.go:31-36` has the latter
  in mind), and the next uninstall leaves containerd, runc and the docker repository.
* Forced cleanup. `uninstall --force` removes the CNI state after the tracker is
  cleared; if it ends in between, the same command run again finds no tracker, says
  that everything is uninstalled and leaves that state behind.
* Preflight. `IsDrained` runs before `IsUnscheduled`, so a pod bound between the two
  on a node cordoned between the two is not seen.
* Daemons. `EnsureRunning` of kubelet and containerd only polls the unit's state after
  a restart was enqueued (`containerd/daemon.go:45`, `:57`) and may take the process
  that is about to be stopped for the restarted one; `AwaitedIsReconfigured` is about
  callers that await their job, ssm's, and `RestartUnderway` about these. `WaitForOperation`
  takes every result but "failed" and "timeout" for success (`wait.go:66`), "dependency" and
  "skipped" included, after which the old process satisfies the poll; both properties
  except such a job. A start that fails after the poll has seen the old process is
  nobody's error any more. The goroutine that forwards a job's result
  (`daemon/systemd.go:127`) stays when nobody reads it. Uninstall stops the SSM agent
  under its default unit name, not that of the snap. `StopDaemon` leaves a unit that is
  activating alone and `DisableDaemon` of a disabled unit is an error, both contrary to
  the interface's comments.
* Artifacts. A file that `artifact.Upgrade` removed before it was killed keeps every
  later upgrade from working; only install repairs it. `InstallTarGz` only overwrites and
  `cni.Upgrade` does not remove first (`cni/install.go:102`), so plugins that the new release
  dropped stay, half-written ones of an earlier failure included.
* SSM. The registration command is not idempotent and is retried. Uninstall runs under
  `context.Background()` (`cmd/nodeadm/uninstall/uninstall.go:70`), so the removal of the
  agent's package (`ssm/install.go:234`) is retried for ever if it keeps failing. A machine that is
  registered keeps its identity when it is initialised again with another activation.
* Kubelet. Memory from 1 to just below 2 GiB reserves nothing (a quarter of a GiB,
  rounded) while less than 1 GiB reserves 255 MiB; the table in the comment
  (`config.go:295-301`) has 25% there. `MemoryPerTable` says that this is the only such
  place. Without NUMA directories CPUs that are offline count. init may return nil while
  the old kubelet still runs (`daemon.go:96-107`). An Outpost's kubelet that has a
  kubeconfig from its first cluster keeps it when the node is initialised for another:
  nodeadm only writes the bootstrap kubeconfig, and `kubelet.service:13` always names the
  other (`JoinedBefore`). Two files hold the node's name, the configuration (in the
  provider ID) and the environment (in the flag): an init that is killed between them
  leaves the names of two nodes (`daemon.go:61-75`), the one that is read back
  (`config.go:563`) may belong to no node, and a node that is not found counts as drained
  and cordoned (`node/validations.go:20-23`). A kubelet that systemd restarts there reads
  the mix. A kubelet that is replaced by one before 1.28 does not start with a drop-in's
  flag until the next init. Uninstall leaves the environment file. The validator that
  forbids `--hostname-override` on hybrid nodes knows only the form with an equals sign
  (`node/hybrid/validator.go:22-34`); with a space the flag passes and the node registers
  under that name, which is why `NodeNameReadBack` excludes it.
* Releases and mirrors. The keys of copies have a resolution of one second and neither
  version nor architecture (`sync_artifacts.go:255`): two commands in one second
  overwrite each other, and an install from either manifest then finds matching
  checksums (the exception in `OkMeansRelease`). A checksum that could not be copied is
  a warning (`:263`) that makes later installs fail. A release without a signing helper
  for an architecture makes a manifest that no install can use, with SSM credentials
  neither. The manifest of a mirror drops the DNS suffix of its region (`:383-392`); the
  fallback knows the prefix "us-isoe-" where `ecr.go:90` has "eu-isoe-west-1", so that a mirror
  for that region leads to a registry that does not exist, and to no agent installer. Signing
  helper versions without a leading v all compare equal, so the first listed is taken.
  `validateS3Bucket` lets errors other than missing and forbidden pass. An install from
  a mirror still fetches the agent's installer from its public URL, and installer and
  signature are fetched apart.
* Init. A node that the API server refuses (`k8s-authentication-validation`,
  `kubelet/daemon.go:77-84`) has all new files already and goes over to them at the next
  reboot, unlike one that any other validation refuses; `RefusedIsNotConfigured` says both.
  Without a tracker it reports that nothing is installed and returns nil. A
  credentials file of an earlier run passes the wait, which looks only for its
  existence. A containerd drop-in survives an init whose configuration has none.
  `/etc/fstab` is truncated and rewritten in place; a kill between the two loses the
  mounts. A swap file that was deleted while in use stays in use until the next
  reboot. `parseProcSwapsLine` answers a blank line with neither a value nor an
  error, which its caller dereferences.
* Validations. Two names in `Phases()`, "ssm-api-network-validation" and
  "iam-ra-api-network-validation", are not the registered "ssm-api-network" and
  "iam-ra-api-network", so skipping them has no effect, and
  "cluster-access-validation" is not listed. A kubelet that runs while its
  certificate is found to fit may be issued another one of the old cluster
  afterwards; `ForeignCertRefused` excludes it with `seen.busy`. Upgrade configures
  without validating, so it does not refuse a change of cluster.

## 7. Not modelled, and the plan

Next, in this order:

1. A refinement between modules: the two steps of a restart in `NodeInit` (a job that is
   pending, dropped or has run) against `DaemonManager`.
2. What could still be modelled and is not: addresses and networks (containment of
   CIDRs, choice of the node IP), the endpoint and proxy checks, the active-node
   check, which only warns, the lines an Outpost's init adds to `/etc/hosts`, and `Cleanup`
   after `uninstall --force`.

Left out for good: command-line parsing and printing, the e2e harness under
`test/` and `cmd/e2e-test` (it runs in AWS, not on a node), generated and conversion
code under `api/` and `internal/api`, parsing of configurations, IMDS and AWS clients,
building of URLs and command lines, contents of configuration files that no decision
depends on, and two `nodeadm` processes at a time (the commands are
run one by one; nothing in the code locks against a second one).

## 8. Checking

From this directory:

    tlc -workers 2 -config MCNodeComponents.cfg MCNodeComponents
    tlapm NodeComponentsProofs.tla

and likewise for the other runs, whose modules and configurations are in
`PROJECT.json`. `components`, `mirror`, `init` and `artifact` take from half a minute to
nearly two, the others seconds; `ReleaseMirrorProofs` and `NodeInitProofs` take a minute or
two from nothing, each other proof module less than half a minute.
