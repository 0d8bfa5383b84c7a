--------------------------- MODULE ReleaseMirror ---------------------------
(***************************************************************************)
(* Release manifests and the mirror for private installations:             *)
(* cmd/nodeadm/sync_artifacts copies the artifacts of a release into an S3 *)
(* bucket and writes a manifest that names the copies; nodeadm install     *)
(* resolves a version against the public manifest or against such a one    *)
(* (internal/aws) and fetches every artifact with its checksum, or, for    *)
(* the SSM agent, its signature. Several sync commands share one bucket    *)
(* and prefix, and upstream publishes while they run.                      *)
(***************************************************************************)
EXTENDS Naturals, Sequences, Functions

CONSTANTS
    EksOrder,   \* the names of the EKS artifacts, in the order of both commands
    HostArch,   \* the architecture of the host that installs
    Manifests,  \* the manifests upstream publishes, in order
    Requests,   \* arguments: a version, a region and (sync-artifacts only) an architecture
    Syncs,      \* the sync-artifacts commands
    MaxSecond,  \* bound: seconds on the clock
    MaxSsm,     \* bound: publications of ssm-setup-cli
    MaxInstalls,\* bound: install commands on the host
    Attempts,   \* the loops `for range 3` around every download
    None

Helper == "aws_signing_helper"
SetupCli == "ssm-setup-cli"
Signature == "ssm-setup-cli.sig"
EksNames == Range(EksOrder)
Names == EksNames \cup {Helper, SetupCli, Signature}
Seconds == 1..MaxSecond
Keys == Seconds \X Names

\* What upstream publishes: dates and versions are ordered (the date 0 stands for one
\* that does not parse), and artifacts have upstream's own URLs.
Published(m) ==
    /\ m.by = None
    /\ m.eks \in Seq(Range(m.eks)) /\ m.iam \in Seq(Range(m.iam))
    /\ \A r \in Range(m.eks) : r.date \in Nat /\ \A a \in r.artifacts : a.uri = None
    /\ \A r \in Range(m.iam) : r.version \in Nat /\ \A a \in r.artifacts : a.uri = None

ASSUME ReleaseMirrorAssumption ==
    /\ EksOrder \in Seq(EksNames) /\ IsInjective(EksOrder)
    /\ EksNames \cap {Helper, SetupCli, Signature} = {}
    /\ Manifests \in Seq(Range(Manifests)) /\ Manifests # << >>
    /\ \A m \in Range(Manifests) : Published(m)
    /\ None \notin Syncs \cup Seconds
    /\ MaxSecond \in Nat \ {0} /\ MaxSsm \in Nat \ {0} /\ MaxInstalls \in Nat /\ Attempts \in Nat \ {0}

VARIABLES
    upstream,   \* the index of the manifest that is published now
    ssmLatest,  \* the version behind the /latest/ URL of ssm-setup-cli
    now,        \* time.Now().Unix()
    sync,       \* the sync commands
    bucket,     \* the objects under prefix/<timestamp>/
    sums,       \* the .sha256 objects beside them
    manifests,  \* the manifest files the sync commands wrote
    inst,       \* the install command on one host
    host        \* the files on that host

origin == <<upstream, ssmLatest, now>>
mirror == <<sync, bucket, sums, manifests>>
vars == <<origin, mirror, inst, host>>

-----------------------------------------------------------------------------
(* Resolving a version against a manifest. A manifest is a record of its   *)
(* EKS patch releases (each with the major.minor and the latest patch of   *)
(* the release it is listed under), its signing helper releases and the    *)
(* data of its regions. An artifact's uri is the second of its copy, or    *)
(* None for the versioned URL upstream.                                    *)

\* getLatestEksSource, the loops: a patch is taken as given, else the latest one.
Matched(req, m) ==
    {i \in DOMAIN m.eks : /\ m.eks[i].mm = req.mm
                          /\ m.eks[i].patch = IF req.patch = None THEN m.eks[i].latest ELSE req.patch}

\* The loops that keep a release until a later one comes: the first of the latest.
FirstGreatest(indices, rank) ==
    CHOOSE i \in indices : \A j \in indices : rank[j] < rank[i] \/ (rank[j] = rank[i] /\ i <= j)

LatestDateIsLast(req, m) ==  \* mutant: the last release listed
    m.eks[CHOOSE i \in Matched(req, m) : \A j \in Matched(req, m) : j <= i]

\* getLatestDateEksPatchRelease.
LatestDate(req, m) ==
    m.eks[FirstGreatest(Matched(req, m), [i \in DOMAIN m.eks |-> m.eks[i].date])]

\* getLatestIamRolesAnywhereSource: semver.Compare takes a version without a
\* leading v for invalid, and two invalid ones for equal.
SemverRank(r) == IF r.v THEN r.version ELSE 0
LatestIam(m) ==
    m.iam[FirstGreatest(DOMAIN m.iam, [i \in DOMAIN m.iam |-> SemverRank(m.iam[i])])]

\* validateKubernetesVersionMatch.
VersionMatches(req, version) ==
    version.mm = req.mm /\ req.patch \in {None, version.patch}

\* getSourceFromManifest: its errors, and what it returns. A date that does not parse
\* matters where dates are compared.
CanResolve(req, m) ==
    /\ Matched(req, m) # {}
    /\ \A i, j \in Matched(req, m) : i # j => m.eks[i].date # 0
    /\ VersionMatches(req, LatestDate(req, m).version)
    /\ m.iam # << >>
    /\ req.region \in DOMAIN m.regions
Source(req, m) ==
    [eks |-> LatestDate(req, m), iam |-> LatestIam(m), region |-> m.regions[req.region]]

\* GetPartitionFromRegionFallback with GetPartitionDNSSuffix.
FallbackSuffix(region) ==
    CASE region.prefix = "cn-" -> "amazonaws.com.cn"
      [] region.prefix = "us-iso-" -> "c2s.ic.gov"
      [] region.prefix = "us-isob-" -> "sc2s.sgov.gov"
      [] region.prefix = "us-isoe-" -> "cloud.adc-e.uk"
      [] region.prefix = "us-isof-" -> "csp.hci.ic.gov"
      [] region.prefix = "eusc-" -> "amazonaws.eu"
      [] OTHER -> "amazonaws.com"

\* The domain of AWS's services in a region, for images and for the agent's installer.
ServicesDomain(region, data) ==
    IF data.suffix = None THEN FallbackSuffix(region) ELSE data.suffix

\* getEKSRegistryCoordinates, for a region without an account in the manifest. An
\* account is named by the region it is of.
InRegionAccounts ==
    {"cn-north-1", "cn-northwest-1", "eu-isoe-west-1", "us-gov-east-1", "us-gov-west-1",
     "us-iso-east-1", "us-iso-west-1", "us-isob-east-1", "us-isof-south-1"}
HomeRegion(region) ==
    CASE region.name \in InRegionAccounts -> region.name
      [] region.prefix = "us-gov-" -> "us-gov-west-1"
      [] region.prefix = "cn-" -> "cn-northwest-1"
      [] region.prefix = "us-iso-" -> "us-iso-east-1"
      [] region.prefix = "us-isob-" -> "us-isob-east-1"
      [] region.prefix = "us-isof-" -> "us-isof-south-1"
      [] OTHER -> "us-west-2"

\* GetEKSHybridRegistry; fips: the host has FIPS on, and the FIPS registry resolves.
Registry(region, data, fips) ==
    [account |-> IF data.account = None THEN HomeRegion(region) ELSE data.account,
     subdomain |-> IF fips THEN "ecr-fips" ELSE "ecr",
     region |-> IF data.account = None THEN HomeRegion(region) ELSE region.name,
     suffix |-> ServicesDomain(region, data)]

\* findArtifact and getSource: the entry for an architecture.
HasArtifact(artifacts, name, arch) == \E a \in artifacts : a.name = name /\ a.arch = arch
ArtifactFor(artifacts, name, arch) == CHOOSE a \in artifacts : a.name = name /\ a.arch = arch

File(name, version, arch) == [name |-> name, version |-> version, arch |-> arch]
ReleaseOf(src, name) == IF name = Helper THEN src.iam ELSE src.eks

-----------------------------------------------------------------------------
(* A missing object or file is {}, one that is there the set of its        *)
(* content. A command that has artifacts to do takes the first of them.    *)

Idle == [pc |-> "idle", req |-> None, src |-> None, ts |-> 0, todo |-> {}]
NoInstall == [pc |-> "none", req |-> None, provider |-> None, from |-> None, src |-> None,
              todo |-> {}, stream |-> {}, left |-> 0, runs |-> 0, faulty |-> FALSE, last |-> "none"]

IsFirst(i, todo) == i \in todo /\ \A j \in todo : i <= j

Init ==
    /\ upstream = 1 /\ ssmLatest = 1 /\ now = 1
    /\ sync = [s \in Syncs |-> Idle]
    /\ bucket = [k \in Keys |-> {}] /\ sums = [k \in Keys |-> {}]
    /\ manifests = {}
    /\ inst = NoInstall
    /\ host = [n \in Names |-> {}]

\* Upstream publishes a manifest or an agent installer; the clock ticks.
Publish ==
    /\ upstream < Len(Manifests) /\ upstream' = upstream + 1
    /\ UNCHANGED <<ssmLatest, now, mirror, inst, host>>

PublishSsm ==
    /\ ssmLatest < MaxSsm /\ ssmLatest' = ssmLatest + 1
    /\ UNCHANGED <<upstream, now, mirror, inst, host>>

Tick ==
    /\ now < MaxSecond /\ now' = now + 1
    /\ UNCHANGED <<upstream, ssmLatest, mirror, inst, host>>

-----------------------------------------------------------------------------
(* nodeadm sync-artifacts                                                  *)

Running(s) == sync[s].pc \notin {"idle", "done", "failed"}

\* Run: the version is resolved against the manifest of the moment.
StartSync(s, req) ==
    /\ sync[s].pc = "idle"
    /\ sync' = [sync EXCEPT ![s] =
           IF CanResolve(req, Manifests[upstream])
           THEN [Idle EXCEPT !.pc = "bucket", !.req = req, !.src = Source(req, Manifests[upstream])]
           ELSE [Idle EXCEPT !.pc = "failed"]]
    /\ UNCHANGED <<origin, bucket, sums, manifests, inst, host>>

\* collectArtifacts: what the release has for the architecture; the SSM installer
\* and its signature always.
SyncOrder == EksOrder \o <<Helper, SetupCli, Signature>>
Collected(c, name) ==
    \/ name \in {SetupCli, Signature}
    \/ HasArtifact(ReleaseOf(c.src, name).artifacts, name, c.req.arch)
CollectArtifacts(c) == {i \in DOMAIN SyncOrder : Collected(c, SyncOrder[i])}

\* validateS3Bucket passes, and the command takes its timestamp. A bucket that is
\* missing or forbidden fails it, any other error of the call does not.
ValidateBucket(s) ==
    /\ sync[s].pc = "bucket"
    /\ sync' = [sync EXCEPT ![s].pc = "stream", ![s].ts = now,
                            ![s].todo = CollectArtifacts(sync[s])]
    /\ UNCHANGED <<origin, bucket, sums, manifests, inst, host>>

SyncKeyOfPrefix(s, name) ==  \* mutant: no timestamp in the key
    <<1, name>>

\* The key of a copy: prefix/<timestamp>/<path>, without version or architecture.
SyncKey(s, name) == <<sync[s].ts, name>>

\* What the URL of an artifact delivers to the command. The agent's installer and its
\* signature are those of the moment; no command reads their copies, and the model
\* does not tell their versions apart.
Download(s, name) ==
    File(name,
         IF name \in {SetupCli, Signature} THEN None ELSE ReleaseOf(sync[s].src, name).version,
         sync[s].req.arch)

\* syncArtifactToS3: the artifact, an error of which ends the command ...
StreamArtifact(s, i) ==
    /\ sync[s].pc = "stream" /\ IsFirst(i, sync[s].todo)
    /\ LET name == SyncOrder[i] IN
       /\ bucket' = [bucket EXCEPT ![SyncKey(s, name)] = {Download(s, name)}]
       /\ sync' = IF name \in {SetupCli, Signature}
                  THEN [sync EXCEPT ![s].todo = @ \ {i}]
                  ELSE [sync EXCEPT ![s].pc = "checksum"]
    /\ UNCHANGED <<origin, sums, manifests, inst, host>>

\* ... then its checksum, an error of which is a warning.
StreamChecksum(s, i) ==
    /\ sync[s].pc = "checksum" /\ IsFirst(i, sync[s].todo)
    /\ LET name == SyncOrder[i] IN
       sums' \in {sums, [sums EXCEPT ![SyncKey(s, name)] = {Download(s, name)}]}
    /\ sync' = [sync EXCEPT ![s].pc = "stream", ![s].todo = @ \ {i}]
    /\ UNCHANGED <<origin, bucket, manifests, inst, host>>

Copied(s, artifacts, names) ==
    {[name |-> a.name, arch |-> a.arch, uri |-> sync[s].ts] :
        a \in {x \in artifacts : x.name \in names /\ x.arch = sync[s].req.arch}}

\* generateCustomManifest. The SSM copies are listed in a section of their own that
\* no command reads; partition and DNS suffix of the region are not taken over.
CustomManifest(s) ==
    LET src == sync[s].src
        helpers == Copied(s, src.iam.artifacts, {Helper})
    IN [eks |-> <<[mm |-> src.eks.version.mm, latest |-> src.eks.patch, patch |-> src.eks.patch,
                   date |-> src.eks.date, version |-> src.eks.version,
                   artifacts |-> Copied(s, src.eks.artifacts, EksNames)]>>,
        iam |-> IF helpers = {} THEN << >>
                ELSE <<[version |-> src.iam.version, v |-> src.iam.v, artifacts |-> helpers]>>,
        regions |-> [r \in {sync[s].req.region} |-> [account |-> src.region.account, suffix |-> None]],
        by |-> s]

\* A file that was cut off has no complete EKS release: the versions come last.
TruncatedManifest(s) == [eks |-> << >>, iam |-> << >>, regions |-> << >>, by |-> s]

WriteManifestEarly(s) ==  \* mutant: the manifest before the copies
    /\ sync[s].pc = "stream"
    /\ manifests' = manifests \cup {CustomManifest(s)}
    /\ sync' = [sync EXCEPT ![s].pc = "done"]
    /\ UNCHANGED <<origin, bucket, sums, inst, host>>

WriteManifest(s) ==
    /\ sync[s].pc = "stream" /\ sync[s].todo = {}
    /\ manifests' = manifests \cup {CustomManifest(s)}
    /\ sync' = [sync EXCEPT ![s].pc = "done"]
    /\ UNCHANGED <<origin, bucket, sums, inst, host>>

\* Every error of Run, the timeout, and a kill.
SyncFails(s) ==
    /\ Running(s)
    /\ manifests' \in IF sync[s].pc = "stream" /\ sync[s].todo = {}
                      THEN {manifests, manifests \cup {TruncatedManifest(s)}}
                      ELSE {manifests}
    /\ sync' = [sync EXCEPT ![s] = [Idle EXCEPT !.pc = "failed", !.ts = sync[s].ts]]
    /\ UNCHANGED <<origin, bucket, sums, inst, host>>

-----------------------------------------------------------------------------
(* nodeadm install                                                         *)

\* The credential process comes first.
InstallOrder(provider) == <<IF provider = "ssm" THEN SetupCli ELSE Helper>> \o EksOrder

\* command.Run and Installer.Run.
StartInstall(req, provider, from) ==
    /\ inst.pc = "none" /\ inst.runs < MaxInstalls
    /\ inst' = IF CanResolve(req, from)
               THEN [NoInstall EXCEPT !.pc = "fetch", !.req = req, !.provider = provider, !.from = from,
                                      !.src = Source(req, from), !.todo = DOMAIN InstallOrder(provider),
                                      !.left = Attempts, !.runs = inst.runs + 1]
               ELSE [NoInstall EXCEPT !.req = req, !.provider = provider, !.from = from,
                                      !.runs = inst.runs + 1, !.last = "error"]
    /\ UNCHANGED <<origin, mirror, host>>

\* getSource and GetSSMInstaller: what is behind the URL of the moment. The agent's
\* installer always comes from the public URL of the region.
Delivered(name, copies) ==
    IF name = SetupCli
    THEN IF ServicesDomain(inst.req.region, inst.src.region) = inst.req.region.suffix
         THEN {File(SetupCli, ssmLatest, HostArch)} ELSE {}
    ELSE LET release == ReleaseOf(inst.src, name) IN
         IF HasArtifact(release.artifacts, name, HostArch)
         THEN LET uri == ArtifactFor(release.artifacts, name, HostArch).uri IN
              IF uri = None THEN {File(name, release.version, HostArch)} ELSE copies[<<uri, name>>]
         ELSE {}

InstallError(faulty) ==
    [inst EXCEPT !.pc = "none", !.last = "error", !.todo = {}, !.stream = {}, !.left = 0,
                 !.faulty = faulty]

AttemptFailedOnce(faulty) ==  \* mutant: no second attempt
    inst' = InstallError(faulty)

\* Every download is tried again in a loop of its own.
AttemptFailed(faulty) ==
    inst' = IF inst.left > 1
            THEN [inst EXCEPT !.pc = "fetch", !.left = @ - 1, !.stream = {}, !.faulty = faulty]
            ELSE InstallError(faulty)

Fetch(i) ==
    /\ inst.pc = "fetch" /\ IsFirst(i, inst.todo)
    /\ LET delivered == Delivered(InstallOrder(inst.provider)[i], bucket) IN
       \/ delivered = {} /\ AttemptFailed(inst.faulty)
       \/ delivered # {} /\ inst' = [inst EXCEPT !.stream = delivered, !.pc = "verify"]
    /\ UNCHANGED <<origin, mirror, host>>

\* The checksum or the signature, a request of its own. A checksum is compared once
\* the file is in place, the installer's signature before.
Verify(i) ==
    /\ inst.pc = "verify" /\ IsFirst(i, inst.todo)
    /\ LET name == InstallOrder(inst.provider)[i]
           expected == Delivered(name, sums)
       IN /\ host' = IF expected = {} \/ (name = SetupCli /\ expected # inst.stream)
                     THEN host ELSE [host EXCEPT ![name] = inst.stream]
          /\ \/ /\ expected = inst.stream
                /\ inst' = [inst EXCEPT !.pc = "fetch", !.todo = @ \ {i}, !.left = Attempts, !.stream = {}]
             \/ expected # inst.stream /\ AttemptFailed(inst.faulty)
    /\ UNCHANGED <<origin, mirror>>

\* A request fails or delivers only a part, the disk is full.
AttemptBreaks(i) ==
    /\ inst.pc = "verify" /\ IsFirst(i, inst.todo)
    /\ host' \in {host, [host EXCEPT ![InstallOrder(inst.provider)[i]] = {}]}
    /\ AttemptFailed(TRUE)
    /\ UNCHANGED <<origin, mirror>>

\* Tracker.Save, and the command is done.
InstallDone ==
    /\ inst.pc = "fetch" /\ inst.todo = {}
    /\ inst' = [inst EXCEPT !.pc = "none", !.last = "ok"]
    /\ UNCHANGED <<origin, mirror, host>>

-----------------------------------------------------------------------------
SyncStep(s) ==
    \/ \E req \in Requests : StartSync(s, req)
    \/ ValidateBucket(s)
    \/ \E i \in DOMAIN SyncOrder : StreamArtifact(s, i) \/ StreamChecksum(s, i)
    \/ WriteManifest(s)
    \/ SyncFails(s)

InstallStep ==
    \/ \E req \in Requests, provider \in {"ssm", "iam-ra"}, from \in manifests \cup {Manifests[upstream]} :
          StartInstall(req, provider, from)
    \/ \E i \in inst.todo : Fetch(i) \/ Verify(i) \/ AttemptBreaks(i)
    \/ InstallDone

Next ==
    \/ Publish \/ PublishSsm \/ Tick
    \/ \E s \in Syncs : SyncStep(s)
    \/ InstallStep

Spec == Init /\ [][Next]_vars

-----------------------------------------------------------------------------
(* Properties                                                              *)

\* Two commands took the same second for their timestamp, and so the same keys.
Clash(s) == \E t \in Syncs \ {s} : sync[t].ts = sync[s].ts

Resolved(s) == sync[s].pc \in {"bucket", "stream", "checksum", "done"}
HasCopies(s) == sync[s].pc \in {"stream", "checksum", "done"}
Streamed(s, i) == i \notin sync[s].todo \/ (sync[s].pc = "checksum" /\ IsFirst(i, sync[s].todo))
Mirrored(from) == from.by # None

TypeOK ==
    /\ upstream \in DOMAIN Manifests /\ ssmLatest \in 1..MaxSsm /\ now \in Seconds
    /\ sync = [s \in Syncs |-> [pc |-> sync[s].pc, req |-> sync[s].req, src |-> sync[s].src,
                                ts |-> sync[s].ts, todo |-> sync[s].todo]]
    /\ \A s \in Syncs : /\ sync[s].pc \in {"idle", "bucket", "stream", "checksum", "done", "failed"}
                        /\ sync[s].ts \in 0..now /\ sync[s].todo \subseteq DOMAIN SyncOrder
    /\ bucket = [k \in Keys |-> bucket[k]] /\ sums = [k \in Keys |-> sums[k]]
    /\ inst = [pc |-> inst.pc, req |-> inst.req, provider |-> inst.provider, from |-> inst.from,
               src |-> inst.src, todo |-> inst.todo, stream |-> inst.stream, left |-> inst.left,
               runs |-> inst.runs, faulty |-> inst.faulty, last |-> inst.last]
    /\ inst.pc \in {"none", "fetch", "verify"} /\ inst.left \in 0..Attempts /\ inst.runs \in 0..MaxInstalls
    /\ inst.faulty \in BOOLEAN /\ inst.last \in {"none", "ok", "error"}
    /\ host = [n \in Names |-> host[n]]

\* The copies a sync command has made so far are in the bucket, whatever fails or is
\* killed. They are the files of its release and architecture, each beside its own
\* checksum or none, unless another command runs with the same timestamp.
CopiesOf(s) ==
    /\ sync[s].pc \in {"idle", "bucket"} => sync[s].ts = 0
    /\ Resolved(s) => /\ sync[s].req \in Requests
                      /\ \E m \in Range(Manifests) :
                             CanResolve(sync[s].req, m) /\ sync[s].src = Source(sync[s].req, m)
    /\ HasCopies(s) => sync[s].ts > 0
    /\ HasCopies(s) => \A i \in DOMAIN SyncOrder :
          LET k == SyncKey(s, SyncOrder[i]) IN
          /\ Collected(sync[s], SyncOrder[i]) /\ Streamed(s, i) => bucket[k] # {}
          /\ ~Clash(s) => /\ bucket[k] \subseteq {Download(s, SyncOrder[i])}
                          /\ sums[k] \subseteq {Download(s, SyncOrder[i])}
CopiesInv ==
    /\ \A s \in Syncs : CopiesOf(s)
    /\ \A k \in Keys : bucket[k] # {} \/ sums[k] # {} => \E s \in Syncs : sync[s].ts = k[1]

\* A manifest that can be read lists the copies of a command that has made them all.
ManifestsInv ==
    /\ \A s \in Syncs : sync[s].pc = "done" => sync[s].todo = {}
    /\ \A m \in manifests :
          /\ m.by \in Syncs
          /\ \/ m = TruncatedManifest(m.by)
             \/ sync[m.by].pc = "done" /\ m = CustomManifest(m.by)

\* The files an install has verified so far are those of the release it resolved.
Right(n) ==
    \/ host[n] = {File(n, ReleaseOf(inst.src, n).version, HostArch)}
    \/ Mirrored(inst.from) /\ Clash(inst.from.by)
InstalledInv ==
    /\ inst.runs > 0 => /\ inst.req \in Requests /\ inst.provider \in {"ssm", "iam-ra"}
                        /\ inst.from \in manifests \cup Range(Manifests)
    /\ inst.runs = 0 => inst.pc = "none" /\ inst.last = "none"
    /\ inst.pc # "none" \/ inst.last = "ok" =>
          /\ inst.runs > 0
          /\ CanResolve(inst.req, inst.from) /\ inst.src = Source(inst.req, inst.from)
          /\ inst.todo \subseteq DOMAIN InstallOrder(inst.provider)
          /\ \A i \in DOMAIN InstallOrder(inst.provider) \ inst.todo :
                InstallOrder(inst.provider)[i] # SetupCli => Right(InstallOrder(inst.provider)[i])
    /\ inst.pc = "verify" => inst.stream # {}
    /\ inst.pc # "none" => inst.last = "none"
    /\ inst.last = "ok" => inst.todo = {}

\* The inductive invariant of mirrors and installs: a manifest is never ahead of its
\* copies, and what an install has verified is what it resolved.
MirrorInv == TypeOK /\ CopiesInv /\ ManifestsInv /\ InstalledInv

\* An install that succeeds has put on the host, for every EKS artifact and the
\* signing helper, the file of the release it resolved and of the host's own
\* architecture, although object and checksum are two requests and the copies may be
\* incomplete or being written; the one exception is a mirror two sync commands wrote
\* in the same second, whose checksums fit the wrong files.
OkMeansRelease ==
    inst.last = "ok" =>
        \A n \in EksNames \cup (IF inst.provider = "ssm" THEN {} ELSE {Helper}) : Right(n)

\* What a command resolved is what was asked for, however a manifest lists it: of the
\* major.minor and the patch of the request, without a patch the latest of the release
\* it is listed under, and of all such listings the newest. The manifest of a mirror
\* leads to the image registry of the upstream one it was made from exactly if the
\* region's name implies its DNS suffix: sync-artifacts does not take the suffix over,
\* and the fallback does not know every region (eu-isoe-west-1 has an account in
\* ecr.go, but partition.go looks for us-isoe-).
AsRequested(req, r) ==
    /\ r.version.mm = req.mm
    /\ req.patch = None => r.patch = r.latest
    /\ req.patch # None => r.version.patch = req.patch
ResolvedAsRequested ==
    /\ \A s \in Syncs : Resolved(s) => AsRequested(sync[s].req, sync[s].src.eks)
    /\ inst.pc # "none" \/ inst.last = "ok" => LET r == inst.src.eks IN
          /\ AsRequested(inst.req, r)
          /\ \A j \in Matched(inst.req, inst.from) : inst.from.eks[j].date <= r.date
    /\ \A m \in manifests, fips \in BOOLEAN : m.eks # << >> => LET c == sync[m.by] IN
          (Registry(c.req.region, m.regions[c.req.region], fips) = Registry(c.req.region, c.src.region, fips))
              <=> c.src.region.suffix \in {None, FallbackSuffix(c.req.region)}

\* A mirror that is complete serves: an install of what was synced, on a host of that
\* architecture and with no request failing, does not end in an error, although
\* upstream publishes in the meantime and sums and signatures are fetched apart (with
\* fewer publications of the agent's installer than attempts at it). The installer is
\* not served from the mirror but from the region's public URL, which the mirror's
\* manifest leads to only where the region's name implies the DNS suffix.
CompleteMirror(m) ==
    /\ m.eks # << >> /\ ~Clash(m.by)
    /\ \A n \in EksNames \cup {Helper} :
           /\ HasArtifact(ReleaseOf(sync[m.by].src, n).artifacts, n, sync[m.by].req.arch)
           /\ sums[SyncKey(m.by, n)] # {}
Serves ==
    /\ inst.runs > 0 /\ ~inst.faulty /\ Mirrored(inst.from) /\ CompleteMirror(inst.from)
    /\ HostArch = sync[inst.from.by].req.arch /\ inst.req = sync[inst.from.by].req
    /\ inst.provider = "ssm" => FallbackSuffix(inst.req.region) = inst.req.region.suffix
CompleteMirrorInstalls == Serves => inst.last # "error"
=============================================================================
