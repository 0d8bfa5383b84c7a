------------------------ MODULE ReleaseMirrorProofs ------------------------
(***************************************************************************)
(* What mirrors and installs guarantee for any manifests, artifacts,       *)
(* requests and number of sync commands.                                   *)
(***************************************************************************)
EXTENDS ReleaseMirror, TLAPS, SequenceTheorems, WellFoundedInduction

-----------------------------------------------------------------------------
(* Resolving a version.                                                    *)

\* The least number principle, in place of induction over the length of a list.
LEMMA LeastNumber ==
    ASSUME NEW T, T \subseteq Nat, T # {}
    PROVE  \E x \in T : \A y \in T : x <= y
<1>1. IsWellFoundedOn(OpToRel(<, Nat), Nat)
  BY NatLessThanWellFounded
<1>2. PICK x \in T : \A y \in T : ~(<<y, x>> \in OpToRel(<, Nat))
  BY <1>1, WFMin
<1>3. ASSUME NEW y \in T PROVE x <= y
  <2>1. x \in Nat /\ y \in Nat
    OBVIOUS
  <2>2. ~(y < x)
    BY <1>2, <2>1 DEF OpToRel
  <2> QED BY <2>1, <2>2
<1> QED BY <1>3

\* The loops over releases (getLatestDateEksPatchRelease, getLatestIamRolesAnywhereSource)
\* find one that no other exceeds.
LEMMA GreatestIsFound ==
    ASSUME NEW n \in Nat, NEW I, I \subseteq 1..n, I # {}, NEW rank, \A i \in I : rank[i] \in Nat
    PROVE  /\ FirstGreatest(I, rank) \in I
           /\ \A j \in I : rank[j] <= rank[FirstGreatest(I, rank)]
<1> DEFINE Beats(i, j) == rank[j] < rank[i] \/ (rank[j] = rank[i] /\ i <= j)
           Upto(k) == {j \in I : j <= k}
           Found(k) == Upto(k) # {} => \E i \in Upto(k) : \A j \in Upto(k) : Beats(i, j)
           Bad == {k \in 0..n : ~Found(k)}
<1>1. Bad = {}
  <2> SUFFICES ASSUME Bad # {} PROVE FALSE
    OBVIOUS
  <2>1. PICK k \in Bad : \A l \in Bad : k <= l
    <3>1. Bad \subseteq Nat
      OBVIOUS
    <3> HIDE DEF Bad
    <3> QED BY <3>1, LeastNumber
  <2>2. k \in 0..n /\ ~Found(k)
    BY <2>1
  <2>3. k # 0
    <3>1. \A j \in I : ~(j <= 0)
      <4>1. \A j \in 1..n : ~(j <= 0)
        OBVIOUS
      <4> QED BY <4>1
    <3>2. Upto(0) = {}
      BY <3>1, Zenon
    <3> HIDE DEF Upto, Beats
    <3> QED BY <2>2, <3>2
  <2>4. k - 1 \in 0..n /\ Found(k - 1)
    <3>1. k - 1 \in 0..n /\ ~(k <= k - 1)
      BY <2>2, <2>3
    <3> QED BY <3>1, <2>1
  <2>5. \A j \in Upto(k) : j \in Upto(k - 1) \/ j = k
    BY <2>2
  <2>6. \A j \in Upto(k - 1) : j \in Upto(k)
    BY <2>2
  <2>7. CASE k \notin I
    <3>1. Upto(k) = Upto(k - 1)
      BY <2>5, <2>6, <2>7
    <3> HIDE DEF Upto, Beats
    <3> QED BY <3>1, <2>2, <2>4
  <2>8. CASE k \in I /\ Upto(k - 1) = {}
    <3>1. \A j \in Upto(k) : j = k
      BY <2>5, <2>8
    <3>2. Beats(k, k) /\ k \in Upto(k)
      BY <2>2, <2>8
    <3> HIDE DEF Upto, Beats
    <3> QED BY <3>1, <3>2, <2>2
  <2>9. CASE k \in I /\ Upto(k - 1) # {}
    <3>1. PICK i \in Upto(k - 1) : \A j \in Upto(k - 1) : Beats(i, j)
      BY <2>4, <2>9
    <3>2. i \in Nat /\ k \in Nat /\ i < k /\ rank[i] \in Nat /\ rank[k] \in Nat /\ k \in Upto(k)
      BY <2>2, <2>9
    <3>3. CASE rank[k] <= rank[i]
      <4>1. Beats(i, k)
        <5>1. rank[k] < rank[i] \/ rank[k] = rank[i]
          BY <3>2, <3>3
        <5>2. i <= k
          BY <3>2
        <5> QED BY <5>1, <5>2
      <4>2. \A j \in Upto(k) : Beats(i, j)
        BY <4>1, <3>1, <2>5
      <4> HIDE DEF Upto, Beats
      <4> QED BY <4>2, <3>1, <2>6, <2>2
    <3>4. CASE rank[i] < rank[k]
      <4>1. Beats(k, k)
        BY <3>2
      <4>2. ASSUME NEW j \in Upto(k - 1) PROVE Beats(k, j)
        <5>1. Beats(i, j) /\ rank[j] \in Nat
          BY <3>1, <4>2
        <5> QED BY <5>1, <3>2, <3>4
      <4>3. \A j \in Upto(k) : Beats(k, j)
        BY <4>1, <4>2, <2>5
      <4> HIDE DEF Upto, Beats
      <4> QED BY <4>3, <3>2, <2>2
    <3> QED BY <3>2, <3>3, <3>4
  <2> QED BY <2>7, <2>8, <2>9
<1>2. Found(n)
  BY <1>1
<1>3. Upto(n) = I
  <2>1. \A j \in I : j <= n
    OBVIOUS
  <2> QED BY <2>1
<1>4. \E i \in I : \A j \in I : Beats(i, j)
  BY <1>2, <1>3
<1>5. FirstGreatest(I, rank) \in I /\ \A j \in I : Beats(FirstGreatest(I, rank), j)
  BY <1>4 DEF FirstGreatest
<1>6. ASSUME NEW j \in I PROVE rank[j] <= rank[FirstGreatest(I, rank)]
  <2>1. Beats(FirstGreatest(I, rank), j) /\ rank[j] \in Nat /\ rank[FirstGreatest(I, rank)] \in Nat
    BY <1>5
  <2> QED BY <2>1
<1> QED BY <1>5, <1>6

\* Of a manifest that lists releases with dates and versions, getSourceFromManifest
\* returns a listed EKS release that was asked for, of which none is newer, and a listed
\* signing helper release.
Listing(m) ==
    /\ m.eks \in Seq(Range(m.eks)) /\ m.iam \in Seq(Range(m.iam))
    /\ \A r \in Range(m.eks) : r.date \in Nat
    /\ \A r \in Range(m.iam) : r.version \in Nat
LEMMA ResolvedIsListed ==
    ASSUME NEW req, NEW m, Listing(m), CanResolve(req, m)
    PROVE  /\ \E i \in Matched(req, m) :
                 /\ Source(req, m).eks = m.eks[i]
                 /\ \A j \in Matched(req, m) : m.eks[j].date <= m.eks[i].date
           /\ \E i \in DOMAIN m.iam : Source(req, m).iam = m.iam[i]
<1>1. /\ Len(m.eks) \in Nat /\ DOMAIN m.eks = 1..Len(m.eks)
      /\ Len(m.iam) \in Nat /\ DOMAIN m.iam = 1..Len(m.iam)
  BY DEF Listing
<1> DEFINE dates == [i \in DOMAIN m.eks |-> m.eks[i].date]
           first == FirstGreatest(Matched(req, m), dates)
           ranks == [i \in DOMAIN m.iam |-> SemverRank(m.iam[i])]
<1>2. first \in Matched(req, m) /\ \A j \in Matched(req, m) : dates[j] <= dates[first]
  <2>1. Matched(req, m) \subseteq DOMAIN m.eks /\ Matched(req, m) # {}
    BY DEF CanResolve, Matched
  <2>2. \A i \in DOMAIN m.eks : dates[i] \in Nat
    BY DEF Listing, Range
  <2> HIDE DEF dates
  <2> QED BY <1>1, <2>1, <2>2, GreatestIsFound
<1>3. \A i \in Matched(req, m) : dates[i] = m.eks[i].date
  BY DEF Matched
<1>4. Source(req, m).eks = m.eks[first]
  BY DEF Source, LatestDate
<1>5. FirstGreatest(DOMAIN m.iam, ranks) \in DOMAIN m.iam
  <2>1. DOMAIN m.iam # {}
    <3>1. m.iam \in Seq(Range(m.iam)) /\ m.iam # << >>
      BY DEF CanResolve, Listing
    <3>2. Len(m.iam) \in Nat \ {0}
      BY <3>1, EmptySeq
    <3>3. 1 \in 1..Len(m.iam)
      BY <3>2
    <3> QED BY <1>1, <3>3, Zenon
  <2>2. \A i \in DOMAIN m.iam : ranks[i] \in Nat
    BY DEF Listing, Range, SemverRank
  <2> HIDE DEF ranks
  <2> QED BY <1>1, <2>1, <2>2, GreatestIsFound
<1>6. Source(req, m).iam = m.iam[FirstGreatest(DOMAIN m.iam, ranks)]
  BY DEF Source, LatestIam
<1> HIDE DEF first, ranks, dates
<1> QED BY <1>2, <1>3, <1>4, <1>5, <1>6

\* Every manifest of upstream is such a listing, and a release resolved against one has
\* artifacts with upstream's own URLs.
LEMMA UpstreamResolves ==
    ASSUME NEW req, NEW m \in Range(Manifests), CanResolve(req, m)
    PROVE  /\ Listing(m) /\ m.by = None
           /\ Source(req, m).eks.date \in Nat /\ Source(req, m).iam.version \in Nat
           /\ \A a \in Source(req, m).eks.artifacts \cup Source(req, m).iam.artifacts : a.uri = None
<1>1. Published(m)
  BY ReleaseMirrorAssumption
<1>2. Listing(m) /\ m.by = None
  BY <1>1 DEF Published, Listing
<1>3. Source(req, m).eks \in Range(m.eks) /\ Source(req, m).iam \in Range(m.iam)
  <2>1. Matched(req, m) \subseteq DOMAIN m.eks
    BY DEF Matched
  <2> QED BY <1>2, <2>1, ResolvedIsListed DEF Range
<1> QED BY <1>1, <1>2, <1>3 DEF Published

-----------------------------------------------------------------------------
(* The orders of the two commands.                                         *)

\* collectArtifacts goes through all artifacts.
LEMMA SyncOrderNames ==
    /\ DOMAIN SyncOrder \subseteq Nat
    /\ \A i \in DOMAIN SyncOrder : SyncOrder[i] \in Names
    /\ \A n \in Names : \E i \in DOMAIN SyncOrder : SyncOrder[i] = n
<1> DEFINE rest == <<Helper, SetupCli, Signature>>
<1>1. EksOrder \in Seq(Names) /\ rest \in Seq(Names)
  BY ReleaseMirrorAssumption DEF Names
<1>2. Len(EksOrder) \in Nat /\ DOMAIN EksOrder = 1..Len(EksOrder)
  BY <1>1
<1>3. Len(rest) = 3 /\ rest[1] = Helper /\ rest[2] = SetupCli /\ rest[3] = Signature
  OBVIOUS
<1>4. /\ SyncOrder \in Seq(Names) /\ Len(SyncOrder) = Len(EksOrder) + Len(rest)
      /\ \A i \in 1..(Len(EksOrder) + Len(rest)) :
            SyncOrder[i] = IF i <= Len(EksOrder) THEN EksOrder[i] ELSE rest[i - Len(EksOrder)]
  <2> HIDE DEF rest
  <2>1. SyncOrder = EksOrder \o rest
    BY DEF SyncOrder, rest
  <2> QED BY <1>1, <2>1, ConcatProperties
<1>5. DOMAIN SyncOrder = 1..(Len(EksOrder) + 3)
  BY <1>3, <1>4
<1> HIDE DEF rest
<1>6. ASSUME NEW i \in DOMAIN SyncOrder PROVE SyncOrder[i] \in Names
  BY <1>4, <1>6, ElementOfSeq
<1>7. ASSUME NEW n \in Names PROVE \E i \in DOMAIN SyncOrder : SyncOrder[i] = n
  <2>1. CASE n \in EksNames
    <3>1. PICK i \in DOMAIN EksOrder : EksOrder[i] = n
      BY <2>1 DEF EksNames, Range
    <3> QED BY <3>1, <1>2, <1>3, <1>4, <1>5
  <2>2. CASE n \in {Helper, SetupCli, Signature}
    <3>1. \E j \in 1..3 : rest[j] = n
      BY <2>2, <1>3
    <3>2. PICK j \in 1..3 : rest[j] = n
      BY <3>1
    <3>3. Len(EksOrder) + j \in DOMAIN SyncOrder /\ SyncOrder[Len(EksOrder) + j] = rest[j]
      BY <1>2, <1>3, <1>4, <1>5
    <3> QED BY <3>2, <3>3
  <2> QED BY <2>1, <2>2 DEF Names
<1> QED BY <1>2, <1>5, <1>6, <1>7

\* Installer.Run takes the credential process and then every EKS artifact.
Credential(provider) == IF provider = "ssm" THEN SetupCli ELSE Helper
LEMMA InstallOrderNames ==
    ASSUME NEW p
    PROVE  /\ DOMAIN InstallOrder(p) \subseteq Nat
           /\ 1 \in DOMAIN InstallOrder(p) /\ InstallOrder(p)[1] = Credential(p)
           /\ \A i \in DOMAIN InstallOrder(p) \ {1} : InstallOrder(p)[i] \in EksNames
           /\ \A n \in EksNames : \E i \in DOMAIN InstallOrder(p) : InstallOrder(p)[i] = n
           /\ \A i, j \in DOMAIN InstallOrder(p) : InstallOrder(p)[i] = InstallOrder(p)[j] => i = j
<1> DEFINE first == <<Credential(p)>>
<1>1. EksOrder \in Seq(Names) /\ first \in Seq(Names)
  BY ReleaseMirrorAssumption DEF Names, Credential
<1>2. Len(EksOrder) \in Nat /\ DOMAIN EksOrder = 1..Len(EksOrder)
  BY <1>1
<1>3. Len(first) = 1 /\ first[1] = Credential(p)
  OBVIOUS
<1>4. /\ InstallOrder(p) \in Seq(Names) /\ Len(InstallOrder(p)) = Len(first) + Len(EksOrder)
      /\ \A i \in 1..(Len(first) + Len(EksOrder)) :
            InstallOrder(p)[i] = IF i <= Len(first) THEN first[i] ELSE EksOrder[i - Len(first)]
  <2> HIDE DEF first
  <2>1. InstallOrder(p) = first \o EksOrder
    BY DEF InstallOrder, first, Credential
  <2> QED BY <1>1, <2>1, ConcatProperties
<1> HIDE DEF first
<1>5. DOMAIN InstallOrder(p) = 1..(1 + Len(EksOrder))
  BY <1>3, <1>4
<1>6. 1 \in DOMAIN InstallOrder(p) /\ InstallOrder(p)[1] = Credential(p)
  BY <1>2, <1>3, <1>4, <1>5
<1>7. ASSUME NEW i \in DOMAIN InstallOrder(p) \ {1} PROVE InstallOrder(p)[i] \in EksNames
  <2>1. i - 1 \in DOMAIN EksOrder /\ InstallOrder(p)[i] = EksOrder[i - 1]
    BY <1>2, <1>3, <1>4, <1>5
  <2> QED BY <2>1 DEF EksNames, Range
<1>8. ASSUME NEW n \in EksNames PROVE \E i \in DOMAIN InstallOrder(p) : InstallOrder(p)[i] = n
  <2>1. PICK j \in DOMAIN EksOrder : EksOrder[j] = n
    BY DEF EksNames, Range
  <2>2. j + 1 \in DOMAIN InstallOrder(p) /\ InstallOrder(p)[j + 1] = EksOrder[(j + 1) - 1] /\ (j + 1) - 1 = j
    BY <1>2, <1>3, <1>4, <1>5
  <2> QED BY <2>1, <2>2
<1>9. ASSUME NEW i \in DOMAIN InstallOrder(p), NEW j \in DOMAIN InstallOrder(p),
             InstallOrder(p)[i] = InstallOrder(p)[j]
      PROVE  i = j
  <2>1. Credential(p) \notin EksNames
    BY ReleaseMirrorAssumption DEF Credential
  <2>2. CASE i = 1 \/ j = 1
    BY <1>6, <1>7, <1>9, <2>1, <2>2
  <2>3. CASE i # 1 /\ j # 1
    <3>1. /\ i - 1 \in DOMAIN EksOrder /\ InstallOrder(p)[i] = EksOrder[i - 1] /\ i \in Nat
          /\ j - 1 \in DOMAIN EksOrder /\ InstallOrder(p)[j] = EksOrder[j - 1] /\ j \in Nat
      BY <1>2, <1>3, <1>4, <1>5, <2>3
    <3>2. i - 1 = j - 1
      BY <3>1, <1>9, ReleaseMirrorAssumption DEF IsInjective
    <3> QED BY <3>1, <3>2
  <2> QED BY <2>2, <2>3
<1> QED BY <1>2, <1>5, <1>6, <1>7, <1>8, <1>9

\* The setup CLI of the agent is an artifact of the nodes with SSM credentials.
LEMMA InstallerOfSsm ==
    ASSUME NEW p, NEW i \in DOMAIN InstallOrder(p), InstallOrder(p)[i] = SetupCli
    PROVE  p = "ssm"
<1>1. i = 1
  BY InstallOrderNames, ReleaseMirrorAssumption
<1> QED BY <1>1, InstallOrderNames DEF Credential, Helper, SetupCli

-----------------------------------------------------------------------------
(* The manifest of a mirror.                                               *)

\* A command has resolved its version against some manifest of upstream.
FromUpstream(s) ==
    \E m \in Range(Manifests) : CanResolve(sync[s].req, m) /\ sync[s].src = Source(sync[s].req, m)

\* generateCustomManifest lists one EKS release and at most one of the signing helper.
LEMMA CustomIsListing ==
    ASSUME NEW s, FromUpstream(s)
    PROVE  /\ Listing(CustomManifest(s))
           /\ DOMAIN CustomManifest(s).eks = {1}
           /\ CustomManifest(s).iam # << >> => DOMAIN CustomManifest(s).iam = {1}
<1> DEFINE src == sync[s].src
           helpers == Copied(s, src.iam.artifacts, {Helper})
           eks == [mm |-> src.eks.version.mm, latest |-> src.eks.patch, patch |-> src.eks.patch,
                   date |-> src.eks.date, version |-> src.eks.version,
                   artifacts |-> Copied(s, src.eks.artifacts, EksNames)]
           iam == [version |-> src.iam.version, v |-> src.iam.v, artifacts |-> helpers]
<1>1. src.eks.date \in Nat /\ src.iam.version \in Nat
  BY UpstreamResolves DEF FromUpstream
<1>2. eks.date \in Nat /\ iam.version \in Nat
  BY <1>1
<1>3. /\ CustomManifest(s).eks = <<eks>>
      /\ CustomManifest(s).iam = IF helpers = {} THEN << >> ELSE <<iam>>
  BY DEF CustomManifest
<1> HIDE DEF src, helpers, eks, iam
<1>4. Range(<<eks>>) = {eks} /\ <<eks>> \in Seq({eks}) /\ DOMAIN <<eks>> = {1}
  BY DEF Range
<1>5. Range(<<iam>>) = {iam} /\ <<iam>> \in Seq({iam}) /\ DOMAIN <<iam>> = {1}
  BY DEF Range
<1>6. << >> \in Seq(Range(<< >>)) /\ Range(<< >>) = {}
  BY EmptySeq DEF Range
<1>7. CASE helpers = {}
  BY <1>2, <1>3, <1>4, <1>6, <1>7 DEF Listing
<1>8. CASE helpers # {}
  BY <1>2, <1>3, <1>4, <1>5, <1>8 DEF Listing
<1> QED BY <1>7, <1>8

\* What a version resolves to in a mirror's manifest is the release that was copied,
\* for the region it was copied for.
LEMMA CustomResolves ==
    ASSUME NEW s, FromUpstream(s), NEW req, CanResolve(req, CustomManifest(s))
    PROVE  LET src == Source(req, CustomManifest(s)) IN
           /\ src.eks = CustomManifest(s).eks[1]
           /\ src.eks.version = sync[s].src.eks.version
           /\ src.iam.version = sync[s].src.iam.version
           /\ src.eks.artifacts = Copied(s, sync[s].src.eks.artifacts, EksNames)
           /\ src.iam.artifacts = Copied(s, sync[s].src.iam.artifacts, {Helper})
           /\ req.region = sync[s].req.region /\ src.region.suffix = None
<1> DEFINE m == CustomManifest(s)
           src == Source(req, m)
<1>1. m.iam # << >> /\ req.region \in DOMAIN m.regions
  BY DEF CanResolve
<1>2. Listing(m) /\ DOMAIN m.eks = {1} /\ DOMAIN m.iam = {1}
  BY <1>1, CustomIsListing
<1>3. src.eks = m.eks[1] /\ src.iam = m.iam[1]
  <2>1. Matched(req, m) \subseteq DOMAIN m.eks
    BY DEF Matched
  <2> HIDE DEF m
  <2> QED BY <1>2, <2>1, ResolvedIsListed DEF m
<1>4. src.region = m.regions[req.region]
  BY DEF Source
<1>5. /\ m.eks[1].version = sync[s].src.eks.version
      /\ m.eks[1].artifacts = Copied(s, sync[s].src.eks.artifacts, EksNames)
  BY DEF CustomManifest
<1>6. /\ m.iam[1].version = sync[s].src.iam.version
      /\ m.iam[1].artifacts = Copied(s, sync[s].src.iam.artifacts, {Helper})
  BY <1>1 DEF CustomManifest
<1>7. req.region = sync[s].req.region /\ m.regions[req.region].suffix = None
  BY <1>1 DEF CustomManifest
<1> HIDE DEF m
<1> QED BY <1>3, <1>4, <1>5, <1>6, <1>7 DEF m

\* A manifest that was cut off resolves nothing.
LEMMA TruncatedResolvesNothing ==
    ASSUME NEW s, NEW req
    PROVE  ~CanResolve(req, TruncatedManifest(s))
<1>1. DOMAIN TruncatedManifest(s).eks = {}
  BY DEF TruncatedManifest
<1> QED BY <1>1 DEF CanResolve, Matched

\* The keys of a command that has its timestamp are in the bucket of the model.
LEMMA KeyOfCopy ==
    ASSUME TypeOK, NEW s \in Syncs, sync[s].ts # 0
    PROVE  /\ sync[s].ts \in Seconds
           /\ \A i \in DOMAIN SyncOrder :
                 SyncKey(s, SyncOrder[i]) \in Keys /\ SyncKey(s, SyncOrder[i])[1] = sync[s].ts
<1>1. sync[s].ts \in 0..now /\ now \in 1..MaxSecond /\ MaxSecond \in Nat
  BY ReleaseMirrorAssumption DEF TypeOK, Seconds
<1>2. sync[s].ts \in Seconds
  BY <1>1 DEF Seconds
<1> QED BY <1>2, SyncOrderNames DEF SyncKey, Keys

\* What getSource picks is one of the artifacts, of that name and architecture.
LEMMA ArtifactIsListed ==
    ASSUME NEW artifacts, NEW name, NEW arch, HasArtifact(artifacts, name, arch)
    PROVE  LET a == ArtifactFor(artifacts, name, arch) IN
           a \in artifacts /\ a.name = name /\ a.arch = arch
BY DEF HasArtifact, ArtifactFor

\* Where an install reads: an upstream manifest, or one of a mirror that is complete.
LEMMA ManifestRead ==
    ASSUME MirrorInv, inst.pc # "none" \/ inst.last = "ok"
    PROVE  \/ inst.from \in Range(Manifests)
           \/ /\ inst.from \in manifests /\ inst.from.by \in Syncs /\ sync[inst.from.by].pc = "done"
              /\ inst.from = CustomManifest(inst.from.by) /\ FromUpstream(inst.from.by)
<1>1. /\ inst.from \in manifests \cup Range(Manifests)
      /\ CanResolve(inst.req, inst.from)
  BY DEF MirrorInv, InstalledInv
<1>2. CASE inst.from \in manifests
  <2>1. inst.from # TruncatedManifest(inst.from.by)
    BY <1>1, TruncatedResolvesNothing
  <2> QED BY <1>2, <2>1 DEF MirrorInv, ManifestsInv, CopiesInv, CopiesOf, Resolved, FromUpstream
<1> QED BY <1>1, <1>2

\* Whatever object or checksum an install is given, of upstream or of a mirror that no
\* other command wrote to in the same second, it is the one of the resolved release.
LEMMA DeliveredIsRelease ==
    ASSUME MirrorInv, inst.pc # "none", NEW name \in EksNames \cup {Helper},
           NEW copies \in {bucket, sums}, ~(Mirrored(inst.from) /\ Clash(inst.from.by))
    PROVE  Delivered(name, copies) \subseteq {File(name, ReleaseOf(inst.src, name).version, HostArch)}
<1> DEFINE release == ReleaseOf(inst.src, name)
           a == ArtifactFor(release.artifacts, name, HostArch)
<1>1. CanResolve(inst.req, inst.from) /\ inst.src = Source(inst.req, inst.from)
  BY DEF MirrorInv, InstalledInv
<1>2. name # SetupCli
  BY ReleaseMirrorAssumption DEF Helper, SetupCli
<1>3. CASE ~HasArtifact(release.artifacts, name, HostArch)
  BY <1>2, <1>3 DEF Delivered
<1>4. CASE HasArtifact(release.artifacts, name, HostArch) /\ inst.from \in Range(Manifests)
  <2>1. a \in release.artifacts
    BY <1>4, ArtifactIsListed
  <2>2. a.uri = None
    BY <1>1, <1>4, <2>1, UpstreamResolves DEF ReleaseOf
  <2> QED BY <1>2, <1>4, <2>2 DEF Delivered
<1>5. CASE HasArtifact(release.artifacts, name, HostArch) /\ inst.from \notin Range(Manifests)
  <2> DEFINE s == inst.from.by
  <2>1. s \in Syncs /\ sync[s].pc = "done" /\ inst.from = CustomManifest(s) /\ FromUpstream(s)
    BY <1>5, ManifestRead
  <2>2. Mirrored(inst.from) /\ ~Clash(s)
    BY <2>1, ReleaseMirrorAssumption DEF Mirrored
  <2> HIDE DEF s
  <2>3. /\ release.version = ReleaseOf(sync[s].src, name).version
        /\ release.artifacts = Copied(s, ReleaseOf(sync[s].src, name).artifacts,
                                      IF name = Helper THEN {Helper} ELSE EksNames)
    BY <1>1, <2>1, CustomResolves DEF ReleaseOf
  <2>4. a \in release.artifacts /\ a.arch = HostArch
    BY <1>5, ArtifactIsListed
  <2>5. a.uri = sync[s].ts /\ sync[s].req.arch = HostArch
    <3> HIDE DEF a, release
    <3> QED BY <2>3, <2>4 DEF Copied
  <2>6. sync[s].ts \in Seconds
    BY <2>1, KeyOfCopy DEF MirrorInv, CopiesInv, CopiesOf, HasCopies
  <2>7. a.uri # None
    BY <2>5, <2>6, ReleaseMirrorAssumption
  <2>8. copies[SyncKey(s, name)] \subseteq {Download(s, name)}
    <3>1. PICK i \in DOMAIN SyncOrder : SyncOrder[i] = name
      BY SyncOrderNames DEF Names
    <3> QED BY <3>1, <2>1, <2>2 DEF MirrorInv, CopiesInv, CopiesOf, HasCopies
  <2>9. Download(s, name) = File(name, release.version, HostArch)
    <3>1. name \notin {SetupCli, Signature}
      BY ReleaseMirrorAssumption DEF Helper, SetupCli, Signature
    <3> QED BY <3>1, <2>3, <2>5 DEF Download
  <2> QED BY <1>2, <1>5, <2>5, <2>7, <2>8, <2>9 DEF Delivered, SyncKey
<1> QED BY <1>3, <1>4, <1>5

-----------------------------------------------------------------------------
(* Steps of a sync command.                                                *)

Sync(pc, req, src, ts, todo) == [pc |-> pc, req |-> req, src |-> src, ts |-> ts, todo |-> todo]
Becomes(s, c) ==
    /\ sync' = [t \in Syncs |-> sync'[t]]
    /\ sync'[s] = c
    /\ \A t \in Syncs \ {s} : sync'[t] = sync[t]

\* What each step makes of the command that takes it.
LEMMA SyncAfter ==
    ASSUME TypeOK, NEW s \in Syncs
    PROVE  /\ \A req \in Requests : StartSync(s, req) =>
                 \/ /\ CanResolve(req, Manifests[upstream])
                    /\ Becomes(s, Sync("bucket", req, Source(req, Manifests[upstream]), 0, {}))
                 \/ Becomes(s, Sync("failed", None, None, 0, {}))
           /\ ValidateBucket(s) =>
                 Becomes(s, Sync("stream", sync[s].req, sync[s].src, now, CollectArtifacts(sync[s])))
           /\ \A i : StreamArtifact(s, i) =>
                 Becomes(s, IF SyncOrder[i] \in {SetupCli, Signature}
                     THEN Sync("stream", sync[s].req, sync[s].src, sync[s].ts, sync[s].todo \ {i})
                     ELSE Sync("checksum", sync[s].req, sync[s].src, sync[s].ts, sync[s].todo))
           /\ \A i : StreamChecksum(s, i) =>
                 Becomes(s, Sync("stream", sync[s].req, sync[s].src, sync[s].ts, sync[s].todo \ {i}))
           /\ WriteManifest(s) =>
                 Becomes(s, Sync("done", sync[s].req, sync[s].src, sync[s].ts, sync[s].todo))
           /\ SyncFails(s) =>
                 Becomes(s, Sync("failed", None, None, sync[s].ts, {}))
<1>1. sync[s] = Sync(sync[s].pc, sync[s].req, sync[s].src, sync[s].ts, sync[s].todo) /\ sync = [t \in Syncs |-> sync[t]]
  BY DEF TypeOK, Sync
<1>2. ASSUME NEW req \in Requests, StartSync(s, req)
      PROVE  \/ /\ CanResolve(req, Manifests[upstream])
                /\ Becomes(s, Sync("bucket", req, Source(req, Manifests[upstream]), 0, {}))
             \/ Becomes(s, Sync("failed", None, None, 0, {}))
  BY <1>1, <1>2 DEF Becomes, StartSync, Idle, Sync
<1>3. ASSUME ValidateBucket(s)
      PROVE  Becomes(s, Sync("stream", sync[s].req, sync[s].src, now, CollectArtifacts(sync[s])))
  BY <1>1, <1>3 DEF Becomes, ValidateBucket, Sync
<1>4. ASSUME NEW i, StreamArtifact(s, i)
      PROVE  Becomes(s, IF SyncOrder[i] \in {SetupCli, Signature}
                 THEN Sync("stream", sync[s].req, sync[s].src, sync[s].ts, sync[s].todo \ {i})
                 ELSE Sync("checksum", sync[s].req, sync[s].src, sync[s].ts, sync[s].todo))
  <2>1. CASE SyncOrder[i] \in {SetupCli, Signature}
    <3>1. sync' = [sync EXCEPT ![s].todo = sync[s].todo \ {i}] /\ sync[s].pc = "stream"
      BY <1>1, <1>4, <2>1 DEF StreamArtifact
    <3>2. Becomes(s, Sync("stream", sync[s].req, sync[s].src, sync[s].ts, sync[s].todo \ {i}))
      BY <1>1, <3>1 DEF Becomes, Sync
    <3> QED BY <2>1, <3>2
  <2>2. CASE SyncOrder[i] \notin {SetupCli, Signature}
    BY <1>1, <1>4, <2>2 DEF Becomes, StreamArtifact, Sync
  <2> QED BY <2>1, <2>2
<1>5. ASSUME NEW i, StreamChecksum(s, i)
      PROVE  Becomes(s, Sync("stream", sync[s].req, sync[s].src, sync[s].ts, sync[s].todo \ {i}))
  BY <1>1, <1>5 DEF Becomes, StreamChecksum, Sync
<1>6. ASSUME WriteManifest(s)
      PROVE  Becomes(s, Sync("done", sync[s].req, sync[s].src, sync[s].ts, sync[s].todo))
  BY <1>1, <1>6 DEF Becomes, WriteManifest, Sync
<1>7. ASSUME SyncFails(s)
      PROVE  Becomes(s, Sync("failed", None, None, sync[s].ts, {}))
  BY <1>1, <1>7 DEF Becomes, SyncFails, Idle, Sync
<1> QED BY <1>2, <1>3, <1>4, <1>5, <1>6, <1>7

\* A sync command changes nothing of another one, and neither a timestamp that is taken
\* nor an object of another timestamp.
SyncTyped(c) ==
    /\ c = Sync(c.pc, c.req, c.src, c.ts, c.todo)
    /\ c.pc \in {"idle", "bucket", "stream", "checksum", "done", "failed"}
    /\ c.ts \in 0..now /\ c.todo \subseteq DOMAIN SyncOrder
CommandsKept(s) ==
    /\ sync' = [t \in Syncs |-> sync'[t]]
    /\ \A t \in Syncs \ {s} : sync'[t] = sync[t]
    /\ sync[s].pc \notin {"done", "failed"}
    /\ sync'[s].ts \in {sync[s].ts, now} /\ (sync[s].ts # 0 => sync'[s].ts = sync[s].ts)
ObjectsKept(s) ==
    /\ \A k \in Keys : bucket[k] # {} => bucket'[k] # {}
    /\ \A k \in Keys : k[1] # sync[s].ts => bucket'[k] = bucket[k] /\ sums'[k] = sums[k]
    /\ bucket' = [k \in Keys |-> bucket'[k]] /\ sums' = [k \in Keys |-> sums'[k]]
SyncKeeps(s) ==
    /\ CommandsKept(s) /\ ObjectsKept(s) /\ SyncTyped(sync'[s])
    /\ UNCHANGED <<origin, inst, host>> /\ manifests \subseteq manifests'
LEMMA SyncStepKeeps ==
    ASSUME MirrorInv, NEW s \in Syncs, SyncStep(s)
    PROVE  SyncKeeps(s)
<1>1. TypeOK /\ bucket = [k \in Keys |-> bucket[k]] /\ sums = [k \in Keys |-> sums[k]]
  BY DEF MirrorInv, TypeOK
<1>2. sync[s].pc \in {"idle", "bucket"} => sync[s].ts = 0
  BY DEF MirrorInv, CopiesInv, CopiesOf
<1>3. /\ SyncTyped(sync[s]) /\ 0 \in 0..now /\ now \in 0..now
      /\ \A c : CollectArtifacts(c) \subseteq DOMAIN SyncOrder
  <2>1. now \in Nat
    BY <1>1 DEF TypeOK, Seconds
  <2> QED BY <1>1, <2>1 DEF TypeOK, SyncTyped, Sync, CollectArtifacts
<1>4. ASSUME NEW req \in Requests, StartSync(s, req) PROVE SyncKeeps(s)
  <2>1. \/ Becomes(s, Sync("bucket", req, Source(req, Manifests[upstream]), 0, {}))
        \/ Becomes(s, Sync("failed", None, None, 0, {}))
    BY <1>1, <1>4, SyncAfter
  <2>2. sync[s].pc = "idle"
    BY <1>4 DEF StartSync
  <2>3. CommandsKept(s)
    BY <1>2, <2>1, <2>2 DEF CommandsKept, Becomes, Sync
  <2>4. ObjectsKept(s)
    BY <1>1, <1>4 DEF StartSync, ObjectsKept
  <2>5. SyncTyped(sync'[s])
    BY <1>3, <2>1 DEF SyncTyped, Becomes, Sync
  <2> QED BY <1>4, <2>3, <2>4, <2>5 DEF StartSync, SyncKeeps
<1>5. CASE ValidateBucket(s)
  <2>1. Becomes(s, Sync("stream", sync[s].req, sync[s].src, now, CollectArtifacts(sync[s])))
    BY <1>1, <1>5, SyncAfter
  <2>2. sync[s].pc = "bucket"
    BY <1>5 DEF ValidateBucket
  <2>3. CommandsKept(s)
    BY <1>2, <2>1, <2>2 DEF CommandsKept, Becomes, Sync
  <2>4. ObjectsKept(s)
    BY <1>1, <1>5 DEF ValidateBucket, ObjectsKept
  <2>5. SyncTyped(sync'[s])
    BY <1>3, <2>1 DEF SyncTyped, Becomes, Sync
  <2> QED BY <1>5, <2>3, <2>4, <2>5 DEF ValidateBucket, SyncKeeps
<1>6. ASSUME NEW i \in DOMAIN SyncOrder, StreamArtifact(s, i) PROVE SyncKeeps(s)
  <2>1. \/ Becomes(s, Sync("stream", sync[s].req, sync[s].src, sync[s].ts, sync[s].todo \ {i}))
        \/ Becomes(s, Sync("checksum", sync[s].req, sync[s].src, sync[s].ts, sync[s].todo))
    BY <1>1, <1>6, SyncAfter
  <2>2. bucket' = [bucket EXCEPT ![<<sync[s].ts, SyncOrder[i]>>] = {Download(s, SyncOrder[i])}]
    BY <1>6 DEF StreamArtifact, SyncKey
  <2>3. CommandsKept(s)
    BY <1>2, <1>6, <2>1 DEF StreamArtifact, CommandsKept, Becomes, Sync
  <2>4. ObjectsKept(s)
    <3> DEFINE k0 == <<sync[s].ts, SyncOrder[i]>>
    <3>1. k0[1] = sync[s].ts
      OBVIOUS
    <3>2. bucket' = [bucket EXCEPT ![k0] = {Download(s, SyncOrder[i])}] /\ sums' = sums
      BY <1>6, <2>2 DEF StreamArtifact
    <3> HIDE DEF k0
    <3> QED BY <1>1, <3>1, <3>2 DEF ObjectsKept
  <2>5. SyncTyped(sync'[s])
    BY <1>3, <2>1 DEF SyncTyped, Becomes, Sync
  <2> QED BY <1>6, <2>3, <2>4, <2>5 DEF StreamArtifact, SyncKeeps
<1>7. ASSUME NEW i \in DOMAIN SyncOrder, StreamChecksum(s, i) PROVE SyncKeeps(s)
  <2>1. Becomes(s, Sync("stream", sync[s].req, sync[s].src, sync[s].ts, sync[s].todo \ {i}))
    BY <1>1, <1>7, SyncAfter
  <2>2. sums' \in {sums, [sums EXCEPT ![<<sync[s].ts, SyncOrder[i]>>] = {Download(s, SyncOrder[i])}]}
    BY <1>7 DEF StreamChecksum, SyncKey
  <2>3. CommandsKept(s)
    <3>1. sync[s].pc = "checksum"
      BY <1>7 DEF StreamChecksum
    <3> QED BY <2>1, <3>1 DEF CommandsKept, Becomes, Sync
  <2>4. ObjectsKept(s)
    <3> DEFINE k0 == <<sync[s].ts, SyncOrder[i]>>
    <3>1. k0[1] = sync[s].ts
      OBVIOUS
    <3>2. sums' \in {sums, [sums EXCEPT ![k0] = {Download(s, SyncOrder[i])}]} /\ bucket' = bucket
      BY <1>7, <2>2 DEF StreamChecksum
    <3> HIDE DEF k0
    <3> QED BY <1>1, <3>1, <3>2 DEF ObjectsKept
  <2>5. SyncTyped(sync'[s])
    BY <1>3, <2>1 DEF SyncTyped, Becomes, Sync
  <2> QED BY <1>7, <2>3, <2>4, <2>5 DEF StreamChecksum, SyncKeeps
<1>8. CASE WriteManifest(s)
  <2>1. Becomes(s, Sync("done", sync[s].req, sync[s].src, sync[s].ts, sync[s].todo))
    BY <1>1, <1>8, SyncAfter
  <2>3. CommandsKept(s)
    BY <1>2, <1>8, <2>1 DEF WriteManifest, CommandsKept, Becomes, Sync
  <2>4. ObjectsKept(s)
    BY <1>1, <1>8 DEF WriteManifest, ObjectsKept
  <2>5. SyncTyped(sync'[s])
    BY <1>3, <2>1 DEF SyncTyped, Becomes, Sync
  <2> QED BY <1>8, <2>3, <2>4, <2>5 DEF WriteManifest, SyncKeeps
<1>9. CASE SyncFails(s)
  <2>1. Becomes(s, Sync("failed", None, None, sync[s].ts, {}))
    BY <1>1, <1>9, SyncAfter
  <2>3. CommandsKept(s)
    BY <1>2, <1>9, <2>1 DEF SyncFails, Running, CommandsKept, Becomes, Sync
  <2>4. ObjectsKept(s)
    BY <1>1, <1>9 DEF SyncFails, ObjectsKept
  <2>5. SyncTyped(sync'[s])
    BY <1>3, <2>1 DEF SyncTyped, Becomes, Sync
  <2> QED BY <1>9, <2>3, <2>4, <2>5 DEF SyncFails, SyncKeeps
<1> QED BY <1>4, <1>5, <1>6, <1>7, <1>8, <1>9 DEF SyncStep

\* A clash of timestamps stays one, since no command gives its timestamp up.
LEMMA ClashStays ==
    ASSUME NEW s \in Syncs, CommandsKept(s), NEW t \in Syncs, sync[t].ts # 0
    PROVE  sync'[t].ts = sync[t].ts /\ (Clash(t) => Clash(t)')
BY DEF CommandsKept, Clash

LEMMA SyncStepTypeOK ==
    ASSUME MirrorInv, NEW s \in Syncs, SyncStep(s)
    PROVE  TypeOK'
<1>1. SyncKeeps(s) /\ TypeOK
  BY SyncStepKeeps DEF MirrorInv
<1>2. /\ upstream' = upstream /\ ssmLatest' = ssmLatest /\ now' = now /\ inst' = inst /\ host' = host
      /\ sync' = [t \in Syncs |-> sync'[t]] /\ \A t \in Syncs \ {s} : sync'[t] = sync[t]
      /\ bucket' = [k \in Keys |-> bucket'[k]] /\ sums' = [k \in Keys |-> sums'[k]]
  BY <1>1 DEF SyncKeeps, CommandsKept, ObjectsKept, origin
<1>3. \A t \in Syncs : SyncTyped(sync'[t])
  BY <1>1, <1>2 DEF TypeOK, SyncTyped, SyncKeeps, Sync
<1> QED BY <1>1, <1>2, <1>3 DEF TypeOK, SyncTyped, Sync

\* The copies of the other commands are not touched, unless they have the same keys.
LEMMA OtherCopies ==
    ASSUME MirrorInv, NEW s \in Syncs, SyncKeeps(s), NEW t \in Syncs \ {s}
    PROVE  CopiesOf(t)'
<1>1. /\ sync'[t] = sync[t] /\ CopiesOf(t) /\ sync[t].ts \in Nat
      /\ CommandsKept(s) /\ ObjectsKept(s)
  BY DEF MirrorInv, CopiesInv, SyncKeeps, CommandsKept, TypeOK
<1>2. /\ sync'[t].pc \in {"idle", "bucket"} => sync'[t].ts = 0
      /\ HasCopies(t)' => sync'[t].ts > 0
  BY <1>1 DEF CopiesOf, HasCopies
<1>3. Resolved(t)' => /\ sync'[t].req \in Requests
                      /\ \E m \in Range(Manifests) :
                             CanResolve(sync'[t].req, m) /\ sync'[t].src = Source(sync'[t].req, m)
  BY <1>1 DEF CopiesOf, Resolved
<1>4. ASSUME HasCopies(t)', NEW i \in DOMAIN SyncOrder
      PROVE  LET k == SyncKey(t, SyncOrder[i])' IN
             /\ Collected(sync'[t], SyncOrder[i]) /\ Streamed(t, i)' => bucket'[k] # {}
             /\ ~Clash(t)' => /\ bucket'[k] \subseteq {Download(t, SyncOrder[i])'}
                              /\ sums'[k] \subseteq {Download(t, SyncOrder[i])'}
  <2> DEFINE k == SyncKey(t, SyncOrder[i])
  <2>1. HasCopies(t) /\ sync[t].ts # 0
    BY <1>1, <1>4 DEF HasCopies, CopiesOf
  <2>2. SyncKey(t, SyncOrder[i])' = k /\ Download(t, SyncOrder[i])' = Download(t, SyncOrder[i])
    BY <1>1 DEF SyncKey, Download
  <2>3. (Streamed(t, i))' <=> Streamed(t, i)
    BY <1>1 DEF Streamed
  <2>4. k \in Keys /\ k[1] = sync[t].ts
    BY <2>1, KeyOfCopy DEF MirrorInv
  <2>5. ~Clash(t)' => ~Clash(t) /\ sync[t].ts # sync[s].ts
    BY <1>1, <2>1, ClashStays DEF Clash
  <2> HIDE DEF k
  <2>6. Collected(sync'[t], SyncOrder[i]) /\ Streamed(t, i)' => bucket'[k] # {}
    BY <1>1, <2>1, <2>3, <2>4 DEF CopiesOf, ObjectsKept, k
  <2>7. ~Clash(t)' => /\ bucket'[k] \subseteq {Download(t, SyncOrder[i])}
                      /\ sums'[k] \subseteq {Download(t, SyncOrder[i])}
    BY <1>1, <2>1, <2>4, <2>5 DEF CopiesOf, ObjectsKept, k
  <2> QED BY <2>2, <2>6, <2>7
<1> QED BY <1>2, <1>3, <1>4 DEF CopiesOf

\* The command's own copies after each of its steps.
LEMMA OwnCopies ==
    ASSUME MirrorInv, NEW s \in Syncs, SyncStep(s)
    PROVE  CopiesOf(s)'
<1>1. TypeOK /\ CopiesOf(s) /\ SyncKeeps(s) /\ CommandsKept(s) /\ ObjectsKept(s)
  BY SyncStepKeeps DEF MirrorInv, CopiesInv, SyncKeeps
<1>2. ASSUME NEW req \in Requests, StartSync(s, req) PROVE CopiesOf(s)'
  <2>1. Manifests[upstream] \in Range(Manifests)
    BY <1>1 DEF TypeOK, Range
  <2>2. \/ /\ CanResolve(req, Manifests[upstream])
           /\ Becomes(s, Sync("bucket", req, Source(req, Manifests[upstream]), 0, {}))
        \/ Becomes(s, Sync("failed", None, None, 0, {}))
    BY <1>1, <1>2, SyncAfter
  <2>3. CASE /\ CanResolve(req, Manifests[upstream])
             /\ Becomes(s, Sync("bucket", req, Source(req, Manifests[upstream]), 0, {}))
    <3>1. /\ sync'[s].pc = "bucket" /\ sync'[s].req = req /\ sync'[s].ts = 0
          /\ sync'[s].src = Source(req, Manifests[upstream])
      BY <2>3 DEF Becomes, Sync
    <3> QED BY <2>1, <2>3, <3>1 DEF CopiesOf, HasCopies, Resolved
  <2>4. CASE Becomes(s, Sync("failed", None, None, 0, {}))
    <3>1. sync'[s].pc = "failed"
      BY <2>4 DEF Becomes, Sync
    <3> QED BY <3>1 DEF CopiesOf, HasCopies, Resolved
  <2> QED BY <2>2, <2>3, <2>4
<1>3. CASE SyncFails(s)
  <2>1. Becomes(s, Sync("failed", None, None, sync[s].ts, {}))
    BY <1>1, <1>3, SyncAfter
  <2>2. sync'[s].pc = "failed"
    BY <2>1 DEF Becomes, Sync
  <2> QED BY <2>2 DEF CopiesOf, HasCopies, Resolved
<1>4. CASE ValidateBucket(s)
  <2>1. Becomes(s, Sync("stream", sync[s].req, sync[s].src, now, CollectArtifacts(sync[s])))
    BY <1>1, <1>4, SyncAfter
  <2>2. /\ sync'[s].pc = "stream" /\ sync'[s].req = sync[s].req /\ sync'[s].src = sync[s].src
        /\ sync'[s].ts = now /\ sync'[s].todo = CollectArtifacts(sync[s])
    BY <2>1 DEF Becomes, Sync
  <2>3. sync[s].pc = "bucket" /\ bucket' = bucket /\ sums' = sums /\ sync[s].ts = 0
    BY <1>1, <1>4 DEF ValidateBucket, CopiesOf
  <2>4. now \in Seconds /\ now > 0
    BY <1>1 DEF TypeOK, Seconds
  <2>5. ASSUME NEW i \in DOMAIN SyncOrder, Collected(sync'[s], SyncOrder[i]) PROVE ~Streamed(s, i)'
    BY <2>2, <2>5 DEF Streamed, CollectArtifacts, Collected
  <2>6. ASSUME NEW i \in DOMAIN SyncOrder, ~Clash(s)'
        PROVE  LET k == SyncKey(s, SyncOrder[i])' IN bucket'[k] = {} /\ sums'[k] = {}
    <3> DEFINE k == <<now, SyncOrder[i]>>
    <3>1. k \in Keys /\ k[1] = now
      BY <2>4, SyncOrderNames DEF Keys
    <3>2. SyncKey(s, SyncOrder[i])' = k
      BY <2>2 DEF SyncKey
    <3>3. ASSUME NEW t \in Syncs PROVE sync[t].ts # now
      BY <1>1, <2>2, <2>3, <2>4, <2>6 DEF Clash, CommandsKept, Seconds
    <3> HIDE DEF k
    <3>4. bucket[k] = {} /\ sums[k] = {}
      BY <3>1, <3>3 DEF MirrorInv, CopiesInv
    <3> QED BY <3>2, <3>4, <2>3
  <2>7. Resolved(s)' /\ Resolved(s)
    BY <2>2, <2>3 DEF Resolved
  <2>8. sync'[s].req \in Requests /\ \E m \in Range(Manifests) :
            CanResolve(sync'[s].req, m) /\ sync'[s].src = Source(sync'[s].req, m)
    BY <1>1, <2>2, <2>7 DEF CopiesOf
  <2> QED BY <2>2, <2>4, <2>5, <2>6, <2>8 DEF CopiesOf
<1>5. ASSUME sync'[s].req = sync[s].req, sync'[s].src = sync[s].src, sync'[s].ts = sync[s].ts,
             HasCopies(s), HasCopies(s)',
             \A i \in DOMAIN SyncOrder : LET k == SyncKey(s, SyncOrder[i]) IN
                 /\ Streamed(s, i)' => Streamed(s, i) \/ bucket'[k] # {}
                 /\ bucket'[k] \in {bucket[k], {Download(s, SyncOrder[i])}}
                 /\ sums'[k] \in {sums[k], {Download(s, SyncOrder[i])}}
      PROVE  CopiesOf(s)'
  <2>1. sync[s].ts > 0 /\ sync[s].ts # 0
    BY <1>1, <1>5 DEF CopiesOf, TypeOK
  <2>2. Resolved(s) /\ sync'[s].pc \notin {"idle", "bucket"}
    BY <1>5 DEF Resolved, HasCopies
  <2>3. sync'[s].req \in Requests /\ \E m \in Range(Manifests) :
            CanResolve(sync'[s].req, m) /\ sync'[s].src = Source(sync'[s].req, m)
    BY <1>1, <1>5, <2>2 DEF CopiesOf
  <2>4. ASSUME NEW i \in DOMAIN SyncOrder
        PROVE  LET k == SyncKey(s, SyncOrder[i])' IN
               /\ Collected(sync'[s], SyncOrder[i]) /\ Streamed(s, i)' => bucket'[k] # {}
               /\ ~Clash(s)' => /\ bucket'[k] \subseteq {Download(s, SyncOrder[i])'}
                                /\ sums'[k] \subseteq {Download(s, SyncOrder[i])'}
    <3> DEFINE k == SyncKey(s, SyncOrder[i])
    <3>1. SyncKey(s, SyncOrder[i])' = k /\ Download(s, SyncOrder[i])' = Download(s, SyncOrder[i])
      BY <1>5 DEF SyncKey, Download
    <3>2. k \in Keys
      BY <1>1, <2>1, KeyOfCopy
    <3>3. Collected(sync'[s], SyncOrder[i]) <=> Collected(sync[s], SyncOrder[i])
      BY <1>5 DEF Collected
    <3>4. ~Clash(s)' => ~Clash(s)
      BY <1>1, <2>1, ClashStays
    <3>5. /\ Collected(sync[s], SyncOrder[i]) /\ Streamed(s, i) => bucket[k] # {}
          /\ ~Clash(s) => /\ bucket[k] \subseteq {Download(s, SyncOrder[i])}
                          /\ sums[k] \subseteq {Download(s, SyncOrder[i])}
      BY <1>1, <1>5 DEF CopiesOf
    <3>6. /\ Streamed(s, i)' => Streamed(s, i) \/ bucket'[k] # {}
          /\ bucket'[k] \in {bucket[k], {Download(s, SyncOrder[i])}}
          /\ sums'[k] \in {sums[k], {Download(s, SyncOrder[i])}}
          /\ bucket[k] # {} => bucket'[k] # {}
      BY <1>1, <1>5, <3>2 DEF ObjectsKept
    <3> HIDE DEF k
    <3> QED BY <3>1, <3>3, <3>4, <3>5, <3>6
  <2> QED BY <1>5, <2>1, <2>2, <2>3, <2>4 DEF CopiesOf
<1>6. \A i \in DOMAIN SyncOrder : sync[s].ts # 0 => SyncKey(s, SyncOrder[i]) \in Keys
  BY <1>1, KeyOfCopy
<1>7. ASSUME NEW j \in DOMAIN SyncOrder, StreamArtifact(s, j) PROVE CopiesOf(s)'
  <2>1. \/ Becomes(s, Sync("stream", sync[s].req, sync[s].src, sync[s].ts, sync[s].todo \ {j}))
        \/ Becomes(s, Sync("checksum", sync[s].req, sync[s].src, sync[s].ts, sync[s].todo))
    BY <1>1, <1>7, SyncAfter
  <2>2. /\ sync'[s].req = sync[s].req /\ sync'[s].src = sync[s].src /\ sync'[s].ts = sync[s].ts
        /\ \/ sync'[s].pc = "stream" /\ sync'[s].todo = sync[s].todo \ {j}
           \/ sync'[s].pc = "checksum" /\ sync'[s].todo = sync[s].todo
    BY <2>1 DEF Becomes, Sync
  <2>3. /\ sync[s].pc = "stream" /\ IsFirst(j, sync[s].todo) /\ sums' = sums
        /\ bucket' = [bucket EXCEPT ![SyncKey(s, SyncOrder[j])] = {Download(s, SyncOrder[j])}]
    BY <1>7 DEF StreamArtifact
  <2>4. HasCopies(s) /\ HasCopies(s)' /\ sync[s].ts # 0
    BY <1>1, <2>2, <2>3 DEF HasCopies, CopiesOf, TypeOK
  <2>5. ASSUME NEW i \in DOMAIN SyncOrder, Streamed(s, i)' PROVE Streamed(s, i) \/ i = j
    <3>1. j \in Nat /\ i \in Nat
      BY SyncOrderNames
    <3> QED BY <2>2, <2>3, <2>5, <3>1 DEF Streamed, IsFirst
  <2>6. ASSUME NEW i \in DOMAIN SyncOrder
        PROVE  LET k == SyncKey(s, SyncOrder[i]) IN
               /\ k = SyncKey(s, SyncOrder[j]) => bucket'[k] = {Download(s, SyncOrder[i])}
               /\ k # SyncKey(s, SyncOrder[j]) => bucket'[k] = bucket[k]
    <3>1. SyncKey(s, SyncOrder[i]) = SyncKey(s, SyncOrder[j]) => SyncOrder[i] = SyncOrder[j]
      BY DEF SyncKey
    <3>2. bucket = [k \in Keys |-> bucket[k]] /\ SyncKey(s, SyncOrder[i]) \in Keys
      BY <1>1, <1>6, <2>4 DEF TypeOK
    <3> QED BY <2>3, <3>1, <3>2
  <2> QED BY <1>5, <2>2, <2>3, <2>4, <2>5, <2>6
<1>8. ASSUME NEW j \in DOMAIN SyncOrder, StreamChecksum(s, j) PROVE CopiesOf(s)'
  <2>1. Becomes(s, Sync("stream", sync[s].req, sync[s].src, sync[s].ts, sync[s].todo \ {j}))
    BY <1>1, <1>8, SyncAfter
  <2>2. /\ sync'[s].req = sync[s].req /\ sync'[s].src = sync[s].src /\ sync'[s].ts = sync[s].ts
        /\ sync'[s].pc = "stream" /\ sync'[s].todo = sync[s].todo \ {j}
    BY <2>1 DEF Becomes, Sync
  <2>3. /\ sync[s].pc = "checksum" /\ IsFirst(j, sync[s].todo) /\ bucket' = bucket
        /\ sums' \in {sums, [sums EXCEPT ![SyncKey(s, SyncOrder[j])] = {Download(s, SyncOrder[j])}]}
    BY <1>8 DEF StreamChecksum
  <2>4. HasCopies(s) /\ HasCopies(s)' /\ sync[s].ts # 0
    BY <1>1, <2>2, <2>3 DEF HasCopies, CopiesOf, TypeOK
  <2>5. ASSUME NEW i \in DOMAIN SyncOrder, Streamed(s, i)' PROVE Streamed(s, i)
    BY <2>2, <2>3, <2>5 DEF Streamed
  <2>6. ASSUME NEW i \in DOMAIN SyncOrder
        PROVE  LET k == SyncKey(s, SyncOrder[i]) IN sums'[k] \in {sums[k], {Download(s, SyncOrder[i])}}
    <3>1. SyncKey(s, SyncOrder[i]) = SyncKey(s, SyncOrder[j]) => SyncOrder[i] = SyncOrder[j]
      BY DEF SyncKey
    <3>2. sums = [k \in Keys |-> sums[k]] /\ SyncKey(s, SyncOrder[i]) \in Keys
      BY <1>1, <1>6, <2>4 DEF TypeOK
    <3> QED BY <2>3, <3>1, <3>2
  <2> QED BY <1>5, <2>2, <2>3, <2>4, <2>5, <2>6
<1>9. CASE WriteManifest(s)
  <2>1. Becomes(s, Sync("done", sync[s].req, sync[s].src, sync[s].ts, sync[s].todo))
    BY <1>1, <1>9, SyncAfter
  <2>2. /\ sync'[s].req = sync[s].req /\ sync'[s].src = sync[s].src /\ sync'[s].ts = sync[s].ts
        /\ sync'[s].pc = "done" /\ sync'[s].todo = sync[s].todo
    BY <2>1 DEF Becomes, Sync
  <2>3. sync[s].pc = "stream" /\ bucket' = bucket /\ sums' = sums
    BY <1>9 DEF WriteManifest
  <2>4. HasCopies(s) /\ HasCopies(s)'
    BY <2>2, <2>3 DEF HasCopies
  <2>5. ASSUME NEW i \in DOMAIN SyncOrder, Streamed(s, i)' PROVE Streamed(s, i)
    BY <2>2, <2>3, <2>5 DEF Streamed
  <2> QED BY <1>5, <2>2, <2>3, <2>4, <2>5
<1> QED BY <1>2, <1>3, <1>4, <1>7, <1>8, <1>9 DEF SyncStep

\* generateCustomManifest comes last: only with it a command is done and a manifest that
\* can be read is there.
LEMMA SyncEnds ==
    ASSUME TypeOK, NEW s \in Syncs, SyncStep(s)
    PROVE  \/ sync'[s].pc # "done" /\ manifests' \in {manifests, manifests \cup {TruncatedManifest(s)}}
           \/ WriteManifest(s)
<1>1. ASSUME NEW req \in Requests, StartSync(s, req) PROVE sync'[s].pc # "done" /\ manifests' = manifests
  <2>1. \/ Becomes(s, Sync("bucket", req, Source(req, Manifests[upstream]), 0, {}))
        \/ Becomes(s, Sync("failed", None, None, 0, {}))
    BY <1>1, SyncAfter
  <2> QED BY <1>1, <2>1 DEF Becomes, Sync, StartSync
<1>2. ASSUME ValidateBucket(s) PROVE sync'[s].pc # "done" /\ manifests' = manifests
  <2>1. Becomes(s, Sync("stream", sync[s].req, sync[s].src, now, CollectArtifacts(sync[s])))
    BY <1>2, SyncAfter
  <2> QED BY <1>2, <2>1 DEF Becomes, Sync, ValidateBucket
<1>3. ASSUME NEW i \in DOMAIN SyncOrder, StreamArtifact(s, i) PROVE sync'[s].pc # "done" /\ manifests' = manifests
  <2>1. \/ Becomes(s, Sync("stream", sync[s].req, sync[s].src, sync[s].ts, sync[s].todo \ {i}))
        \/ Becomes(s, Sync("checksum", sync[s].req, sync[s].src, sync[s].ts, sync[s].todo))
    BY <1>3, SyncAfter
  <2> QED BY <1>3, <2>1 DEF Becomes, Sync, StreamArtifact
<1>4. ASSUME NEW i \in DOMAIN SyncOrder, StreamChecksum(s, i) PROVE sync'[s].pc # "done" /\ manifests' = manifests
  <2>1. Becomes(s, Sync("stream", sync[s].req, sync[s].src, sync[s].ts, sync[s].todo \ {i}))
    BY <1>4, SyncAfter
  <2> QED BY <1>4, <2>1 DEF Becomes, Sync, StreamChecksum
<1>5. ASSUME SyncFails(s)
      PROVE  sync'[s].pc # "done" /\ manifests' \in {manifests, manifests \cup {TruncatedManifest(s)}}
  <2>1. Becomes(s, Sync("failed", None, None, sync[s].ts, {}))
    BY <1>5, SyncAfter
  <2> QED BY <1>5, <2>1 DEF Becomes, Sync, SyncFails
<1> QED BY <1>1, <1>2, <1>3, <1>4, <1>5 DEF SyncStep

\* The invariant is kept by every step of a sync command.
LEMMA SyncStepInductive ==
    ASSUME MirrorInv, NEW s \in Syncs, SyncStep(s)
    PROVE  MirrorInv'
<1>1. /\ SyncKeeps(s) /\ CommandsKept(s) /\ ObjectsKept(s) /\ inst' = inst /\ host' = host
      /\ TypeOK /\ CopiesInv /\ ManifestsInv /\ InstalledInv
  BY SyncStepKeeps DEF MirrorInv, SyncKeeps
<1>2. TypeOK'
  BY SyncStepTypeOK
<1>3. CopiesInv'
  <2>1. \A t \in Syncs : CopiesOf(t)'
    BY <1>1, OtherCopies, OwnCopies
  <2>2. ASSUME NEW k \in Keys, bucket'[k] # {} \/ sums'[k] # {}
        PROVE  \E t \in Syncs : sync'[t].ts = k[1]
    <3>1. k[1] \in Seconds /\ k[1] # 0
      BY DEF Keys, Seconds
    <3>2. CASE k[1] = sync[s].ts
      BY <3>1, <3>2, <1>1 DEF CommandsKept
    <3>3. CASE k[1] # sync[s].ts
      <4>1. bucket[k] # {} \/ sums[k] # {}
        BY <1>1, <2>2, <3>3 DEF ObjectsKept
      <4>2. PICK t \in Syncs : sync[t].ts = k[1]
        BY <4>1, <1>1 DEF CopiesInv
      <4> QED BY <4>2, <3>1, <1>1, ClashStays
    <3> QED BY <3>2, <3>3
  <2> QED BY <2>1, <2>2 DEF CopiesInv
<1>4. ManifestsInv'
  <2>1. ASSUME NEW t \in Syncs, sync'[t].pc = "done" PROVE sync'[t].todo = {}
    <3>1. CASE t # s
      BY <1>1, <2>1, <3>1 DEF CommandsKept, ManifestsInv
    <3>2. CASE t = s
      <4>1. WriteManifest(s)
        BY <1>1, <2>1, <3>2, SyncEnds
      <4>2. Becomes(s, Sync("done", sync[s].req, sync[s].src, sync[s].ts, sync[s].todo))
        BY <1>1, <4>1, SyncAfter
      <4>3. sync'[s].todo = sync[s].todo
        BY <4>2 DEF Becomes, Sync
      <4> QED BY <3>2, <4>1, <4>3 DEF WriteManifest
    <3> QED BY <3>1, <3>2
  <2> DEFINE Good(m) == /\ m.by \in Syncs
                        /\ \/ m = TruncatedManifest(m.by)
                           \/ sync'[m.by].pc = "done" /\ m = CustomManifest(m.by)'
  <2>2. ASSUME NEW m \in manifests PROVE Good(m)
    <3>1. /\ m.by \in Syncs
          /\ m = TruncatedManifest(m.by) \/ (sync[m.by].pc = "done" /\ m = CustomManifest(m.by))
      BY <1>1 DEF ManifestsInv
    <3>2. ASSUME sync[m.by].pc = "done" PROVE sync'[m.by] = sync[m.by]
      BY <1>1, <3>1, <3>2 DEF CommandsKept
    <3>3. ASSUME sync[m.by].pc = "done" PROVE CustomManifest(m.by)' = CustomManifest(m.by)
      BY <3>2, <3>3 DEF CustomManifest, Copied
    <3> QED BY <3>1, <3>2, <3>3
  <2>3. Good(TruncatedManifest(s))
    BY DEF TruncatedManifest
  <2>4. ASSUME WriteManifest(s) PROVE Good(CustomManifest(s)) /\ manifests' = manifests \cup {CustomManifest(s)}
    <3>1. Becomes(s, Sync("done", sync[s].req, sync[s].src, sync[s].ts, sync[s].todo))
      BY <1>1, <2>4, SyncAfter
    <3>2. /\ sync'[s].pc = "done" /\ sync'[s].req = sync[s].req
          /\ sync'[s].src = sync[s].src /\ sync'[s].ts = sync[s].ts
      BY <3>1 DEF Becomes, Sync
    <3>3. CustomManifest(s)' = CustomManifest(s) /\ CustomManifest(s).by = s
      BY <3>2 DEF CustomManifest, Copied
    <3> QED BY <2>4, <3>2, <3>3 DEF WriteManifest
  <2>5. \A m \in manifests' : Good(m)
    <3> HIDE DEF Good
    <3> QED BY <1>1, <2>2, <2>3, <2>4, SyncEnds
  <2> QED BY <2>1, <2>5 DEF ManifestsInv
<1>5. InstalledInv'
  <2>1. manifests \subseteq manifests'
    BY <1>1 DEF SyncKeeps
  <2>2. ASSUME inst.pc # "none" \/ inst.last = "ok", NEW n, Right(n) PROVE Right(n)'
    <3>1. CASE inst.from \in Range(Manifests)
      <4>1. ~Mirrored(inst.from)
        BY <3>1, ReleaseMirrorAssumption DEF Mirrored, Published
      <4> QED BY <1>1, <2>2, <4>1 DEF Right
    <3>2. CASE inst.from \notin Range(Manifests)
      <4>1. inst.from.by \in Syncs /\ sync[inst.from.by].pc = "done"
        BY <2>2, <3>2, ManifestRead
      <4>2. PICK t \in Syncs : t = inst.from.by /\ sync[t].pc = "done"
        BY <4>1
      <4>3. sync[t].ts # 0
        <5>1. CopiesOf(t) /\ HasCopies(t) /\ sync[t].ts \in 0..now
          BY <1>1, <4>2 DEF CopiesInv, HasCopies, TypeOK
        <5> QED BY <5>1 DEF CopiesOf
      <4>4. Clash(t) => Clash(t)'
        BY <1>1, <4>3, ClashStays
      <4>5. inst'.from.by = t
        BY <1>1, <4>2
      <4> QED BY <1>1, <2>2, <4>2, <4>4, <4>5 DEF Right, Mirrored, Clash
    <3> QED BY <3>1, <3>2
  <2> QED BY <1>1, <2>1, <2>2 DEF InstalledInv
<1> QED BY <1>2, <1>3, <1>4, <1>5 DEF MirrorInv
-----------------------------------------------------------------------------
(* Steps of upstream and of an install.                                    *)

\* They leave the mirrors alone.
LEMMA MirrorsUnchanged ==
    ASSUME CopiesInv, ManifestsInv, UNCHANGED mirror
    PROVE  CopiesInv' /\ ManifestsInv'
<1>1. sync' = sync /\ bucket' = bucket /\ sums' = sums /\ manifests' = manifests
  BY DEF mirror
<1>2. CopiesInv'
  BY <1>1 DEF CopiesInv, CopiesOf, Resolved, HasCopies, Streamed, Clash, SyncKey, Download
<1>3. \A s : CustomManifest(s)' = CustomManifest(s)
  BY <1>1, Zenon DEF CustomManifest, Copied
<1>4. ManifestsInv'
  BY <1>1, <1>3 DEF ManifestsInv
<1> QED BY <1>2, <1>4

LEMMA OriginStepInductive ==
    ASSUME MirrorInv, Publish \/ PublishSsm \/ Tick
    PROVE  MirrorInv'
<1>1. /\ UNCHANGED <<mirror, inst, host>>
      /\ sync' = sync /\ bucket' = bucket /\ sums' = sums /\ manifests' = manifests
      /\ inst' = inst /\ host' = host
  BY DEF Publish, PublishSsm, Tick, mirror
<1>2. CopiesInv' /\ ManifestsInv'
  BY <1>1, MirrorsUnchanged DEF MirrorInv
<1>3. InstalledInv'
  BY <1>1 DEF MirrorInv, InstalledInv, Right, Clash
<1>4. upstream' \in DOMAIN Manifests
  <2>1. upstream \in DOMAIN Manifests /\ Len(Manifests) \in Nat /\ DOMAIN Manifests = 1..Len(Manifests)
    BY ReleaseMirrorAssumption DEF MirrorInv, TypeOK
  <2>2. upstream' = upstream \/ (upstream < Len(Manifests) /\ upstream' = upstream + 1)
    BY DEF Publish, PublishSsm, Tick
  <2> QED BY <2>1, <2>2
<1>5. ssmLatest' \in 1..MaxSsm
  BY ReleaseMirrorAssumption DEF MirrorInv, TypeOK, Publish, PublishSsm, Tick
<1>6. now' \in Seconds /\ \A s \in Syncs : sync[s].ts \in 0..now'
  <2>1. /\ now \in 1..MaxSecond /\ MaxSecond \in Nat
        /\ now' = now \/ (now < MaxSecond /\ now' = now + 1)
    BY ReleaseMirrorAssumption DEF MirrorInv, TypeOK, Seconds, Publish, PublishSsm, Tick
  <2>2. ASSUME NEW s \in Syncs PROVE sync[s].ts \in 0..now'
    <3>1. sync[s].ts \in 0..now
      BY DEF MirrorInv, TypeOK
    <3> QED BY <2>1, <3>1
  <2> QED BY <2>1, <2>2 DEF Seconds
<1>7. TypeOK'
  BY <1>1, <1>4, <1>5, <1>6 DEF MirrorInv, TypeOK
<1> QED BY <1>2, <1>3, <1>7 DEF MirrorInv

\* What a step of an install that has begun makes of it.
Install(pc, todo, stream, left, faulty, last) ==
    [pc |-> pc, req |-> inst.req, provider |-> inst.provider, from |-> inst.from, src |-> inst.src,
     todo |-> todo, stream |-> stream, left |-> left, runs |-> inst.runs, faulty |-> faulty, last |-> last]
Failed(faulty) ==
    \/ inst.left > 1 /\ inst' = Install("fetch", inst.todo, {}, inst.left - 1, faulty, inst.last)
    \/ ~(inst.left > 1) /\ inst' = Install("none", {}, {}, 0, faulty, "error")
LEMMA InstallAfter ==
    ASSUME TypeOK
    PROVE  /\ \A f : AttemptFailed(f) => Failed(f)
           /\ \A i : Fetch(i) =>
                 LET delivered == Delivered(InstallOrder(inst.provider)[i], bucket) IN
                 \/ delivered = {} /\ Failed(inst.faulty)
                 \/ /\ delivered # {}
                    /\ inst' = Install("verify", inst.todo, delivered, inst.left, inst.faulty, inst.last)
           /\ \A i : Verify(i) =>
                 LET expected == Delivered(InstallOrder(inst.provider)[i], sums) IN
                 \/ expected # inst.stream /\ Failed(inst.faulty)
                 \/ /\ expected = inst.stream
                    /\ inst' = Install("fetch", inst.todo \ {i}, {}, Attempts, inst.faulty, inst.last)
           /\ \A i : AttemptBreaks(i) => Failed(TRUE)
           /\ InstallDone => inst' = Install("none", inst.todo, inst.stream, inst.left, inst.faulty, "ok")
<1>1. inst = Install(inst.pc, inst.todo, inst.stream, inst.left, inst.faulty, inst.last)
  BY DEF TypeOK, Install
<1>2. ASSUME NEW f, AttemptFailed(f) PROVE Failed(f)
  <2>1. CASE inst.left > 1
    BY <1>1, <1>2, <2>1 DEF AttemptFailed, Failed, Install
  <2>2. CASE ~(inst.left > 1)
    <3>1. inst' = InstallError(f)
      BY <1>2, <2>2 DEF AttemptFailed
    <3> QED BY <1>1, <3>1, <2>2 DEF InstallError, Failed, Install
  <2> QED BY <2>1, <2>2
<1>3. ASSUME NEW i, Fetch(i)
      PROVE  LET delivered == Delivered(InstallOrder(inst.provider)[i], bucket) IN
             \/ delivered = {} /\ Failed(inst.faulty)
             \/ /\ delivered # {}
                /\ inst' = Install("verify", inst.todo, delivered, inst.left, inst.faulty, inst.last)
  <2> DEFINE delivered == Delivered(InstallOrder(inst.provider)[i], bucket)
  <2>1. \/ delivered = {} /\ AttemptFailed(inst.faulty)
        \/ delivered # {} /\ inst' = [inst EXCEPT !.stream = delivered, !.pc = "verify"]
    BY <1>3 DEF Fetch
  <2> HIDE DEF delivered
  <2>2. ASSUME inst' = [inst EXCEPT !.stream = delivered, !.pc = "verify"]
        PROVE  inst' = Install("verify", inst.todo, delivered, inst.left, inst.faulty, inst.last)
    BY <1>1, <2>2 DEF Install
  <2>3. delivered = Delivered(InstallOrder(inst.provider)[i], bucket)
    BY DEF delivered
  <2> QED BY <1>2, <2>1, <2>2, <2>3
<1>4. ASSUME NEW i, Verify(i)
      PROVE  LET expected == Delivered(InstallOrder(inst.provider)[i], sums) IN
             \/ expected # inst.stream /\ Failed(inst.faulty)
             \/ /\ expected = inst.stream
                /\ inst' = Install("fetch", inst.todo \ {i}, {}, Attempts, inst.faulty, inst.last)
  <2> DEFINE expected == Delivered(InstallOrder(inst.provider)[i], sums)
  <2>1. \/ expected # inst.stream /\ AttemptFailed(inst.faulty)
        \/ /\ expected = inst.stream
           /\ inst' = [inst EXCEPT !.pc = "fetch", !.todo = inst.todo \ {i}, !.left = Attempts, !.stream = {}]
    BY <1>1, <1>4 DEF Verify
  <2> HIDE DEF expected
  <2>2. ASSUME inst' = [inst EXCEPT !.pc = "fetch", !.todo = inst.todo \ {i}, !.left = Attempts, !.stream = {}]
        PROVE  inst' = Install("fetch", inst.todo \ {i}, {}, Attempts, inst.faulty, inst.last)
    BY <1>1, <2>2 DEF Install
  <2>3. expected = Delivered(InstallOrder(inst.provider)[i], sums)
    BY DEF expected
  <2> QED BY <1>2, <2>1, <2>2, <2>3
<1>5. ASSUME NEW i, AttemptBreaks(i) PROVE Failed(TRUE)
  BY <1>2, <1>5 DEF AttemptBreaks
<1>6. ASSUME InstallDone
      PROVE  inst' = Install("none", inst.todo, inst.stream, inst.left, inst.faulty, "ok")
  BY <1>1, <1>6 DEF InstallDone, Install
<1> QED BY <1>2, <1>3, <1>4, <1>5, <1>6
\* The parts of the invariant a step of an install has to keep.
LEMMA InstallContinues ==
    ASSUME MirrorInv, inst.pc # "none", UNCHANGED <<origin, mirror>>, host' = [n \in Names |-> host'[n]],
           NEW pc \in {"none", "fetch", "verify"}, NEW todo, todo \subseteq inst.todo, NEW stream,
           NEW left \in 0..Attempts, NEW faulty \in BOOLEAN, NEW last \in {"none", "ok", "error"},
           inst' = Install(pc, todo, stream, left, faulty, last),
           pc = "verify" => stream # {}, pc # "none" => last = "none", last = "ok" => todo = {},
           pc # "none" \/ last = "ok" => \A i \in DOMAIN InstallOrder(inst.provider) \ todo :
               LET n == InstallOrder(inst.provider)[i] IN
               n # SetupCli => \/ host'[n] = {File(n, ReleaseOf(inst.src, n).version, HostArch)}
                               \/ Mirrored(inst.from) /\ Clash(inst.from.by)
    PROVE  MirrorInv'
<1>1. /\ inst'.pc = pc /\ inst'.req = inst.req /\ inst'.provider = inst.provider /\ inst'.from = inst.from
      /\ inst'.src = inst.src /\ inst'.todo = todo /\ inst'.stream = stream /\ inst'.left = left
      /\ inst'.runs = inst.runs /\ inst'.faulty = faulty /\ inst'.last = last
  BY DEF Install
<1>2. /\ sync' = sync /\ bucket' = bucket /\ sums' = sums /\ manifests' = manifests
      /\ upstream' = upstream /\ ssmLatest' = ssmLatest /\ now' = now
  BY DEF origin, mirror
<1>3. CopiesInv' /\ ManifestsInv'
  BY MirrorsUnchanged DEF MirrorInv
<1>4. inst' = [pc |-> inst'.pc, req |-> inst'.req, provider |-> inst'.provider, from |-> inst'.from,
               src |-> inst'.src, todo |-> inst'.todo, stream |-> inst'.stream, left |-> inst'.left,
               runs |-> inst'.runs, faulty |-> inst'.faulty, last |-> inst'.last]
  BY DEF Install
<1>5. TypeOK'
  BY <1>1, <1>2, <1>4 DEF MirrorInv, TypeOK
<1>6. Clash(inst.from.by)' <=> Clash(inst.from.by)
  BY <1>1, <1>2 DEF Clash
<1>7. ASSUME pc # "none" \/ last = "ok", NEW i \in DOMAIN InstallOrder(inst.provider) \ todo,
             InstallOrder(inst.provider)[i] # SetupCli
      PROVE  Right(InstallOrder(inst.provider)[i])'
  BY <1>1, <1>6, <1>7 DEF Right, Mirrored
<1>8. InstalledInv'
  BY <1>1, <1>2, <1>7 DEF MirrorInv, InstalledInv
<1> QED BY <1>3, <1>5, <1>8 DEF MirrorInv
\* What holds of an install that has begun.
LEMMA InstallBegun ==
    ASSUME MirrorInv, inst.pc # "none"
    PROVE  /\ inst.runs > 0 /\ inst.last = "none" /\ inst.left \in 0..Attempts /\ inst.faulty \in BOOLEAN
           /\ inst.todo \subseteq DOMAIN InstallOrder(inst.provider)
           /\ host = [n \in Names |-> host[n]]
           /\ \A i \in DOMAIN InstallOrder(inst.provider) : InstallOrder(inst.provider)[i] \in Names
           /\ \A i \in DOMAIN InstallOrder(inst.provider) \ inst.todo :
                 InstallOrder(inst.provider)[i] # SetupCli => Right(InstallOrder(inst.provider)[i])
<1>1. \A i \in DOMAIN InstallOrder(inst.provider) : InstallOrder(inst.provider)[i] \in Names
  BY InstallOrderNames DEF Names, Credential
<1> QED BY <1>1 DEF MirrorInv, InstalledInv, TypeOK

\* A failed attempt may spoil the file it was about, and no other.
LEMMA FailedInductive ==
    ASSUME MirrorInv, inst.pc # "none", UNCHANGED <<origin, mirror>>, NEW f \in BOOLEAN, Failed(f),
           NEW i \in inst.todo, host' = [n \in Names |-> host'[n]],
           \A n \in Names \ {InstallOrder(inst.provider)[i]} : host'[n] = host[n]
    PROVE  MirrorInv'
<1>1. ASSUME NEW j \in DOMAIN InstallOrder(inst.provider) \ inst.todo,
             InstallOrder(inst.provider)[j] # SetupCli
      PROVE  LET n == InstallOrder(inst.provider)[j] IN
             \/ host'[n] = {File(n, ReleaseOf(inst.src, n).version, HostArch)}
             \/ Mirrored(inst.from) /\ Clash(inst.from.by)
  <2>1. InstallOrder(inst.provider)[j] # InstallOrder(inst.provider)[i]
    BY <1>1, InstallBegun, InstallOrderNames
  <2> QED BY <1>1, <2>1, InstallBegun DEF Right
<1>2. CASE inst.left > 1 /\ inst' = Install("fetch", inst.todo, {}, inst.left - 1, f, inst.last)
  <2>1. inst.left - 1 \in 0..Attempts /\ inst.last = "none"
    BY <1>2, InstallBegun, ReleaseMirrorAssumption
  <2>2. inst' = Install("fetch", inst.todo, {}, inst.left - 1, f, "none")
    BY <1>2, <2>1
  <2> QED BY <1>1, <2>1, <2>2, InstallContinues
<1>3. CASE inst' = Install("none", {}, {}, 0, f, "error")
  <2>1. 0 \in 0..Attempts
    BY ReleaseMirrorAssumption
  <2> QED BY <1>3, <2>1, InstallContinues
<1> QED BY <1>2, <1>3 DEF Failed

\* A file that fits its checksum is the one of the release.
LEMMA VerifyInductive ==
    ASSUME MirrorInv, NEW i \in inst.todo, Verify(i)
    PROVE  MirrorInv'
<1> DEFINE name == InstallOrder(inst.provider)[i]
           expected == Delivered(name, sums)
<1>1. /\ inst.pc = "verify" /\ inst.pc # "none" /\ UNCHANGED <<origin, mirror>> /\ name \in Names
      /\ host' = (IF expected = {} \/ (name = SetupCli /\ expected # inst.stream)
                  THEN host ELSE [host EXCEPT ![name] = inst.stream])
      /\ inst.stream # {}
  <2>1. inst.pc = "verify" /\ inst.pc # "none"
    BY DEF Verify
  <2> QED BY <2>1, InstallBegun DEF Verify, MirrorInv, InstalledInv
<1>2. \/ expected # inst.stream /\ Failed(inst.faulty)
      \/ /\ expected = inst.stream
         /\ inst' = Install("fetch", inst.todo \ {i}, {}, Attempts, inst.faulty, inst.last)
  BY InstallAfter DEF MirrorInv
<1>3. /\ host' = [n \in Names |-> host'[n]] /\ \A n \in Names \ {name} : host'[n] = host[n]
      /\ expected = inst.stream => host'[name] = inst.stream
  <2> HIDE DEF name, expected
  <2>1. host = [n \in Names |-> host[n]]
    BY <1>1, InstallBegun
  <2> QED BY <1>1, <2>1
<1>4. CASE expected # inst.stream /\ Failed(inst.faulty)
  BY <1>1, <1>3, <1>4, InstallBegun, FailedInductive
<1>5. CASE /\ expected = inst.stream
           /\ inst' = Install("fetch", inst.todo \ {i}, {}, Attempts, inst.faulty, inst.last)
  <2>1. ASSUME NEW j \in DOMAIN InstallOrder(inst.provider) \ (inst.todo \ {i}),
               InstallOrder(inst.provider)[j] # SetupCli
        PROVE  LET n == InstallOrder(inst.provider)[j] IN
               \/ host'[n] = {File(n, ReleaseOf(inst.src, n).version, HostArch)}
               \/ Mirrored(inst.from) /\ Clash(inst.from.by)
    <3>1. CASE j # i
      <4>1. InstallOrder(inst.provider)[j] # name
        BY <1>1, <2>1, <3>1, InstallBegun, InstallOrderNames
      <4>2. Right(InstallOrder(inst.provider)[j]) /\ InstallOrder(inst.provider)[j] \in Names
        BY <1>1, <2>1, <3>1, InstallBegun
      <4> QED BY <1>3, <4>1, <4>2 DEF Right
    <3>2. CASE j = i /\ ~(Mirrored(inst.from) /\ Clash(inst.from.by))
      <4>1. name \in EksNames \cup {Helper}
        BY <1>1, <2>1, <3>2, InstallBegun, InstallOrderNames DEF Credential
      <4>2. expected \subseteq {File(name, ReleaseOf(inst.src, name).version, HostArch)}
        BY <1>1, <3>2, <4>1, DeliveredIsRelease
      <4> HIDE DEF name, expected
      <4>3. host'[name] = {File(name, ReleaseOf(inst.src, name).version, HostArch)}
        BY <1>1, <1>3, <1>5, <4>2
      <4> QED BY <3>2, <4>3 DEF name
    <3> QED BY <3>1, <3>2
  <2>2. Attempts \in 0..Attempts
    BY ReleaseMirrorAssumption
  <2>3. inst' = Install("fetch", inst.todo \ {i}, {}, Attempts, inst.faulty, "none")
    BY <1>1, <1>5, InstallBegun
  <2> QED BY <1>1, <1>3, <2>1, <2>2, <2>3, InstallBegun, InstallContinues
<1> HIDE DEF expected
<1> QED BY <1>2, <1>4, <1>5

LEMMA InstallStepInductive ==
    ASSUME MirrorInv, InstallStep
    PROVE  MirrorInv'
<1>1. ASSUME NEW req \in Requests, NEW provider \in {"ssm", "iam-ra"},
             NEW from \in manifests \cup {Manifests[upstream]}, StartInstall(req, provider, from)
      PROVE  MirrorInv'
  <2>1. /\ sync' = sync /\ bucket' = bucket /\ sums' = sums /\ manifests' = manifests /\ host' = host
        /\ upstream' = upstream /\ ssmLatest' = ssmLatest /\ now' = now
    BY <1>1 DEF StartInstall, origin, mirror
  <2>2. CopiesInv' /\ ManifestsInv'
    BY <2>1, MirrorsUnchanged DEF MirrorInv, mirror
  <2>3. Manifests[upstream] \in Range(Manifests)
    BY DEF MirrorInv, TypeOK, Range
  <2>4. inst.runs + 1 \in 0..MaxInstalls /\ inst.runs + 1 > 0
    BY <1>1, ReleaseMirrorAssumption DEF StartInstall, MirrorInv, TypeOK
  <2>5. 0 \in 0..Attempts /\ Attempts \in 0..Attempts
    BY ReleaseMirrorAssumption
  <2>6. CASE CanResolve(req, from)
    <3>1. inst' = [pc |-> "fetch", req |-> req, provider |-> provider, from |-> from,
                   src |-> Source(req, from), todo |-> DOMAIN InstallOrder(provider), stream |-> {},
                   left |-> Attempts, runs |-> inst.runs + 1, faulty |-> FALSE, last |-> "none"]
      BY <1>1, <2>6 DEF StartInstall, NoInstall
    <3>2. TypeOK'
      BY <2>1, <2>4, <2>5, <3>1 DEF MirrorInv, TypeOK
    <3>3. InstalledInv'
      BY <2>1, <2>3, <2>4, <2>6, <3>1 DEF InstalledInv
    <3> QED BY <2>2, <3>2, <3>3 DEF MirrorInv
  <2>7. CASE ~CanResolve(req, from)
    <3>1. inst' = [pc |-> "none", req |-> req, provider |-> provider, from |-> from,
                   src |-> None, todo |-> {}, stream |-> {},
                   left |-> 0, runs |-> inst.runs + 1, faulty |-> FALSE, last |-> "error"]
      BY <1>1, <2>7 DEF StartInstall, NoInstall
    <3>2. TypeOK'
      BY <2>1, <2>4, <2>5, <3>1 DEF MirrorInv, TypeOK
    <3>3. InstalledInv'
      BY <2>1, <2>3, <2>4, <3>1 DEF InstalledInv
    <3> QED BY <2>2, <3>2, <3>3 DEF MirrorInv
  <2> QED BY <2>6, <2>7
<1>2. ASSUME NEW i \in inst.todo, Fetch(i) PROVE MirrorInv'
  <2> DEFINE delivered == Delivered(InstallOrder(inst.provider)[i], bucket)
  <2>1. inst.pc # "none" /\ UNCHANGED <<origin, mirror>> /\ host' = host
    BY <1>2 DEF Fetch
  <2>2. \/ Failed(inst.faulty)
        \/ /\ delivered # {}
           /\ inst' = Install("verify", inst.todo, delivered, inst.left, inst.faulty, inst.last)
    BY <1>2, InstallAfter DEF MirrorInv
  <2>3. CASE Failed(inst.faulty)
    BY <2>1, <2>3, InstallBegun, FailedInductive
  <2>4. CASE /\ delivered # {}
             /\ inst' = Install("verify", inst.todo, delivered, inst.left, inst.faulty, inst.last)
    <3> HIDE DEF delivered
    <3>1. inst' = Install("verify", inst.todo, delivered, inst.left, inst.faulty, "none")
      BY <2>1, <2>4, InstallBegun
    <3>2. ASSUME NEW j \in DOMAIN InstallOrder(inst.provider) \ inst.todo,
                 InstallOrder(inst.provider)[j] # SetupCli
          PROVE  LET n == InstallOrder(inst.provider)[j] IN
                 \/ host'[n] = {File(n, ReleaseOf(inst.src, n).version, HostArch)}
                 \/ Mirrored(inst.from) /\ Clash(inst.from.by)
      BY <2>1, <3>2, InstallBegun DEF Right
    <3> QED BY <2>1, <2>4, <3>1, <3>2, InstallBegun, InstallContinues
  <2> QED BY <2>2, <2>3, <2>4
<1>3. ASSUME NEW i \in inst.todo, AttemptBreaks(i) PROVE MirrorInv'
  <2>1. /\ inst.pc # "none" /\ UNCHANGED <<origin, mirror>>
        /\ host' \in {host, [host EXCEPT ![InstallOrder(inst.provider)[i]] = {}]}
    BY <1>3 DEF AttemptBreaks
  <2>2. /\ host' = [n \in Names |-> host'[n]]
        /\ \A n \in Names \ {InstallOrder(inst.provider)[i]} : host'[n] = host[n]
    BY <2>1, InstallBegun
  <2>3. Failed(TRUE)
    BY <1>3, InstallAfter DEF MirrorInv
  <2> QED BY <2>1, <2>2, <2>3, FailedInductive
<1>4. CASE InstallDone
  <2>1. inst.pc # "none" /\ inst.todo = {} /\ UNCHANGED <<origin, mirror>> /\ host' = host
    BY <1>4 DEF InstallDone
  <2>2. inst' = Install("none", inst.todo, inst.stream, inst.left, inst.faulty, "ok")
    BY <1>4, InstallAfter DEF MirrorInv
  <2>3. ASSUME NEW j \in DOMAIN InstallOrder(inst.provider) \ inst.todo,
               InstallOrder(inst.provider)[j] # SetupCli
        PROVE  LET n == InstallOrder(inst.provider)[j] IN
               \/ host'[n] = {File(n, ReleaseOf(inst.src, n).version, HostArch)}
               \/ Mirrored(inst.from) /\ Clash(inst.from.by)
    BY <2>1, <2>3, InstallBegun DEF Right
  <2> QED BY <2>1, <2>2, <2>3, InstallBegun, InstallContinues
<1> QED BY <1>1, <1>2, <1>3, <1>4, VerifyInductive DEF InstallStep

-----------------------------------------------------------------------------
\* The invariant of mirrors and installs (MirrorInv): whatever sync commands share the
\* bucket, fail or are killed, a manifest is never ahead of its copies, and what an install
\* has verified is what it resolved.
THEOREM ManifestNeverAheadOfCopies == Spec => []MirrorInv
<1>1. Init => MirrorInv
  <2> SUFFICES ASSUME Init PROVE MirrorInv
    OBVIOUS
  <2>1. /\ upstream = 1 /\ ssmLatest = 1 /\ now = 1 /\ sync = [s \in Syncs |-> Idle]
        /\ bucket = [k \in Keys |-> {}] /\ sums = [k \in Keys |-> {}] /\ manifests = {}
        /\ inst = NoInstall /\ host = [n \in Names |-> {}]
    BY DEF Init
  <2>2. 1 \in DOMAIN Manifests /\ 1 \in 1..MaxSsm /\ 1 \in Seconds
    <3>1. Manifests \in Seq(Range(Manifests)) /\ Manifests # << >>
      BY ReleaseMirrorAssumption
    <3>2. Len(Manifests) \in Nat \ {0} /\ DOMAIN Manifests = 1..Len(Manifests)
      BY <3>1, EmptySeq
    <3> QED BY <3>2, ReleaseMirrorAssumption DEF Seconds
  <2>3. \A s \in Syncs : /\ sync[s].pc = "idle" /\ sync[s].ts = 0 /\ sync[s].todo = {}
                         /\ sync[s] = [pc |-> sync[s].pc, req |-> sync[s].req, src |-> sync[s].src,
                                       ts |-> sync[s].ts, todo |-> sync[s].todo]
    BY <2>1 DEF Idle
  <2>4. TypeOK
    <3>1. 0 \in 0..Attempts /\ 0 \in 0..MaxInstalls
      BY ReleaseMirrorAssumption
    <3> QED BY <2>1, <2>2, <2>3, <3>1 DEF TypeOK, NoInstall
  <2>5. CopiesInv
    BY <2>1, <2>3 DEF CopiesInv, CopiesOf, Resolved, HasCopies
  <2>6. ManifestsInv /\ InstalledInv
    BY <2>1, <2>3 DEF ManifestsInv, InstalledInv, NoInstall
  <2> QED BY <2>4, <2>5, <2>6 DEF MirrorInv
<1>2. MirrorInv /\ [Next]_vars => MirrorInv'
  <2> SUFFICES ASSUME MirrorInv, [Next]_vars PROVE MirrorInv'
    OBVIOUS
  <2>1. CASE UNCHANGED vars
    <3>1. /\ sync' = sync /\ bucket' = bucket /\ sums' = sums /\ manifests' = manifests
          /\ inst' = inst /\ host' = host
          /\ upstream' = upstream /\ ssmLatest' = ssmLatest /\ now' = now
      BY <2>1 DEF vars, origin, mirror
    <3>2. CopiesInv' /\ ManifestsInv'
      BY <3>1, MirrorsUnchanged DEF MirrorInv, mirror
    <3> QED BY <3>1, <3>2 DEF MirrorInv, TypeOK, InstalledInv, Right, Clash
  <2> QED BY <2>1, OriginStepInductive, SyncStepInductive, InstallStepInductive DEF Next
<1> QED BY <1>1, <1>2, PTL DEF Spec

\* An install that succeeds has put the files of the release it resolved on the host
\* (OkMeansRelease), for every manifest and however requests and publications interleave.
THEOREM OkIsTheRelease == Spec => []OkMeansRelease
<1>1. MirrorInv => OkMeansRelease
  <2> SUFFICES ASSUME MirrorInv, inst.last = "ok",
                      NEW n \in EksNames \cup (IF inst.provider = "ssm" THEN {} ELSE {Helper})
               PROVE  Right(n)
    BY DEF OkMeansRelease
  <2>1. \E i \in DOMAIN InstallOrder(inst.provider) : InstallOrder(inst.provider)[i] = n
    BY InstallOrderNames DEF Credential
  <2>2. n # SetupCli
    BY ReleaseMirrorAssumption DEF Helper, SetupCli
  <2> QED BY <2>1, <2>2 DEF MirrorInv, InstalledInv
<1> QED BY <1>1, ManifestNeverAheadOfCopies, PTL
\* The release a version resolves to is of the major.minor and patch that was asked for.
LEMMA ResolvedIsAsRequested ==
    ASSUME NEW req, NEW m, Listing(m), CanResolve(req, m)
    PROVE  AsRequested(req, Source(req, m).eks)
<1>1. PICK i \in Matched(req, m) : Source(req, m).eks = m.eks[i]
  BY ResolvedIsListed
<1>2. VersionMatches(req, Source(req, m).eks.version)
  BY DEF CanResolve, Source
<1> QED BY <1>1, <1>2 DEF AsRequested, VersionMatches, Matched

\* Leaving out a region's DNS suffix changes its registry unless its name implies it.
LEMMA RegistryOfCopy ==
    ASSUME NEW region, NEW data, NEW copy, NEW fips,
           copy.account = data.account, copy.suffix = None
    PROVE  (Registry(region, copy, fips) = Registry(region, data, fips))
               <=> data.suffix \in {None, FallbackSuffix(region)}
<1> DEFINE there == ServicesDomain(region, data)
           here == ServicesDomain(region, copy)
<1>1. (Registry(region, copy, fips) = Registry(region, data, fips)) <=> here = there
  <2> HIDE DEF here, there
  <2>1. Registry(region, copy, fips).suffix = here /\ Registry(region, data, fips).suffix = there
    BY DEF Registry, here, there
  <2>2. here = there => Registry(region, copy, fips) = Registry(region, data, fips)
    BY DEF Registry, here, there
  <2> QED BY <2>1, <2>2
<1>2. here = there <=> data.suffix \in {None, FallbackSuffix(region)}
  BY DEF ServicesDomain
<1> QED BY <1>1, <1>2

\* What a command resolved is what was asked for, and the newest of it, and a mirror leads
\* to upstream's image registry exactly where the region's name implies its DNS suffix
\* (ResolvedAsRequested), whatever upstream's manifests list.
THEOREM ResolvesWhatIsAsked == Spec => []ResolvedAsRequested
<1>1. MirrorInv => ResolvedAsRequested
  <2> SUFFICES ASSUME MirrorInv PROVE ResolvedAsRequested
    OBVIOUS
  <2>1. ASSUME NEW s \in Syncs, Resolved(s) PROVE FromUpstream(s)
    BY <2>1 DEF MirrorInv, CopiesInv, CopiesOf, FromUpstream
  <2>2. ASSUME NEW s \in Syncs, Resolved(s) PROVE AsRequested(sync[s].req, sync[s].src.eks)
    BY <2>1, <2>2, UpstreamResolves, ResolvedIsAsRequested DEF FromUpstream
  <2>3. ASSUME inst.pc # "none" \/ inst.last = "ok"
        PROVE  /\ AsRequested(inst.req, inst.src.eks)
               /\ \A j \in Matched(inst.req, inst.from) : inst.from.eks[j].date <= inst.src.eks.date
    <3>1. CanResolve(inst.req, inst.from) /\ inst.src = Source(inst.req, inst.from)
      BY <2>3 DEF MirrorInv, InstalledInv
    <3>2. Listing(inst.from)
      BY <2>3, <3>1, ManifestRead, UpstreamResolves, CustomIsListing
    <3>3. AsRequested(inst.req, inst.src.eks)
      BY <3>1, <3>2, ResolvedIsAsRequested
    <3>5. PICK i \in Matched(inst.req, inst.from) :
              /\ inst.src.eks = inst.from.eks[i]
              /\ \A j \in Matched(inst.req, inst.from) : inst.from.eks[j].date <= inst.from.eks[i].date
      BY <3>1, <3>2, ResolvedIsListed
    <3> QED BY <3>3, <3>5
  <2>4. ASSUME NEW m \in manifests, NEW fips \in BOOLEAN, m.eks # << >>
        PROVE  LET c == sync[m.by] IN
               (Registry(c.req.region, m.regions[c.req.region], fips) = Registry(c.req.region, c.src.region, fips))
                   <=> c.src.region.suffix \in {None, FallbackSuffix(c.req.region)}
    <3> DEFINE s == m.by
               region == sync[s].req.region
    <3>1. s \in Syncs /\ sync[s].pc = "done" /\ m = CustomManifest(s)
      BY <2>4 DEF MirrorInv, ManifestsInv, TruncatedManifest
    <3> HIDE DEF s
    <3>6. m.regions[region] = [account |-> sync[s].src.region.account, suffix |-> None]
      BY <3>1 DEF CustomManifest
    <3>7. (Registry(region, m.regions[region], fips) = Registry(region, sync[s].src.region, fips))
              <=> sync[s].src.region.suffix \in {None, FallbackSuffix(region)}
      BY <3>6, RegistryOfCopy
    <3> QED BY <3>7 DEF s
  <2> QED BY <2>2, <2>3, <2>4 DEF ResolvedAsRequested
<1> QED BY <1>1, ManifestNeverAheadOfCopies, PTL
-----------------------------------------------------------------------------
(* A complete mirror serves.                                               *)

\* Where an install from a complete mirror reads.
LEMMA ServedFrom ==
    ASSUME MirrorInv, inst.runs > 0, Mirrored(inst.from), inst.from.eks # << >>
    PROVE  /\ inst.req \in Requests /\ inst.from \in manifests /\ inst.from.by \in Syncs
           /\ sync[inst.from.by].pc = "done" /\ sync[inst.from.by].ts \in Seconds
           /\ inst.from = CustomManifest(inst.from.by) /\ FromUpstream(inst.from.by)
<1>1. inst.req \in Requests /\ inst.from \in manifests
  BY ReleaseMirrorAssumption DEF MirrorInv, InstalledInv, Mirrored, Published
<1>2. /\ inst.from.by \in Syncs /\ sync[inst.from.by].pc = "done"
      /\ inst.from = CustomManifest(inst.from.by)
  BY <1>1 DEF MirrorInv, ManifestsInv, TruncatedManifest
<1>3. PICK s \in Syncs : s = inst.from.by /\ sync[s].pc = "done"
  BY <1>2
<1>4. CopiesOf(s) /\ HasCopies(s) /\ Resolved(s) /\ sync[s].ts \in 0..now
  BY <1>3 DEF MirrorInv, CopiesInv, HasCopies, Resolved, TypeOK
<1>5. FromUpstream(s) /\ sync[s].ts # 0
  BY <1>4 DEF CopiesOf, FromUpstream
<1>6. sync[s].ts \in Seconds
  BY <1>5, KeyOfCopy DEF MirrorInv
<1> QED BY <1>1, <1>2, <1>3, <1>5, <1>6

\* The manifest of a mirror with a signing helper resolves the version it was made for.
LEMMA CompleteResolves ==
    ASSUME NEW s, FromUpstream(s), HasArtifact(sync[s].src.iam.artifacts, Helper, sync[s].req.arch)
    PROVE  CanResolve(sync[s].req, CustomManifest(s))
<1> DEFINE req == sync[s].req
           m == CustomManifest(s)
           r == sync[s].src.eks
<1>1. PICK u \in Range(Manifests) : CanResolve(req, u) /\ sync[s].src = Source(req, u)
  BY DEF FromUpstream
<1>2. PICK i \in Matched(req, u) : r = u.eks[i]
  BY <1>1, UpstreamResolves, ResolvedIsListed
<1>3. VersionMatches(req, r.version)
  BY <1>1 DEF CanResolve, Source
<1>4. /\ m.eks[1].mm = r.version.mm /\ m.eks[1].latest = r.patch /\ m.eks[1].patch = r.patch
      /\ m.eks[1].version = r.version /\ m.eks[1].date = r.date /\ req.region \in DOMAIN m.regions
  BY DEF CustomManifest
<1>5. Listing(m) /\ DOMAIN m.eks = {1}
  BY CustomIsListing
<1>6. m.iam # << >>
  <2>1. Copied(s, sync[s].src.iam.artifacts, {Helper}) # {}
    BY DEF HasArtifact, Copied
  <2> QED BY <2>1 DEF CustomManifest
<1>7. Matched(req, m) = {1}
  <2>1. req.patch # None => r.patch = req.patch
    BY <1>2 DEF Matched
  <2>2. r.version.mm = req.mm
    BY <1>3 DEF VersionMatches
  <2> HIDE DEF m, r, req
  <2> QED BY <1>4, <1>5, <2>1, <2>2 DEF Matched
<1>8. LatestDate(req, m) = m.eks[1]
  <2> DEFINE dates == [j \in DOMAIN m.eks |-> m.eks[j].date]
  <2>1. dates[1] \in Nat
    BY <1>5 DEF Listing, Range
  <2>2. FirstGreatest(Matched(req, m), dates) = 1
    <3> HIDE DEF dates
    <3>1. {1} \subseteq 1..1 /\ {1} # {} /\ \A j \in {1} : dates[j] \in Nat
      BY <2>1
    <3>2. FirstGreatest({1}, dates) \in {1}
      BY <3>1, GreatestIsFound
    <3> QED BY <1>7, <3>2
  <2> QED BY <2>2 DEF LatestDate
<1> HIDE DEF m, r, req
<1> QED BY <1>3, <1>4, <1>6, <1>7, <1>8 DEF CanResolve, m, req

\* Object and checksum of every artifact of a complete mirror are those of the release.
LEMMA CompleteDelivers ==
    ASSUME MirrorInv, Serves, inst.pc # "none", NEW name \in EksNames \cup {Helper},
           NEW copies \in {bucket, sums}
    PROVE  Delivered(name, copies) = {File(name, ReleaseOf(inst.src, name).version, HostArch)}
<1> DEFINE s == inst.from.by
           release == ReleaseOf(inst.src, name)
           a == ArtifactFor(release.artifacts, name, HostArch)
<1>1. /\ s \in Syncs /\ sync[s].pc = "done" /\ inst.from = CustomManifest(s) /\ FromUpstream(s)
      /\ sync[s].ts \in Seconds /\ ~Clash(s) /\ HostArch = sync[s].req.arch
      /\ HasArtifact(ReleaseOf(sync[s].src, name).artifacts, name, HostArch)
      /\ sums[SyncKey(s, name)] # {}
  BY ServedFrom DEF Serves, CompleteMirror
<1>2. CanResolve(inst.req, inst.from) /\ inst.src = Source(inst.req, inst.from)
  BY DEF MirrorInv, InstalledInv
<1> HIDE DEF s
<1>3. release.artifacts = Copied(s, ReleaseOf(sync[s].src, name).artifacts,
                                 IF name = Helper THEN {Helper} ELSE EksNames)
  <2>1. CanResolve(inst.req, CustomManifest(s)) /\ inst.src = Source(inst.req, CustomManifest(s))
    BY <1>1, <1>2
  <2>2. /\ inst.src.eks.artifacts = Copied(s, sync[s].src.eks.artifacts, EksNames)
        /\ inst.src.iam.artifacts = Copied(s, sync[s].src.iam.artifacts, {Helper})
    <3>1. FromUpstream(s)
      BY <1>1
    <3> QED BY <2>1, <3>1, CustomResolves
  <2> QED BY <2>2 DEF ReleaseOf
<1>4. HasArtifact(release.artifacts, name, HostArch)
  <2>1. PICK x \in ReleaseOf(sync[s].src, name).artifacts : x.name = name /\ x.arch = HostArch
    BY <1>1 DEF HasArtifact
  <2>2. [name |-> x.name, arch |-> x.arch, uri |-> sync[s].ts] \in release.artifacts
    <3> HIDE DEF release
    <3> QED BY <1>1, <1>3, <2>1 DEF Copied
  <2> HIDE DEF release
  <2> QED BY <2>1, <2>2 DEF HasArtifact
<1>5. a.uri = sync[s].ts
  <2>1. a \in release.artifacts
    BY <1>4, ArtifactIsListed
  <2> HIDE DEF a, release
  <2> QED BY <1>3, <2>1 DEF Copied
<1>6. a.uri # None
  BY <1>1, <1>5, ReleaseMirrorAssumption
<1>7. bucket[SyncKey(s, name)] # {}
  <2>1. PICK i \in DOMAIN SyncOrder : SyncOrder[i] = name
    BY SyncOrderNames DEF Names
  <2>2. sync[s].todo = {} /\ HasCopies(s) /\ CopiesOf(s)
    BY <1>1 DEF MirrorInv, ManifestsInv, CopiesInv, HasCopies
  <2>3. Collected(sync[s], name) /\ Streamed(s, i)
    BY <1>1, <2>2 DEF Collected, Streamed
  <2> QED BY <2>1, <2>2, <2>3 DEF CopiesOf
<1>8. name # SetupCli
  BY ReleaseMirrorAssumption DEF Helper, SetupCli
<1>9. Delivered(name, copies) = copies[SyncKey(s, name)]
  BY <1>4, <1>5, <1>6, <1>8 DEF Delivered, SyncKey
<1>10. Delivered(name, copies) # {}
  BY <1>1, <1>7, <1>9
<1>11. Delivered(name, copies) \subseteq {File(name, release.version, HostArch)}
  BY <1>1, DeliveredIsRelease DEF s
<1> HIDE DEF release, a
<1> QED BY <1>10, <1>11 DEF release

\* An install does not become one from a complete mirror by what a sync command does.
LEMMA ServedBefore ==
    ASSUME MirrorInv, NEW t \in Syncs, SyncStep(t), Serves'
    PROVE  Serves
<1>1. SyncKeeps(t) /\ CommandsKept(t) /\ ObjectsKept(t) /\ inst' = inst
  BY SyncStepKeeps DEF SyncKeeps
<1>2. /\ inst.runs > 0 /\ ~inst.faulty /\ Mirrored(inst.from) /\ inst.from.eks # << >>
      /\ HostArch = sync'[inst.from.by].req.arch /\ inst.req = sync'[inst.from.by].req
      /\ CompleteMirror(inst.from)'
  BY <1>1 DEF Serves, Mirrored, CompleteMirror
<1>3. PICK s \in Syncs : s = inst.from.by /\ sync[s].pc = "done" /\ sync[s].ts \in Seconds
  BY <1>2, ServedFrom
<1>4. sync'[s] = sync[s] /\ sync[s].ts # 0
  BY <1>1, <1>3 DEF CommandsKept, Seconds
<1>5. /\ ~Clash(s)'
      /\ \A n \in EksNames \cup {Helper} :
             /\ HasArtifact(ReleaseOf(sync'[s].src, n).artifacts, n, sync'[s].req.arch)
             /\ sums'[SyncKey(s, n)'] # {}
  <2>1. inst'.from.by = s
    BY <1>1, <1>3
  <2>2. ~Clash(s)'
    BY <1>2, <2>1 DEF CompleteMirror, Clash
  <2>3. ASSUME NEW n \in EksNames \cup {Helper}
        PROVE  /\ HasArtifact(ReleaseOf(sync'[s].src, n).artifacts, n, sync'[s].req.arch)
               /\ sums'[SyncKey(s, n)'] # {}
    BY <1>2, <2>1 DEF CompleteMirror, SyncKey
  <2> QED BY <2>2, <2>3
<1>6. ~Clash(s) /\ (t # s => sync[t].ts # sync[s].ts)
  BY <1>1, <1>4, <1>5, ClashStays DEF Clash
<1>7. t # s
  BY <1>1, <1>3 DEF CommandsKept
<1>8. ASSUME NEW n \in EksNames \cup {Helper} PROVE sums[SyncKey(s, n)] # {}
  <2>1. SyncKey(s, n)' = SyncKey(s, n) /\ SyncKey(s, n) \in Keys /\ SyncKey(s, n)[1] = sync[s].ts
    BY <1>3, <1>4 DEF SyncKey, Keys, Names
  <2> QED BY <1>1, <1>5, <1>6, <1>7, <2>1 DEF ObjectsKept
<1>9. CompleteMirror(inst.from)
  BY <1>2, <1>3, <1>4, <1>5, <1>6, <1>8 DEF CompleteMirror
<1>10. inst.provider = "ssm" => FallbackSuffix(inst.req.region) = inst.req.region.suffix
  BY <1>1 DEF Serves
<1> QED BY <1>2, <1>3, <1>4, <1>9, <1>10 DEF Serves

\* The inductive invariant behind it: every copy fits its checksum at once, and an attempt
\* at the agent's installer fails only for a publication between its two requests.
ServingInv == Serves =>
    /\ inst.last # "error"
    /\ \A i \in inst.todo : inst.pc # "none" /\ IsFirst(i, inst.todo) =>
          LET name == InstallOrder(inst.provider)[i] IN
          /\ name = SetupCli /\ inst.pc = "fetch" => Attempts < inst.left + ssmLatest
          /\ name = SetupCli /\ inst.pc = "verify" =>
                \E v \in 1..ssmLatest : /\ Attempts < inst.left + v
                                        /\ inst.stream = {File(SetupCli, v, HostArch)}
          /\ name # SetupCli /\ inst.pc = "verify" =>
                inst.stream = {File(name, ReleaseOf(inst.src, name).version, HostArch)}

\* A step of an install that has begun leaves alone what it installs from.
LEMMA ServedAfter ==
    ASSUME MirrorInv, UNCHANGED mirror, Serves', ~inst'.faulty => ~inst.faulty,
           inst'.req = inst.req, inst'.provider = inst.provider, inst'.from = inst.from,
           inst'.runs = inst.runs
    PROVE  Serves
<1>1. sync' = sync /\ sums' = sums
  BY DEF mirror
<1>2. CompleteMirror(inst.from)' <=> CompleteMirror(inst.from)
  BY <1>1 DEF CompleteMirror, Clash, SyncKey
<1> QED BY <1>1, <1>2 DEF Serves, Mirrored

\* What the public URL of the region delivers of the agent's installer.
LEMMA InstallerDelivered ==
    ASSUME MirrorInv, Serves, inst.provider = "ssm", inst.pc # "none", NEW copies
    PROVE  Delivered(SetupCli, copies) = {File(SetupCli, ssmLatest, HostArch)}
<1>1. /\ inst.req \in Requests /\ inst.from = CustomManifest(inst.from.by) /\ FromUpstream(inst.from.by)
  BY ServedFrom DEF Serves, CompleteMirror
<1>2. CanResolve(inst.req, inst.from) /\ inst.src = Source(inst.req, inst.from)
  BY DEF MirrorInv, InstalledInv
<1>3. inst.src.region.suffix = None
  <2>1. PICK s : s = inst.from.by
    OBVIOUS
  <2>2. FromUpstream(s)
    BY <1>1, <2>1
  <2>3. CanResolve(inst.req, CustomManifest(s)) /\ inst.src = Source(inst.req, CustomManifest(s))
    BY <1>1, <1>2, <2>1
  <2> QED BY <2>2, <2>3, CustomResolves
<1> QED BY <1>3 DEF Delivered, ServicesDomain, Serves

LEMMA ServingKept ==
    ASSUME MaxSsm <= Attempts, MirrorInv, ServingInv, [Next]_vars
    PROVE  ServingInv'
<1> SUFFICES ASSUME Serves' PROVE ServingInv'
  BY DEF ServingInv
<1>1. CASE Publish \/ PublishSsm \/ Tick \/ UNCHANGED vars
  <2>1. UNCHANGED mirror /\ inst' = inst /\ ssmLatest' \in {ssmLatest, ssmLatest + 1} /\ ssmLatest \in Nat
    BY <1>1 DEF Publish, PublishSsm, Tick, vars, origin, MirrorInv, TypeOK
  <2>2. Serves
    BY <2>1, ServedAfter
  <2>3. ASSUME NEW i \in inst.todo, inst.pc # "none", IsFirst(i, inst.todo),
               InstallOrder(inst.provider)[i] = SetupCli
        PROVE  /\ inst.pc = "fetch" => Attempts < inst.left + ssmLatest'
               /\ inst.pc = "verify" =>
                     \E v \in 1..ssmLatest' : /\ Attempts < inst.left + v
                                              /\ inst.stream = {File(SetupCli, v, HostArch)}
    <3>1. Attempts \in Nat /\ inst.left \in Nat
      BY ReleaseMirrorAssumption DEF MirrorInv, TypeOK
    <3>2. /\ inst.pc = "fetch" => Attempts < inst.left + ssmLatest
          /\ inst.pc = "verify" =>
                \E v \in 1..ssmLatest : /\ Attempts < inst.left + v
                                        /\ inst.stream = {File(SetupCli, v, HostArch)}
      BY <2>2, <2>3 DEF ServingInv
    <3>3. 1..ssmLatest \subseteq 1..ssmLatest'
      BY <2>1
    <3>4. inst.pc = "fetch" => Attempts < inst.left + ssmLatest'
      BY <2>1, <3>1, <3>2
    <3> QED BY <3>2, <3>3, <3>4
  <2> QED BY <2>1, <2>2, <2>3 DEF ServingInv
<1>2. ASSUME NEW t \in Syncs, SyncStep(t) PROVE ServingInv'
  <2>1. Serves /\ inst' = inst /\ ssmLatest' = ssmLatest
    BY <1>2, ServedBefore, SyncStepKeeps DEF SyncKeeps, origin
  <2> QED BY <2>1 DEF ServingInv
<1>3. ASSUME NEW req \in Requests, NEW provider \in {"ssm", "iam-ra"},
             NEW from \in manifests \cup {Manifests[upstream]}, StartInstall(req, provider, from)
      PROVE  ServingInv'
  <2>1. UNCHANGED mirror /\ sync' = sync /\ ssmLatest' = ssmLatest
    BY <1>3 DEF StartInstall, mirror, origin
  <2>2. CASE CanResolve(req, from)
    <3>1. inst'.pc = "fetch" /\ inst'.left = Attempts /\ inst'.last = "none"
      BY <1>3, <2>2 DEF StartInstall, NoInstall
    <3>2. Attempts < Attempts + ssmLatest
      BY ReleaseMirrorAssumption DEF MirrorInv, TypeOK
    <3> QED BY <2>1, <3>1, <3>2 DEF ServingInv
  <2>3. CASE ~CanResolve(req, from)
    <3>1. inst'.req = req /\ inst'.from = from
      BY <1>3, <2>3 DEF StartInstall, NoInstall
    <3>2. PICK s : s = from.by
      OBVIOUS
    <3>3. /\ Mirrored(from) /\ from.eks # << >> /\ req = sync[s].req
          /\ HasArtifact(sync[s].src.iam.artifacts, Helper, sync[s].req.arch)
      BY <2>1, <3>1, <3>2 DEF Serves, Mirrored, CompleteMirror, ReleaseOf
    <3>4. from \in manifests
      <4>1. Manifests[upstream] \in Range(Manifests)
        BY DEF MirrorInv, TypeOK, Range
      <4>2. Manifests[upstream].by = None
        BY <4>1, ReleaseMirrorAssumption DEF Published
      <4> QED BY <3>3, <4>2 DEF Mirrored
    <3>5. s \in Syncs /\ sync[s].pc = "done" /\ from = CustomManifest(s)
      BY <3>2, <3>3, <3>4 DEF MirrorInv, ManifestsInv, TruncatedManifest
    <3>6. FromUpstream(s)
      BY <3>5 DEF MirrorInv, CopiesInv, CopiesOf, Resolved, FromUpstream
    <3>7. CanResolve(sync[s].req, CustomManifest(s))
      BY <3>3, <3>6, CompleteResolves
    <3> QED BY <2>3, <3>3, <3>5, <3>7
  <2> QED BY <2>2, <2>3
<1>4. ASSUME NEW i \in inst.todo, Fetch(i) PROVE ServingInv'
  <2> DEFINE name == InstallOrder(inst.provider)[i]
             delivered == Delivered(name, bucket)
  <2>1. inst.pc = "fetch" /\ IsFirst(i, inst.todo) /\ UNCHANGED mirror /\ ssmLatest' = ssmLatest
    BY <1>4 DEF Fetch, origin
  <2>2. \/ delivered = {} /\ Failed(inst.faulty)
        \/ /\ delivered # {}
           /\ inst' = Install("verify", inst.todo, delivered, inst.left, inst.faulty, inst.last)
    BY <1>4, InstallAfter DEF MirrorInv
  <2>3. /\ inst'.faulty = inst.faulty /\ inst'.req = inst.req /\ inst'.from = inst.from
        /\ inst'.runs = inst.runs /\ inst'.provider = inst.provider
    BY <2>2 DEF Failed, Install
  <2>4. Serves
    BY <2>1, <2>3, ServedAfter
  <2>5. name \in EksNames \cup {Helper, SetupCli} /\ inst.todo \subseteq Nat
    BY <2>1, InstallBegun, InstallOrderNames DEF Credential
  <2>6. /\ name = SetupCli => delivered = {File(SetupCli, ssmLatest, HostArch)}
        /\ name # SetupCli => delivered = {File(name, ReleaseOf(inst.src, name).version, HostArch)}
    <3>1. name = SetupCli => inst.provider = "ssm"
      BY <2>1, InstallBegun, InstallerOfSsm
    <3> QED BY <2>1, <2>4, <2>5, <3>1, InstallerDelivered, CompleteDelivers
  <2>7. inst' = Install("verify", inst.todo, delivered, inst.left, inst.faulty, inst.last)
    <3> HIDE DEF name, delivered
    <3> QED BY <2>2, <2>6
  <2>8. /\ inst'.pc = "verify" /\ inst'.todo = inst.todo /\ inst'.stream = delivered
        /\ inst'.left = inst.left /\ inst'.last = inst.last /\ inst'.provider = inst.provider
        /\ inst'.src = inst.src
    BY <2>7 DEF Install
  <2>9. ASSUME NEW j \in inst.todo, IsFirst(j, inst.todo) PROVE j = i
    BY <2>1, <2>5, <2>9 DEF IsFirst
  <2>10. name = SetupCli => ssmLatest \in 1..ssmLatest /\ Attempts < inst.left + ssmLatest
    BY <2>1, <2>4 DEF ServingInv, MirrorInv, TypeOK
  <2>11. inst.last # "error"
    BY <2>4 DEF ServingInv
  <2> HIDE DEF delivered
  <2> QED BY <2>1, <2>6, <2>8, <2>9, <2>10, <2>11 DEF ServingInv
<1>5. ASSUME NEW i \in inst.todo, Verify(i) PROVE ServingInv'
  <2> DEFINE name == InstallOrder(inst.provider)[i]
             expected == Delivered(name, sums)
  <2>1. inst.pc = "verify" /\ IsFirst(i, inst.todo) /\ UNCHANGED mirror /\ ssmLatest' = ssmLatest
    BY <1>5 DEF Verify, origin
  <2>2. \/ expected # inst.stream /\ Failed(inst.faulty)
        \/ /\ expected = inst.stream
           /\ inst' = Install("fetch", inst.todo \ {i}, {}, Attempts, inst.faulty, inst.last)
    BY <1>5, InstallAfter DEF MirrorInv
  <2>3. /\ inst'.faulty = inst.faulty /\ inst'.req = inst.req /\ inst'.from = inst.from
        /\ inst'.runs = inst.runs /\ inst'.provider = inst.provider
    BY <2>2 DEF Failed, Install
  <2>4. Serves /\ inst.last # "error"
    BY <2>1, <2>3, ServedAfter DEF ServingInv
  <2>5. name \in EksNames \cup {Helper, SetupCli} /\ inst.todo \subseteq Nat
    BY <2>1, InstallBegun, InstallOrderNames DEF Credential
  <2>6. /\ Attempts \in Nat /\ inst.left \in Nat /\ ssmLatest \in 1..MaxSsm /\ MaxSsm \in Nat
    BY ReleaseMirrorAssumption DEF MirrorInv, TypeOK
  <2>7. CASE inst' = Install("fetch", inst.todo \ {i}, {}, Attempts, inst.faulty, inst.last)
    <3>1. inst'.pc = "fetch" /\ inst'.left = Attempts /\ inst'.last = inst.last
      BY <2>7 DEF Install
    <3>2. Attempts < Attempts + ssmLatest
      BY <2>6
    <3> QED BY <2>1, <2>4, <3>1, <3>2 DEF ServingInv
  <2>8. CASE expected # inst.stream /\ Failed(inst.faulty)
    <3>1. CASE name # SetupCli
      <4>1. expected = {File(name, ReleaseOf(inst.src, name).version, HostArch)}
        BY <2>1, <2>4, <2>5, <3>1, CompleteDelivers
      <4>2. inst.stream = {File(name, ReleaseOf(inst.src, name).version, HostArch)}
        BY <2>1, <2>4, <3>1 DEF ServingInv
      <4> QED BY <2>8, <4>1, <4>2
    <3>2. CASE name = SetupCli
      <4>1. expected = {File(SetupCli, ssmLatest, HostArch)}
        BY <2>1, <2>4, <3>2, InstallBegun, InstallerOfSsm, InstallerDelivered
      <4>2. PICK v \in 1..ssmLatest : Attempts < inst.left + v /\ inst.stream = {File(SetupCli, v, HostArch)}
        BY <2>1, <2>4, <3>2 DEF ServingInv
      <4>3. v # ssmLatest
        BY <2>8, <4>1, <4>2
      <4>4. inst.left > 1 /\ Attempts < (inst.left - 1) + ssmLatest
        BY <2>6, <4>2, <4>3
      <4>5. inst' = Install("fetch", inst.todo, {}, inst.left - 1, inst.faulty, inst.last)
        BY <2>8, <4>4 DEF Failed
      <4>6. inst'.pc = "fetch" /\ inst'.left = inst.left - 1 /\ inst'.last = inst.last
        BY <4>5 DEF Install
      <4> QED BY <2>1, <2>4, <4>4, <4>6 DEF ServingInv
    <3> QED BY <3>1, <3>2
  <2> HIDE DEF expected
  <2> QED BY <2>2, <2>7, <2>8
<1>6. ASSUME NEW i \in inst.todo, AttemptBreaks(i) PROVE ServingInv'
  <2>1. Failed(TRUE)
    BY <1>6, InstallAfter DEF MirrorInv
  <2>2. inst'.faulty = TRUE
    BY <2>1 DEF Failed, Install
  <2> QED BY <2>2 DEF Serves
<1>7. CASE InstallDone
  <2>1. inst' = Install("none", inst.todo, inst.stream, inst.left, inst.faulty, "ok")
    BY <1>7, InstallAfter DEF MirrorInv
  <2>2. inst'.pc = "none" /\ inst'.last = "ok"
    BY <2>1 DEF Install
  <2> QED BY <2>2 DEF ServingInv
<1> QED BY <1>1, <1>2, <1>3, <1>4, <1>5, <1>6, <1>7 DEF Next, InstallStep

\* An install from a complete mirror does not end in an error (CompleteMirrorInstalls), with
\* fewer publications of the agent's installer than attempts.
THEOREM CompleteMirrorServes ==
    ASSUME MaxSsm <= Attempts
    PROVE  Spec => []CompleteMirrorInstalls
<1>1. Init => ServingInv
  BY DEF Init, NoInstall, ServingInv, Serves
<1>2. MirrorInv /\ ServingInv /\ [Next]_vars => ServingInv'
  BY ServingKept
<1>3. ServingInv => CompleteMirrorInstalls
  BY DEF ServingInv, CompleteMirrorInstalls
<1> QED BY <1>1, <1>2, <1>3, ManifestNeverAheadOfCopies, PTL DEF Spec
=============================================================================
