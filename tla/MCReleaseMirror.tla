-------------------------- MODULE MCReleaseMirror --------------------------
(***************************************************************************)
(* Small instances of ReleaseMirror: one EKS artifact and the signing      *)
(* helper, two upstream manifests (the first without a helper for one      *)
(* architecture, the second with a newer, a rebuilt and a misfiled         *)
(* release, and an older patch listed as latest, too), a region without an *)
(* account and one whose DNS suffix its name does not imply, two sync      *)
(* commands and one install.                                               *)
(***************************************************************************)
EXTENDS ReleaseMirror, TLC

IsoE == [name |-> "eu-isoe-west-1", prefix |-> "eu-isoe-", suffix |-> "cloud.adc-e.uk"]
China == [name |-> "cn-north-1", prefix |-> "cn-", suffix |-> "amazonaws.com.cn"]

MCEksOrder == <<"kubelet">>

\* Version n of the helper or of a patch release, for the given architectures.
Artifacts(name, archs) == {[name |-> name, arch |-> a, uri |-> None] : a \in archs}
EksRelease(mm, latest, patch, build, version) ==
    [mm |-> mm, latest |-> latest, patch |-> patch, date |-> build, version |-> version,
     artifacts |-> Artifacts("kubelet", {"amd64", "arm64"})]
Version(mm, patch, build) == [mm |-> mm, patch |-> patch, build |-> build]
AllRegions == [r \in {IsoE, China} |-> [account |-> IF r = China THEN None ELSE r.name, suffix |-> r.suffix]]

FirstManifest ==
    [eks |-> <<EksRelease(31, 1, 1, 1, Version(31, 1, 1))>>,
     iam |-> <<[version |-> 1, v |-> FALSE, artifacts |-> Artifacts(Helper, {"amd64"})]>>,
     regions |-> AllRegions, by |-> None]

SecondManifest ==
    [eks |-> <<EksRelease(31, 2, 2, 1, Version(31, 2, 1)), EksRelease(31, 2, 2, 2, Version(31, 2, 2)),
               EksRelease(31, 2, 2, 1, Version(31, 2, 3)),
               EksRelease(31, 2, 1, 1, Version(31, 3, 1)), EksRelease(31, 1, 1, 1, Version(31, 1, 2))>>,
     iam |-> <<[version |-> 2, v |-> TRUE, artifacts |-> Artifacts(Helper, {"amd64", "arm64"})]>>,
     regions |-> AllRegions, by |-> None]

MCManifests == <<FirstManifest, SecondManifest>>
MCRequests ==
    {[mm |-> 31, patch |-> None, region |-> China, arch |-> "amd64"],
     [mm |-> 31, patch |-> 1, region |-> IsoE, arch |-> "arm64"]}

\* Not explored: what happens once the install has ended, and an install from upstream
\* beside a sync command. Neither command then reads what the other one writes.
Related ==
    /\ inst.last = "none"
    /\ inst.pc # "none" /\ inst.from.by = None => \A s \in Syncs : sync[s].pc = "idle"

SyncSymmetry == Permutations(Syncs)
=============================================================================
