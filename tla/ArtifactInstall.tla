-------------------------- MODULE ArtifactInstall --------------------------
(***************************************************************************)
(* internal/artifact and the install.go files that use it: how one EKS     *)
(* artifact gets onto the disk, is verified, retried, upgraded in place    *)
(* and, for the CNI plugins, unpacked. A file is removed, written at its   *)
(* final path and only then verified, so failures and kills leave anything *)
(* behind; what matters is what the next command makes of it.              *)
(***************************************************************************)
EXTENDS Naturals

CONSTANTS
    Versions,   \* the versions of the artifact a release manifest may name
    Members     \* the files that an archive of some version has

Bad == {"missing", "partial", "corrupt"}

ASSUME ArtifactInstallAssumption == Versions \cap Bad = {}

VARIABLES
    isArchive,  \* the artifact is an archive (the CNI plugins), not a single file
    archive,  \* the members of each version's archive
    disk,     \* the file at the artifact's path (for an archive, at TgzPath)
    plugins,  \* the unpacked members
    op,       \* the running command
    want,     \* the version its Source delivers the checksum of
    stream,   \* what the open Source delivers
    left,     \* attempts left, this one included
    todo,     \* members still to be unpacked
    pc,       \* the command's next step
    last,     \* how the last command ended
    unpacked  \* history: the versions unpacked, if only in part, since the last removal

vars == <<isArchive, archive, disk, plugins, op, want, stream, left, todo, pc, last, unpacked>>
kind == <<isArchive, archive>>
request == <<op, want, kind>>

Contents == Versions \cup Bad

\* The loops `for range 3`; Upgrade of a single file has no loop.
Attempts == 3

TypeOK ==
    /\ isArchive \in BOOLEAN /\ archive \in [Versions -> SUBSET Members]
    /\ disk \in Contents /\ stream \in Contents
    /\ plugins \in [Members -> Contents]
    /\ op \in {"idle", "install", "upgrade"}
    /\ want \in Versions
    /\ left \in 0..Attempts
    /\ todo \in SUBSET Members
    /\ pc \in {"none", "fetch", "match", "remove", "write", "verify", "extract"}
    /\ last \in {"none", "ok", "error", "removed"}
    /\ unpacked \in SUBSET Versions

Init ==
    /\ isArchive \in BOOLEAN /\ archive \in [Versions -> SUBSET Members]
    /\ isArchive \/ archive = [v \in Versions |-> {}]
    /\ disk = "missing" /\ stream = "missing"
    /\ plugins = [m \in Members |-> "missing"]
    /\ op = "idle" /\ want \in Versions
    /\ left = 0 /\ todo = {}
    /\ pc = "none" /\ last = "none" /\ unpacked = {}

Return(result) == op' = "idle" /\ pc' = "none" /\ last' = result /\ UNCHANGED <<left, want, kind>>

AttemptFailedNoLimit ==  \* mutant: a loop without its count
    pc' = "fetch" /\ UNCHANGED <<request, left, last>>

\* downloadFileWithRetries, or the error that Upgrade returns.
AttemptFailed ==
    IF left > 1
    THEN left' = left - 1 /\ pc' = "fetch" /\ UNCHANGED <<request, last>>
    ELSE Return("error")

-----------------------------------------------------------------------------
\* Install or Upgrade; the upgrade of an archive is another installation.
Start(o, v) ==
    /\ op = "idle"
    /\ op' = o /\ want' = v /\ pc' = "fetch"
    /\ left' = IF o = "upgrade" /\ ~isArchive THEN 1 ELSE Attempts
    /\ UNCHANGED <<kind, disk, plugins, stream, todo, last, unpacked>>

\* Source.Get*: the stream and, from a file of its own, the expected checksum.
Fetch ==
    /\ pc = "fetch"
    /\ stream' \in {want, "corrupt", "partial"}
    /\ pc' = IF op = "upgrade" /\ ~isArchive THEN "match" ELSE "remove"
    /\ UNCHANGED <<disk, plugins, request, left, todo, last, unpacked>>

FetchFails ==
    /\ pc = "fetch"
    /\ AttemptFailed
    /\ UNCHANGED <<disk, plugins, stream, todo, unpacked>>

ChecksumMatchNever ==  \* mutant: the installed file is always replaced
    /\ pc = "match"
    /\ pc' = "remove"
    /\ UNCHANGED <<disk, plugins, request, stream, left, todo, last, unpacked>>

\* checksumMatch: a file that is not there or cannot be read is an error, the wanted
\* file is left alone.
ChecksumMatch ==
    /\ pc = "match"
    /\ \/ Return("error")
       \/ disk = want /\ Return("ok")
       \/ disk \notin {"missing", want} /\ pc' = "remove" /\ UNCHANGED <<request, left, last>>
    /\ UNCHANGED <<disk, plugins, stream, todo, unpacked>>

\* InstallFile: RemoveAll, then the copy.
Remove ==
    /\ pc = "remove"
    /\ disk' = "missing" /\ pc' = "write"
    /\ UNCHANGED <<plugins, request, stream, left, todo, last, unpacked>>

Write ==
    /\ pc = "write"
    /\ disk' = stream /\ pc' = "verify"
    /\ UNCHANGED <<plugins, request, stream, left, todo, last, unpacked>>

InstallFileFails ==
    /\ pc \in {"remove", "write"}
    /\ disk' \in IF pc = "remove" THEN {disk} ELSE {disk, "partial"}
    /\ AttemptFailed
    /\ UNCHANGED <<plugins, stream, todo, unpacked>>

VerifyChecksumNop ==  \* mutant: nopChecksumVerifier for every source
    /\ pc = "verify"
    /\ IF isArchive
       THEN pc' = "extract" /\ todo' = archive[want] /\ UNCHANGED <<request, left, last>>
       ELSE Return("ok") /\ UNCHANGED todo
    /\ UNCHANGED <<disk, plugins, stream, unpacked>>

\* VerifyChecksum: the digest of what was read against the manifest's.
VerifyChecksum ==
    /\ pc = "verify"
    /\ \/ stream # want /\ AttemptFailed /\ UNCHANGED todo
       \/ stream = want /\ ~isArchive /\ Return("ok") /\ UNCHANGED todo
       \/ /\ stream = want /\ isArchive
          /\ pc' = "extract" /\ todo' = archive[want] /\ UNCHANGED <<request, left, last>>
    /\ UNCHANGED <<disk, plugins, stream, unpacked>>

\* InstallTarGz: each member over the one that is there, then the archive goes. A
\* plugin that this archive does not have stays, in whatever state it is.
Extract(m) ==
    /\ pc = "extract" /\ m \in todo
    /\ plugins' = [plugins EXCEPT ![m] = disk]
    /\ unpacked' = unpacked \cup {want}
    /\ todo' = todo \ {m}
    /\ UNCHANGED <<disk, request, stream, left, pc, last>>

\* There is no retry around the extraction.
ExtractFails(m) ==
    /\ pc = "extract" /\ m \in todo
    /\ plugins' \in {plugins, [plugins EXCEPT ![m] = "partial"]}
    /\ unpacked' = unpacked \cup {want}
    /\ Return("error")
    /\ UNCHANGED <<disk, stream, todo>>

RemoveArchive ==
    /\ pc = "extract" /\ todo = {}
    /\ \/ disk' = "missing" /\ Return("ok")
       \/ UNCHANGED disk /\ Return("error")
    /\ UNCHANGED <<plugins, stream, todo, unpacked>>

\* Uninstall: RemoveAll of the file, or of the archive and all plugins. One that fails
\* has removed some of it.
Uninstall ==
    /\ op = "idle"
    /\ disk' = "missing" /\ plugins' = [m \in Members |-> "missing"] /\ unpacked' = {}
    /\ last' = "removed"
    /\ UNCHANGED <<request, stream, left, todo, pc>>

UninstallFails ==
    /\ op = "idle"
    /\ disk' \in {disk, "missing"}
    /\ \E gone \in SUBSET Members :
           plugins' = [m \in Members |-> IF m \in gone THEN "missing" ELSE plugins[m]]
    /\ last' = "error"
    /\ UNCHANGED <<request, stream, left, todo, pc, unpacked>>

\* The process is killed between two steps or during the copy.
Kill ==
    /\ op # "idle"
    /\ disk' \in IF pc = "write" THEN {disk, "partial"} ELSE {disk}
    /\ Return("error")
    /\ UNCHANGED <<plugins, stream, todo, unpacked>>

Command ==
    \/ Fetch \/ FetchFails \/ ChecksumMatch
    \/ Remove \/ Write \/ InstallFileFails \/ VerifyChecksum
    \/ \E m \in Members : Extract(m) \/ ExtractFails(m)
    \/ RemoveArchive

Next ==
    \/ \E o \in {"install", "upgrade"}, v \in Versions : Start(o, v)
    \/ Command
    \/ Kill \/ Uninstall \/ UninstallFails

Spec == Init /\ [][Next]_vars

\* A command that runs takes its next step: downloads end, if only with an error.
FairSpec == Spec /\ WF_vars(Command)

-----------------------------------------------------------------------------
(* Properties                                                              *)

\* A command that reports success has put the version of its manifest on the disk,
\* all of it, whatever earlier commands that failed or were killed left there: a
\* half-written binary is never taken for an installed one, and no member of the
\* wanted archive is another release's. What the wanted archive does not have is
\* another matter: InstallTarGz only overwrites and cni.Upgrade does not remove first,
\* so a plugin that the new release dropped, even a half-written one, stays behind a
\* nil until the next uninstall. Nothing else does: every file there is a member of
\* some version unpacked since then, so a first install leaves exactly its archive.
OkMeansInstalled ==
    (op = "idle" /\ last = "ok") =>
        IF isArchive
        THEN /\ \A m \in archive[want] : plugins[m] = want
             /\ \A m \in Members :
                    plugins[m] # "missing" => \E v \in unpacked : m \in archive[v]
        ELSE disk = want

\* The inductive invariant behind it and behind UpToDateIsUntouched: an upgrade
\* removes only a file that is not the wanted one, the file that is verified is the
\* stream that was read, only a verified archive is unpacked, and the members that
\* are done have its version.
InstallInv ==
    /\ TypeOK
    /\ op = "idle" <=> pc = "none"
    /\ (pc = "remove" /\ op = "upgrade" /\ ~isArchive) => disk # want
    /\ pc = "write" => disk = "missing"
    /\ pc = "verify" => disk = stream
    /\ pc = "extract" =>
           /\ isArchive /\ disk = want /\ todo \subseteq archive[want]
           /\ \A m \in archive[want] \ todo : plugins[m] = want
    /\ pc = "match" => ~isArchive
    /\ \A m \in Members :
           plugins[m] # "missing" => \E v \in unpacked : m \in archive[v]
    /\ OkMeansInstalled

\* An upgrade to the version that is already installed does not touch the file, so
\* repeating an upgrade that stopped at a later artifact never puts the ones it has
\* done at risk.
UpToDateIsUntouched ==
    [][(op = "upgrade" /\ ~isArchive /\ disk = want) => disk' = disk]_vars

\* Every command returns, after three attempts at most: downloads that fail again
\* and again, bad checksums included, do not keep an install going.
CommandReturns == op # "idle" ~> op = "idle"
=============================================================================
