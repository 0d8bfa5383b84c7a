----------------------- MODULE ArtifactInstallProofs -----------------------
(***************************************************************************)
(* For any set of versions and any archive, and any number of commands     *)
(* that fail or are killed anywhere: success means the artifact is there,  *)
(* and an upgrade leaves an artifact that is up to date alone.             *)
(***************************************************************************)
EXTENDS ArtifactInstall, TLAPS

LEMMA BadIsNoVersion == \A v \in Versions : v \notin Bad
BY ArtifactInstallAssumption

\* Every step of a command, and killing it anywhere, keeps InstallInv.
LEMMA InstallInvInductive ==
    ASSUME InstallInv, [Next]_vars PROVE InstallInv'
<1>0. InstallInv
  OBVIOUS
<1>u. USE <1>0, BadIsNoVersion
      DEF InstallInv, TypeOK, Contents, Bad, Attempts, request, kind, OkMeansInstalled
<1>1. ASSUME NEW o \in {"install", "upgrade"}, NEW v \in Versions, Start(o, v) PROVE InstallInv'
  BY <1>1 DEF Start
<1>2. CASE Fetch
  BY <1>2 DEF Fetch
<1>3. CASE FetchFails
  BY <1>3 DEF FetchFails, AttemptFailed, Return
<1>4. CASE ChecksumMatch
  BY <1>4 DEF ChecksumMatch, Return
<1>5. CASE Remove
  BY <1>5 DEF Remove
<1>6. CASE Write
  BY <1>6 DEF Write
<1>7. CASE InstallFileFails
  BY <1>7 DEF InstallFileFails, AttemptFailed, Return
<1>8. CASE VerifyChecksum
  BY <1>8 DEF VerifyChecksum, AttemptFailed, Return
<1>9. ASSUME NEW m \in Members, Extract(m) PROVE InstallInv'
  BY <1>9 DEF Extract
<1>10. ASSUME NEW m \in Members, ExtractFails(m) PROVE InstallInv'
  BY <1>10 DEF ExtractFails, Return
<1>11. CASE RemoveArchive
  BY <1>11 DEF RemoveArchive, Return
<1>12. CASE Kill
  BY <1>12 DEF Kill, Return
<1>13. CASE UNCHANGED vars
  BY <1>13 DEF vars
<1>14. CASE Uninstall
  BY <1>14 DEF Uninstall
<1>15. CASE UninstallFails
  BY <1>15 DEF UninstallFails
<1> QED
  BY <1>1, <1>2, <1>3, <1>4, <1>5, <1>6, <1>7, <1>8, <1>9, <1>10, <1>11, <1>12, <1>13, <1>14, <1>15
  DEF Next, Command

\* The inductive invariant, for any versions and archive members: an upgrade removes
\* only what is not wanted, what is verified is what was downloaded, and only a
\* verified archive is unpacked (artifact.InstallFile, Upgrade, InstallTarGz).
THEOREM InstallInvHolds == Spec => []InstallInv
<1>1. ASSUME Init PROVE InstallInv
  BY <1>1 DEF Init, InstallInv, TypeOK, Contents, Bad, Attempts, OkMeansInstalled
<1>2. InstallInv /\ [Next]_vars => InstallInv'
  BY InstallInvInductive
<1> QED
  BY <1>1, <1>2, PTL DEF Spec

\* Success of Install or Upgrade means that every file of the wanted version is there
\* in that version, and that what is there beside them (InstallTarGz only overwrites)
\* was unpacked from another version's archive since the last Uninstall, for every
\* choice of which members each version has.
THEOREM OkIsInstalled == Spec => []OkMeansInstalled
<1>1. InstallInv => OkMeansInstalled
  BY DEF InstallInv
<1> QED
  BY <1>1, InstallInvHolds, PTL

\* Upgrade never removes or rewrites a file that has the wanted version.
THEOREM UpToDateIsLeftAlone == Spec => UpToDateIsUntouched
<1> DEFINE Untouched == (op = "upgrade" /\ ~isArchive /\ disk = want) => disk' = disk
<1>1. ASSUME InstallInv, [Next]_vars PROVE [Untouched]_vars
  <2>0. InstallInv
    BY <1>1
  <2>1. (op = "upgrade" /\ ~isArchive /\ disk = want) => pc \notin {"remove", "write", "extract"}
    BY <2>0, BadIsNoVersion DEF InstallInv, TypeOK, Bad
  <2>2. disk' = disk \/ op = "idle" \/ pc \in {"remove", "write", "extract"}
    BY <1>1, <2>0
    DEF Next, Command, Start, Fetch, FetchFails, ChecksumMatch, Remove, Write,
        InstallFileFails, VerifyChecksum, Extract, ExtractFails, RemoveArchive, Kill,
        Uninstall, UninstallFails, vars
  <2> QED
    BY <2>1, <2>2
<1> QED
  BY <1>1, InstallInvHolds, PTL DEF Spec, UpToDateIsUntouched

-----------------------------------------------------------------------------
\* How far a command is from the end of its attempt.
StepsLeft(step) ==
    CASE step = "fetch" -> 6 [] step = "match" -> 5 [] step = "remove" -> 4 [] step = "write" -> 3
      [] step = "verify" -> 2 [] step = "extract" -> 1 [] OTHER -> 0

\* What a command has left, in the order in which it matters: attempts, steps of this
\* attempt, members to unpack.
Advances ==
    \/ left' < left
    \/ left' = left /\ StepsLeft(pc') < StepsLeft(pc)
    \/ left' = left /\ pc' = pc /\ todo' \subseteq todo /\ todo' # todo

\* Every step of a command ends it or brings it closer to its end, whatever downloads,
\* checksums and members do: an install cannot go round in circles (the loops
\* `for range 3`, Upgrade, InstallTarGz). With the fairness of FairSpec this is why
\* CommandReturns holds for archives of any finite size.
THEOREM AttemptsRunOut == Spec => [][op # "idle" => op' = "idle" \/ Advances]_vars
<1> DEFINE Ends == op # "idle" => op' = "idle" \/ Advances
<1>1. ASSUME InstallInv, Next PROVE Ends
  <2>0. left \in 0..Attempts /\ todo \in SUBSET Members
    BY <1>1 DEF InstallInv, TypeOK
  <2>1. ASSUME NEW o \in {"install", "upgrade"}, NEW v \in Versions, Start(o, v) PROVE Ends
    BY <2>1 DEF Start
  <2>2. AttemptFailed => op' = "idle" \/ left' < left
    BY <2>0 DEF AttemptFailed, Return, Attempts
  <2>3. CASE FetchFails \/ InstallFileFails
    BY <2>2, <2>3 DEF FetchFails, InstallFileFails, Advances
  <2>4. CASE Fetch \/ Remove \/ Write
    BY <2>4 DEF Fetch, Remove, Write, Advances, StepsLeft
  <2>5. CASE ChecksumMatch
    BY <2>5 DEF ChecksumMatch, Return, Advances, StepsLeft
  <2>6. CASE VerifyChecksum
    BY <2>2, <2>6 DEF VerifyChecksum, Return, Advances, StepsLeft
  <2>7. ASSUME NEW m \in Members, Extract(m) PROVE Ends
    BY <2>7 DEF Extract, Advances
  <2>8. ASSUME NEW m \in Members, ExtractFails(m) PROVE Ends
    BY <2>8 DEF ExtractFails, Return
  <2>9. CASE RemoveArchive \/ Kill
    BY <2>9 DEF RemoveArchive, Kill, Return
  <2>10. CASE Uninstall \/ UninstallFails
    BY <2>10 DEF Uninstall, UninstallFails
  <2> QED
    BY <1>1, <2>1, <2>3, <2>4, <2>5, <2>6, <2>7, <2>8, <2>9, <2>10 DEF Next, Command
<1>2. InstallInv /\ [Next]_vars => [Ends]_vars
  BY <1>1
<1> QED
  BY <1>2, InstallInvHolds, PTL DEF Spec
=============================================================================
