---------------------------- MODULE BackupRestore ----------------------------
(* The backup and restore qualification of factoryctl/src/backup_restore.rs, *)
(* run beside a daemon that may be serving. It takes no lock: what makes its *)
(* verdict worth something is the order of its fingerprints and comparisons. *)
(*                                                                           *)
(* The database fingerprint is read relation by relation, so it is two reads *)
(* here, artifacts and then the audit, and other commits may come between.   *)
EXTENDS KernelRecords

VARIABLE backup

backupVars == <<vars, backup>>

\* What the CAS tree fingerprint sees: the published objects, and the temporaries
\* of adoptions in progress.
Published == {d \in Digests : object[d].present}
TreeFingerprint == [objects |-> Published, temporaries |->
                      Cardinality({w \in Workers : worker[w].temp # "none"})]

\* One consistent view of the database, as pg_dump takes it.
DatabaseSnapshot == [artifacts |-> artifacts, rows |-> Len(audit), running |-> campaign.running]

NoSnapshot == [artifacts |-> {}, rows |-> 0, running |-> FALSE]
NoTree == [objects |-> {}, temporaries |-> 0]

NoBackup ==
    [phase |-> "idle", before |-> NoSnapshot, tree |-> NoTree, dump |-> NoSnapshot,
     copy |-> NoTree, after |-> NoSnapshot, atEnd |-> NoSnapshot, objects |-> {}]

BackupInit == RecordsInit /\ backup = NoBackup

\* A comparison goes on to the next phase, or ends the qualification and forgets it.
Require(condition, next) ==
    backup' = IF condition THEN [backup EXCEPT !.phase = next]
              ELSE [NoBackup EXCEPT !.phase = "failed"]

\* run checks the roots and databases it was given, then reads the artifacts
\* relation of the source.
FingerprintArtifacts ==
    /\ backup.phase = "idle"
    /\ backup' = [backup EXCEPT !.phase = "sourceArtifacts", !.before.artifacts = artifacts]
    /\ UNCHANGED vars

\* database_fingerprint continues with the later relations.
FingerprintAudit ==
    /\ backup.phase = "sourceArtifacts"
    /\ backup' = [backup EXCEPT !.phase = "sourceRead", !.before.rows = Len(audit),
                                !.before.running = campaign.running]
    /\ UNCHANGED vars

\* tree_fingerprint of the source objects.
FingerprintTree ==
    /\ backup.phase = "sourceRead"
    /\ backup' = [backup EXCEPT !.phase = "fingerprinted", !.tree = TreeFingerprint]
    /\ UNCHANGED vars

\* pg_dump sees one snapshot.
Dump ==
    /\ backup.phase = "fingerprinted"
    /\ backup' = [backup EXCEPT !.phase = "dumped", !.dump = DatabaseSnapshot]
    /\ UNCHANGED vars

\* copy_tree.
CopyTree ==
    /\ backup.phase = "dumped"
    /\ backup' = [backup EXCEPT !.phase = "copied", !.copy = TreeFingerprint]
    /\ UNCHANGED vars

\* The clone's tree must be the source's tree as it was fingerprinted; then
\* pg_restore fills the clone, whose fingerprint must be the source's.
CompareClone ==
    /\ backup.phase = "copied"
    /\ Require(backup.copy = backup.tree /\ backup.dump = backup.before, "restored")
    /\ UNCHANGED vars

\* The kernel's own judge: verify_restore_integrity on the clone.
JudgeClone ==
    /\ backup.phase = "restored"
    /\ Require(backup.dump.artifacts \subseteq backup.copy.objects, "judged")
    /\ UNCHANGED vars

\* The source is fingerprinted again, in the same two reads.
RefingerprintArtifacts ==
    /\ backup.phase = "judged"
    /\ backup' = [backup EXCEPT !.phase = "sourceArtifactsAgain", !.after.artifacts = artifacts]
    /\ UNCHANGED vars

RefingerprintAudit ==
    /\ backup.phase = "sourceArtifactsAgain"
    /\ backup' = [backup EXCEPT !.phase = "sourceReadAgain", !.after.rows = Len(audit),
                                !.after.running = campaign.running,
                                !.atEnd = DatabaseSnapshot, !.objects = Published]
    /\ UNCHANGED vars

\* A qualification that does not read the source rows again.
CompareSourceTree ==
    /\ backup.phase = "sourceReadAgain"
    /\ Require(TreeFingerprint = backup.tree, "qualified")
    /\ UNCHANGED vars

\* The last comparisons: neither the source rows nor the source tree changed.
CompareSource ==
    /\ backup.phase = "sourceReadAgain"
    /\ Require(backup.after = backup.before /\ TreeFingerprint = backup.tree, "qualified")
    /\ UNCHANGED vars

BackupStep ==
    \/ FingerprintArtifacts \/ FingerprintAudit \/ FingerprintTree \/ Dump \/ CopyTree
    \/ CompareClone \/ JudgeClone \/ RefingerprintArtifacts \/ RefingerprintAudit
    \/ CompareSource

\* A loss of power ends the qualification that is running, if there is one.
BackupNext ==
    \/ BackupStep
    \/ RecordsStep /\ UNCHANGED backup
    \/ PowerLoss /\ (IF backup = NoBackup THEN UNCHANGED backup ELSE Require(FALSE, "failed"))

BackupSpec == BackupInit /\ [][BackupNext]_backupVars

\* A qualified pair is the source as it was at one instant, although the source was
\* never locked and its fingerprint was read in pieces: the dump is the whole
\* database at the last read of the audit, and the copy holds exactly the objects
\* published then (backup_restore.rs:166-275).
QualifiedPairIsSource ==
    backup.phase = "qualified" =>
        /\ backup.dump = backup.atEnd
        /\ backup.copy.objects = backup.objects
=============================================================================
