---------------------------- MODULE ContentStore ----------------------------
(* The content-addressed store of factory-kernel/src/cas.rs: several request *)
(* handlers adopt files at once, any of them may fail at any fsync, the      *)
(* daemon may be killed, and the machine may lose power.                     *)
(*                                                                           *)
(* A digest names its bytes, so contents are not modelled; what is modelled  *)
(* is whether the name is visible, whether the name and the prefix directory *)
(* it is in were synced, and whether the bytes behind it were.  Above them   *)
(* is the objects root, whose own entry nothing in the program syncs.        *)
EXTENDS Naturals, FiniteSets, Sequences

CONSTANTS
    Workers,    \* request handlers of the daemon that adopt and register
    Digests,    \* contents that may be adopted
    MaxFaults   \* bound on fsync failures, kills and power losses

VARIABLES
    object,     \* [Digests -> the file under its digest name]
    tree,       \* the directory entries that lead to the objects root are on disk
    sealed,     \* history: the digests whose publisher has returned its seal
    worker,     \* [Workers -> progress of the handler's adoption]
    faults      \* faults so far

files == <<object, tree, sealed>>
casVars == <<files, worker, faults>>

NoDigest == "NoDigest"

\* Commands are named by who minted the identity and a number.
NoCommand == <<"none", 0>>

\* What a caller may name: a plain file below the staging root, or one that the
\* checks of the adoption turn away.
SourceKinds == {"file", "symlink", "escape", "special", "oversized", "changed"}

\* No file has the digest name. A power loss may still leave the prefix directory.
NoObject == [present |-> FALSE, leaf |-> FALSE, prefix |-> FALSE, bytes |-> "none"]

\* The phase of a handler is "idle", "streamed", "flushed", "linked", "leafSynced" or
\* "reading", the time between the reads and the writes of register_artifact;
\* seals are the CasArtifact capabilities the handler holds.
IdleWorker ==
    [phase |-> "idle", digest |-> NoDigest, temp |-> "none", seals |-> {},
     command |-> NoCommand, reuse |-> FALSE]

\* read_verified: the name is there, a regular file, and its bytes hash to it.
ReadVerified(d) == object[d].present /\ object[d].bytes # "torn"

\* open_staged_file: no component is a symbolic link, the canonical path stays
\* below the staging root, and it ends in a regular file.
OpenStagedFile(source) == source \notin {"symlink", "escape", "special"}

\* stream_to_temp: the copy stays within the size limit, and length and time of
\* modification are the same before and after it.
StreamToTemp(source) == source \notin {"oversized", "changed"}

\* verify_object, which AlreadyExists calls: the object under the name is whole.
VerifyObject(d) == ReadVerified(d)

\* new_with_seed makes runtime_root/objects/blake3 and syncs none of these
\* directories; nor does any later step.
CasInit ==
    /\ object = [d \in Digests |-> NoObject]
    /\ tree = FALSE
    /\ sealed = {}
    /\ worker = [w \in Workers |-> IdleWorker]
    /\ faults = 0

(* ----------------------------- adoption ----------------------------------- *)

\* adopt and adopt_open_file: a source that is refused leaves no temporary. The
\* digest is the one of the bytes that were copied.
AdoptOpenFile(w, d, source) ==
    /\ worker[w].phase = "idle"
    /\ d \notin worker[w].seals
    /\ OpenStagedFile(source)
    /\ StreamToTemp(source)
    /\ worker' = [worker EXCEPT ![w].phase = "streamed", ![w].digest = d,
                                ![w].temp = "cached"]
    /\ UNCHANGED <<files, faults>>

\* A publication that links what it has not synced.
FsyncSkipped(w) ==
    /\ worker[w].phase = "streamed"
    /\ worker' = [worker EXCEPT ![w].phase = "flushed"]
    /\ UNCHANGED <<files, faults>>

\* publish_temporary, first step: the temporary's bytes are fsynced.
FsyncTemporary(w) ==
    /\ worker[w].phase = "streamed"
    /\ worker' = [worker EXCEPT ![w].phase = "flushed", ![w].temp = "synced"]
    /\ UNCHANGED <<files, faults>>

\* Absent-only publication: prepare_object_parent, then a hard link that fails if
\* the name exists. The link makes whatever bytes the temporary has visible.
HardLink(w) ==
    LET d == worker[w].digest IN
    /\ worker[w].phase = "flushed"
    /\ ~object[d].present
    /\ object' = [object EXCEPT ![d] =
                    [present |-> TRUE, leaf |-> FALSE, prefix |-> object[d].prefix,
                     bytes |-> worker[w].temp]]
    /\ worker' = [worker EXCEPT ![w].phase = "linked"]
    /\ UNCHANGED <<tree, sealed, faults>>

\* The name exists: the temporary is dropped, verify_object reads the object back,
\* and the seal is returned without syncing any directory.
AlreadyExists(w) ==
    LET d == worker[w].digest IN
    /\ worker[w].phase = "flushed"
    /\ object[d].present
    /\ worker' = [worker EXCEPT ![w].phase = "idle", ![w].digest = NoDigest,
                                ![w].temp = "none",
                                ![w].seals = IF VerifyObject(d) THEN @ \cup {d} ELSE @]
    /\ UNCHANGED <<files, faults>>

\* sync_directory on the prefix directory, which holds the digest name.
SyncLeaf(w) ==
    LET d == worker[w].digest IN
    /\ worker[w].phase = "linked"
    /\ object' = [object EXCEPT ![d].leaf = TRUE]
    /\ worker' = [worker EXCEPT ![w].phase = "leafSynced"]
    /\ UNCHANGED <<tree, sealed, faults>>

\* A publication that does not sync the objects root.
SyncRootSkipped(w) ==
    LET d == worker[w].digest IN
    /\ worker[w].phase = "leafSynced"
    /\ worker' = [worker EXCEPT ![w].phase = "idle", ![w].digest = NoDigest,
                                ![w].temp = "none", ![w].seals = @ \cup {d}]
    /\ sealed' = sealed \cup {d}
    /\ UNCHANGED <<object, tree, faults>>

\* sync_directory on the objects root, which holds every prefix directory, then
\* the temporary is unlinked and the seal returned.
SyncRoot(w) ==
    LET d == worker[w].digest IN
    /\ worker[w].phase = "leafSynced"
    /\ object' = [e \in Digests |->
                    [object[e] EXCEPT !.prefix = @ \/ object[e].present]]
    /\ worker' = [worker EXCEPT ![w].phase = "idle", ![w].digest = NoDigest,
                                ![w].temp = "none", ![w].seals = @ \cup {d}]
    /\ sealed' = sealed \cup {d}
    /\ UNCHANGED <<tree, faults>>

\* Any I/O error of publish_temporary: the temporary is removed and the error is
\* returned; a name that was already linked stays.
PublishFails(w) ==
    /\ worker[w].phase \in {"streamed", "flushed", "linked", "leafSynced"}
    /\ faults < MaxFaults
    /\ faults' = faults + 1
    /\ worker' = [worker EXCEPT ![w].phase = "idle", ![w].digest = NoDigest,
                                ![w].temp = "none"]
    /\ UNCHANGED files

(* ------------------------------- faults ----------------------------------- *)

\* What a power loss may leave of an object: a name that was not synced may be
\* gone, and bytes that were not synced may be torn.
SurvivesPowerLoss(o) ==
    IF ~o.present THEN {o}
    ELSE LET kept == [o EXCEPT !.leaf = TRUE, !.prefix = TRUE,
                               !.bytes = IF o.bytes = "cached" THEN "torn" ELSE @]
         IN  {kept} \cup (IF o.leaf /\ o.prefix THEN {}
                          ELSE {[NoObject EXCEPT !.prefix = o.prefix]})

\* The tree itself survives, and with it what may survive of each object; from
\* then on it is on disk.  Or it was not on disk yet, and is gone with every
\* object below it.
TreeSurvives ==
    /\ tree' = TRUE
    /\ object' \in {f \in [Digests -> UNION {SurvivesPowerLoss(object[d]) : d \in Digests}] :
                      \A d \in Digests : f[d] \in SurvivesPowerLoss(object[d])}
TreeLost ==
    /\ ~tree
    /\ tree' = FALSE
    /\ object' = [d \in Digests |-> NoObject]

\* The page cache is lost with every handler.
CasPowerLoss ==
    /\ TreeSurvives \/ TreeLost
    /\ sealed' = {d \in sealed : object'[d].present}
    /\ worker' = [w \in Workers |-> IdleWorker]

(* ----------------------------- properties --------------------------------- *)

\* A name that can be read has all of its bytes, also after a power loss:
\* publish_temporary (cas.rs:548-623) syncs the temporary before it links it.
PublishedWhole == \A d \in Digests : object[d].present => object[d].bytes = "synced"

\* An object whose publisher has returned its seal is lost in one way only: a
\* power loss takes the whole store with it, because the entry of the objects root
\* was not on disk yet.  The two levels below, which publish_temporary syncs
\* (cas.rs:588-600), never lose it, whoever else publishes, fails or is killed.
\* The comment there ("durable across a crash") says more than that.
SealLostOnlyWithTree ==
    [][\A d \in sealed : ~object'[d].present =>
         ~tree /\ ~tree' /\ \A e \in Digests : ~object'[e].present]_casVars
=============================================================================
