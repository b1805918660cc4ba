---------------------------- MODULE KernelRecords ----------------------------
(* The kernel's first-line records: installed builds, registered artifacts,  *)
(* the repository binding, admitted application revisions with their active  *)
(* pointer, the campaign that pins one of them, and the command audit every  *)
(* durable command writes its receipt to. Requests are duplicated freely: a  *)
(* client that lost a response repeats its command under the same identity.  *)
(*                                                                           *)
(* One application key and one repository key. Identity columns are row      *)
(* positions; an artifact row is named by its digest, which is unique.       *)
EXTENDS ContentStore

CONSTANTS
    Builds,          \* builds that may be installed
    Paths,           \* local paths a repository may be bound to
    Bundle,          \* [digest of a bundle -> what the bundle declares]
    Families,        \* [kind, operation] of the later commands that are issued
    MaxCommands,     \* client command identities
    MaxReceipts      \* bound on audit rows

ASSUME BundleAssumption ==
    \A d \in DOMAIN Bundle :
        /\ d \in Digests
        /\ Bundle[d].templates \subseteq Digests
        /\ Bundle[d].predecessor \in Digests \cup {NoDigest}
        /\ Bundle[d].path \in Paths

VARIABLES
    audit,        \* factory.audit_log, in commit order
    artifacts,    \* digests with an artifact row
    builds,       \* installed builds; the last one is current
    repository,   \* the bound path, or NoDigest
    revisions,    \* admitted application revisions, oldest first
    campaign,     \* the latest campaign
    answer,       \* the last receipt a client was sent
    up            \* the daemon serves requests

recordVars == <<audit, artifacts, builds, repository, revisions, campaign, answer, up>>
vars == <<casVars, recordVars>>

Client(n) == <<"client", n>>
ClientCommands == {Client(n) : n \in 1..MaxCommands}

(* -------------------------- the command audit ----------------------------- *)

\* find_idempotent_audit: the row of this identity, if there is one. The caller
\* replays it when operation and fingerprint agree and refuses otherwise.
FindIdempotentAudit(command) == {i \in DOMAIN audit : audit[i].command = command}

\* An audit without its unique index.
InsertAuditReceiptAgain(command, fingerprint, kind, subject) ==
    /\ Len(audit) < MaxReceipts
    /\ audit' = Append(audit, [command |-> command, fingerprint |-> fingerprint,
                               kind |-> kind, subject |-> subject])

\* The insert of insert_audit_receipt succeeds only for a new (principal, command).
InsertAuditReceipt(command, fingerprint, kind, subject) ==
    /\ FindIdempotentAudit(command) = {}
    /\ Len(audit) < MaxReceipts
    /\ audit' = Append(audit, [command |-> command, fingerprint |-> fingerprint,
                               kind |-> kind, subject |-> subject])

\* The response to a command that committed now, or was found in the audit.
Reply(command, fingerprint, row, retry) ==
    answer' = [command |-> command, fingerprint |-> fingerprint, row |-> row, retry |-> retry]

\* A repeated command finds its row and answers from it; nothing else happens.
ReplayCommand(i) ==
    /\ up
    /\ audit[i].command \in ClientCommands
    /\ Reply(audit[i].command, audit[i].fingerprint, i, TRUE)
    /\ UNCHANGED <<casVars, audit, artifacts, builds, repository, revisions, campaign, up>>

(* ------------------------------ artifacts --------------------------------- *)

\* register_artifact up to its reads: the seal is verified again, no receipt has
\* this identity, and the digest either has a row already or has none.
RegisterArtifactRead(w, n, d) ==
    /\ up
    /\ builds # <<>>
    /\ worker[w].phase = "idle"
    /\ d \in worker[w].seals
    /\ ReadVerified(d)
    /\ FindIdempotentAudit(Client(n)) = {}
    /\ worker' = [worker EXCEPT ![w].phase = "reading", ![w].digest = d,
                                ![w].command = Client(n), ![w].reuse = d \in artifacts]
    /\ UNCHANGED <<files, faults, recordVars>>

\* Its writes. No lock was taken: a digest or an identity that another handler
\* committed in between violates a unique index, and the transaction is undone.
RegisterArtifactWrite(w) ==
    LET d == worker[w].digest
        c == worker[w].command
        fingerprint == <<"artifact.register", d>> IN
    /\ worker[w].phase = "reading"
    /\ worker[w].reuse \/ d \notin artifacts
    /\ InsertAuditReceipt(c, fingerprint, 3, d)
    /\ artifacts' = artifacts \cup {d}
    /\ Reply(c, fingerprint, Len(audit) + 1, FALSE)
    /\ worker' = [worker EXCEPT ![w] = IdleWorker]
    /\ UNCHANGED <<files, faults, builds, repository, revisions, campaign, up>>

\* The other outcome: the unique index refuses.
RegisterArtifactRefused(w) ==
    /\ worker[w].phase = "reading"
    /\ \/ ~worker[w].reuse /\ worker[w].digest \in artifacts
       \/ FindIdempotentAudit(worker[w].command) # {}
    /\ worker' = [worker EXCEPT ![w] = IdleWorker]
    /\ UNCHANGED <<files, faults, recordVars>>

\* register_artifact_in_transaction: reuse the row of a digest, or insert one
\* without a receipt of its own.
RegisterArtifactsInTransaction(digests) == artifacts' = artifacts \cup digests

(* --------------------------- builds, repository --------------------------- *)

\* factoryd init and install_qualified_kernel_build: the sealed qualification is
\* verified, the build becomes current in place of the one before it, and its
\* qualification artifact is inserted with it. The identity names the build, so a
\* build is installed once.
InstallKernelBuild(w, b, d) ==
    /\ worker[w].phase = "idle"
    /\ d \in worker[w].seals
    /\ ReadVerified(d)
    /\ InsertAuditReceipt(<<"init", b>>, <<"kernel_build.install", d>>, 0, Len(builds) + 1)
    /\ builds' = Append(builds, [build |-> b, qualification |-> d])
    /\ artifacts' = artifacts \cup {d}
    /\ worker' = [worker EXCEPT ![w] = IdleWorker]
    /\ UNCHANGED <<files, faults, repository, revisions, campaign, answer, up>>

\* register_repository: one immutable binding.
RegisterRepository(n, path) ==
    LET fingerprint == <<"repository.register", path>> IN
    /\ up
    /\ repository = NoDigest
    /\ InsertAuditReceipt(Client(n), fingerprint, 2, 1)
    /\ repository' = path
    /\ Reply(Client(n), fingerprint, Len(audit) + 1, FALSE)
    /\ UNCHANGED <<casVars, artifacts, builds, revisions, campaign, up>>

(* ------------------------ application revisions --------------------------- *)

\* seal_application_inputs: the handler holds a seal of the bundle and of every
\* template it declares.
SealApplicationInputs(w, d) == {d} \cup Bundle[d].templates \subseteq worker[w].seals

\* The bundle follows the newest admitted revision.
CurrentBundle == IF revisions = <<>> THEN NoDigest ELSE revisions[Len(revisions)].bundle

\* admit_compiled_application when the repository is bound already: the binding
\* must be the declared one.
AdmitCompiledApplication(w, n, d) ==
    LET fingerprint == <<"application_revision.admit", d, Len(revisions)>> IN
    /\ up
    /\ builds # <<>>
    /\ worker[w].phase = "idle"
    /\ SealApplicationInputs(w, d)
    /\ repository = Bundle[d].path
    /\ Bundle[d].predecessor = CurrentBundle
    /\ InsertAuditReceipt(Client(n), fingerprint, 1, Len(revisions) + 1)
    /\ RegisterArtifactsInTransaction({d} \cup Bundle[d].templates)
    /\ revisions' = Append(revisions, [bundle |-> d, active |-> FALSE])
    /\ Reply(Client(n), fingerprint, Len(audit) + 1, FALSE)
    /\ worker' = [worker EXCEPT ![w] = IdleWorker]
    /\ UNCHANGED <<files, faults, builds, repository, campaign, up>>

\* admit_compiled_application for a repository not seen before: the binding is
\* inserted in the same transaction, with a receipt of its own under an identity
\* derived from the admission's fingerprint.
AdmitFirstApplication(w, n, d) ==
    LET fingerprint == <<"application_revision.admit", d, Len(revisions)>>
        binding == [command |-> <<"application-repository", n>>,
                    fingerprint |-> <<"repository.register", Bundle[d].path>>,
                    kind |-> 2, subject |-> 1]
        admission == [command |-> Client(n), fingerprint |-> fingerprint,
                      kind |-> 1, subject |-> Len(revisions) + 1] IN
    /\ up
    /\ builds # <<>>
    /\ worker[w].phase = "idle"
    /\ SealApplicationInputs(w, d)
    /\ repository = NoDigest
    /\ Bundle[d].predecessor = CurrentBundle
    /\ FindIdempotentAudit(Client(n)) = {}
    /\ FindIdempotentAudit(binding.command) = {}
    /\ Len(audit) + 1 < MaxReceipts
    /\ audit' = audit \o <<binding, admission>>
    /\ repository' = Bundle[d].path
    /\ RegisterArtifactsInTransaction({d} \cup Bundle[d].templates)
    /\ revisions' = Append(revisions, [bundle |-> d, active |-> FALSE])
    /\ Reply(Client(n), fingerprint, Len(audit) + 2, FALSE)
    /\ worker' = [worker EXCEPT ![w] = IdleWorker]
    /\ UNCHANGED <<files, faults, builds, campaign, up>>

\* require_sealed_rationale: the rationale is a registered artifact.
RequireSealedRationale(d) == d \in artifacts

\* An activation that does not look for a running campaign.
ActivateDuringCampaign(n, r, d) ==
    LET fingerprint == <<"application_revision.activate", d, r>> IN
    /\ up
    /\ r \in DOMAIN revisions
    /\ RequireSealedRationale(d)
    /\ InsertAuditReceipt(Client(n), fingerprint, 1, r)
    /\ revisions' = [i \in DOMAIN revisions |-> [revisions[i] EXCEPT !.active = (i = r)]]
    /\ Reply(Client(n), fingerprint, Len(audit) + 1, FALSE)
    /\ UNCHANGED <<casVars, artifacts, builds, repository, campaign, up>>

\* activate_application_revision: between campaigns, the pointer moves to the
\* chosen revision. Choosing the active one again only adds a receipt.
ActivateApplicationRevision(n, r, d) ==
    LET fingerprint == <<"application_revision.activate", d, r>> IN
    /\ up
    /\ r \in DOMAIN revisions
    /\ RequireSealedRationale(d)
    /\ ~campaign.running
    /\ InsertAuditReceipt(Client(n), fingerprint, 1, r)
    /\ revisions' = [i \in DOMAIN revisions |-> [revisions[i] EXCEPT !.active = (i = r)]]
    /\ Reply(Client(n), fingerprint, Len(audit) + 1, FALSE)
    /\ UNCHANGED <<casVars, artifacts, builds, repository, campaign, up>>

(* ------------------------------ campaigns --------------------------------- *)

\* start_campaign, as far as it meets these records: one campaign runs at a time
\* and it pins an application revision that is active.
StartCampaign(n, r) ==
    LET fingerprint == <<"campaign.start", NoDigest, r>> IN
    /\ up
    /\ ~campaign.running
    /\ builds # <<>>
    /\ r \in DOMAIN revisions
    /\ revisions[r].active
    /\ InsertAuditReceipt(Client(n), fingerprint, 4, 1)
    /\ campaign' = [running |-> TRUE, revision |-> r]
    /\ Reply(Client(n), fingerprint, Len(audit) + 1, FALSE)
    /\ UNCHANGED <<casVars, artifacts, builds, repository, revisions, up>>

\* A command of the ticket, decision, process or publication store: what meets these
\* records is its receipt. The rows of those stores are never deleted.
LaterCommand(n, family) ==
    LET fingerprint == <<family.operation, NoDigest, 1>> IN
    /\ up
    /\ builds # <<>>
    /\ InsertAuditReceipt(Client(n), fingerprint, family.kind, 1)
    /\ Reply(Client(n), fingerprint, Len(audit) + 1, FALSE)
    /\ UNCHANGED <<casVars, artifacts, builds, repository, revisions, campaign, up>>

\* The campaign completes, fails or is cancelled; FactoryAuthority has the ways.
EndCampaign ==
    /\ up
    /\ campaign.running
    /\ campaign' = [campaign EXCEPT !.running = FALSE]
    /\ UNCHANGED <<casVars, audit, artifacts, builds, repository, revisions, answer, up>>

(* --------------------------- serving and faults --------------------------- *)

\* audit_is_consistent: every fact has its creation receipt, exactly one unless it
\* is an artifact; artifacts born in an installation or an admission need none.
CreationReceipts(kind, subject, operation) ==
    {i \in DOMAIN audit : /\ audit[i].kind = kind
                          /\ audit[i].subject = subject
                          /\ audit[i].fingerprint[1] = operation}

BornInTransition(d) ==
    \/ \E i \in DOMAIN builds : builds[i].qualification = d
    \/ \E i \in DOMAIN revisions :
         d = revisions[i].bundle \/ d \in Bundle[revisions[i].bundle].templates

AuditIsConsistent ==
    /\ \A i \in DOMAIN builds : Cardinality(CreationReceipts(0, i, "kernel_build.install")) = 1
    /\ \A i \in DOMAIN revisions :
         Cardinality(CreationReceipts(1, i, "application_revision.admit")) = 1
    /\ repository # NoDigest => Cardinality(CreationReceipts(2, 1, "repository.register")) = 1
    /\ \A d \in artifacts : BornInTransition(d) \/ \E i \in DOMAIN audit :
         audit[i].kind = 3 /\ audit[i].fingerprint = <<"artifact.register", d>>

\* first_invalid_audit_subject, the first-line families: a receipt names an
\* operation of its family and a row that exists.
FirstLineSubjectValid(row) ==
    LET operation == row.fingerprint[1] IN
    \/ row.kind = 0 /\ operation = "kernel_build.install" /\ row.subject \in DOMAIN builds
    \/ /\ row.kind = 1
       /\ operation \in {"application_revision.admit", "application_revision.activate"}
       /\ row.subject \in DOMAIN revisions
    \/ row.kind = 2 /\ operation = "repository.register" /\ repository # NoDigest
    \/ row.kind = 3 /\ operation = "artifact.register" /\ row.subject \in artifacts
    \/ row.kind = 4 /\ operation = "campaign.start"

\* ... and the families of the later commands it accepts.
LaterRegistry ==
    [kind : {5}, operation : {"assignment.create"}]
    \cup [kind : {6}, operation : {"session.start", "session.terminal"}]
    \cup [kind : {4}, operation : {"campaign.cancel", "campaign.fail"}]
    \cup [kind : {30}, operation : {"ticket.propose"}]
    \cup [kind : {31}, operation : {"ticket.sponsor"}]
    \cup [kind : {32, 33, 34}, operation : {"ticket.claim"}]
    \cup [kind : {35}, operation : {"ticket_attempt.fail"}]
    \cup [kind : {36, 37, 38}, operation : {"ticket_attempt.release"}]
    \cup [kind : {39}, operation : {"campaign.complete_delivery_target"}]
    \cup [kind : {40}, operation : {"candidate.submit", "candidate.commit.attach"}]
    \cup [kind : {41}, operation : {"validation.record"}]
    \cup [kind : {42}, operation : {"quality.review.submit"}]
    \cup [kind : {43}, operation : {"architect.ticket.sponsor", "architect.ticket.release",
                                    "architect.candidate.decide"}]
    \cup [kind : {44}, operation : {"delivery.record"}]
    \cup [kind : {40, 45}, operation : {"ticket_attempt.retry_quality"}]

ReceiptSubjectValid(row) ==
    \/ FirstLineSubjectValid(row)
    \/ [kind |-> row.kind, operation |-> row.fingerprint[1]] \in LaterRegistry

\* The audit half of verify_restore_integrity.
AuditGate == AuditIsConsistent /\ \A i \in DOMAIN audit : ReceiptSubjectValid(audit[i])

\* Its other half: every registered digest verifies in the store.
ArtifactGate == \A d \in artifacts : ReadVerified(d)

\* factoryd serve: the gates, and the receipt of the current build is readable.
Serve ==
    /\ ~up
    /\ builds # <<>>
    /\ AuditGate
    /\ ArtifactGate
    /\ ReadVerified(builds[Len(builds)].qualification)
    /\ up' = TRUE
    /\ UNCHANGED <<casVars, audit, artifacts, builds, repository, revisions, campaign, answer>>

\* The daemon is killed: handlers vanish, files and rows stay.
Kill ==
    /\ up
    /\ faults < MaxFaults
    /\ faults' = faults + 1
    /\ up' = FALSE
    /\ worker' = [w \in Workers |-> IdleWorker]
    /\ UNCHANGED <<files, audit, artifacts, builds, repository, revisions, campaign, answer>>

\* The machine loses power: committed rows are durable, directory entries may not be.
PowerLoss ==
    /\ faults < MaxFaults
    /\ faults' = faults + 1
    /\ up' = FALSE
    /\ CasPowerLoss
    /\ UNCHANGED <<audit, artifacts, builds, repository, revisions, campaign, answer>>

(* ---------------------------- specification ------------------------------- *)

RecordsInit ==
    /\ CasInit
    /\ audit = <<>> /\ artifacts = {} /\ builds = <<>> /\ repository = NoDigest
    /\ revisions = <<>> /\ campaign = [running |-> FALSE, revision |-> 0]
    /\ answer = [command |-> NoCommand, fingerprint |-> <<>>, row |-> 0, retry |-> FALSE]
    /\ up = FALSE

Adopt(w) ==
    /\ \/ \E d \in Digests, source \in SourceKinds : AdoptOpenFile(w, d, source)
       \/ FsyncTemporary(w)
       \/ HardLink(w)
       \/ AlreadyExists(w)
       \/ SyncLeaf(w)
       \/ SyncRoot(w)
       \/ PublishFails(w)
    /\ UNCHANGED recordVars

ClientRequest(n) ==
    \/ \E path \in Paths : RegisterRepository(n, path)
    \/ \E r \in DOMAIN revisions, d \in Digests : ActivateApplicationRevision(n, r, d)
    \/ \E r \in DOMAIN revisions : StartCampaign(n, r)
    \/ \E family \in Families : LaterCommand(n, family)
    \/ \E w \in Workers, d \in Digests : RegisterArtifactRead(w, n, d)
    \/ \E w \in Workers, d \in DOMAIN Bundle :
         AdmitCompiledApplication(w, n, d) \/ AdmitFirstApplication(w, n, d)

RecordsStep ==
    \/ \E w \in Workers : Adopt(w)
    \/ \E w \in Workers : RegisterArtifactWrite(w) \/ RegisterArtifactRefused(w)
    \/ \E w \in Workers, b \in Builds, d \in Digests : InstallKernelBuild(w, b, d)
    \/ \E n \in 1..MaxCommands : ClientRequest(n)
    \/ \E i \in DOMAIN audit : ReplayCommand(i)
    \/ EndCampaign \/ Serve \/ Kill

RecordsNext == RecordsStep \/ PowerLoss

RecordsSpec == RecordsInit /\ [][RecordsNext]_vars

(* ----------------------------- properties --------------------------------- *)

\* An answer names the only receipt its command has, and that receipt records the
\* content the client asked for, however often the request is repeated and whichever
\* handlers run it at once: the lost response of storage.rs:164 is replayed, never
\* executed again.
ReplayAgrees ==
    answer.row # 0 =>
        /\ FindIdempotentAudit(answer.command) = {answer.row}
        /\ audit[answer.row].fingerprint = answer.fingerprint

\* While a campaign runs, the revision it pinned stays the active one
\* (application_activation.rs:153-164 against process.rs:858-887).
RunningCampaignPinsActive == campaign.running => revisions[campaign.revision].active

\* What the gate asks of receipts: "every receipt needs a non-ambiguous, extant
\* subject" (storage.rs:917-918). The kernel commits receipts whose subject exists, so
\* the gate has no reason to refuse one of them at the next start.
ReceiptsRegistered == \A i \in DOMAIN audit : ReceiptSubjectValid(audit[i])
=============================================================================
