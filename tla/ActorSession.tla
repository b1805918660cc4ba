---------------------------- MODULE ActorSession ----------------------------
(***************************************************************************)
(* One paid session from the inside: the packet its assignment is compiled *)
(* from (durable_authority.rs, assignment_runtime.rs), the tool gate of the*)
(* actor host (tool_bridge.rs) and the session RPC handlers of the daemon  *)
(* (session_runtime.rs), which keep a phase of their own.  Host and daemon *)
(* exchange one framed call at a time, and a handler is cut at its awaits: *)
(* the phase is taken, the authority is resolved from the rows of that     *)
(* moment, the store command runs with the revisions resolved, the phase is*)
(* settled and the answer travels back.                                    *)
(*                                                                         *)
(* The durable steps are the actions of FactoryAuthority.  A stop of the   *)
(* session may fall between any two steps; it drops the handler and both   *)
(* phases.  A refused call changes neither phase nor row.                  *)
(***************************************************************************)
EXTENDS FactoryAuthority

VARIABLES
    launch,  \* materialize_and_launch_assignment: what it resolved
    packet,  \* the AssignmentPacketV2 of the attended session
    host,    \* CommandContext, TerminalDeferral and the call on the wire
    rpc      \* SessionRpcState of the daemon

actorVars == <<launch, packet, host, rpc>>

-----------------------------------------------------------------------------
(* Volatile state                                                          *)

NoLaunch == [pc |-> "idle", campaign |-> 0, office |-> "Product", attempt |-> 0,
             candidate |-> 0, revision |-> 0, evidence |-> {}]

NoPacket == [session |-> 0, office |-> "Product", attempt |-> 0, candidate |-> 0,
             evidence |-> {}]

\* CommandContext::new with configure_engineering.  "changed" is the worktree:
\* an edit or a shell command ran in it.
NewHost(office) ==
    [phase |-> IF office = "Engineering" THEN "AwaitingCheckpoint" ELSE "Disabled",
     discovered |-> FALSE, mutated |-> FALSE, changed |-> FALSE,
     productRejected |-> FALSE, pending |-> "None", call |-> "None", answer |-> "None"]

NoAuthority == [attempt |-> 0, ticket |-> 0, candidate |-> 0, suite |-> FALSE]

\* EngineeringSessionState and QualitySessionState.  "step" is where the
\* handler of the call on the wire is.
NewRpc == [phase |-> "AwaitingCheckpoint", reads |-> FALSE, suite |-> "None",
           suiteInFlight |-> FALSE, reviewInFlight |-> FALSE,
           reviewSubmitted |-> FALSE, authority |-> NoAuthority, step |-> "Idle"]

ActorInit ==
    /\ Init
    /\ launch = NoLaunch
    /\ packet = NoPacket
    /\ host = NewHost("Product")
    /\ rpc = NewRpc

Attended == packet.session # 0 /\ Running(packet.session)

-----------------------------------------------------------------------------
(* The evidence a packet names                                             *)

\* The artifacts a proposal is made of: its own bytes and the narrative,
\* reproducer and observations it refers to.
ProposalEvidence(t) == {<<"Proposal", t>>, <<"ProposalReference", t>>}

\* Changed paths, patches, reports and logs of a candidate, the receipts of
\* its validations, its review and the Architect's rationale, if any.
ReviewEvidence(k)   == IF candidate[k].review = "None" THEN {} ELSE {<<"Review", k>>}
DecisionEvidence(k) == IF candidate[k].decision = "None" THEN {} ELSE {<<"Decision", k>>}

\* candidate_evidence, one statement over a validated candidate
CandidateEvidence(k) ==
    {<<"Candidate", k>>, <<"HardValidation", k>>}
      \cup ReviewEvidence(k) \cup DecisionEvidence(k)

\* resolve_launch_context: which target may be launched.
Launchable(c, office, a, k) ==
    \/ office = "Product" /\ a = 0 /\ k = 0
    \/ /\ office = "Engineering" /\ a \in AttemptId /\ k = 0
       /\ attempt[a].campaign = c
       /\ attempt[a].stage \in EngineeringStage
    \/ /\ office = "Quality" /\ a \in AttemptId /\ k \in CandidateId
       /\ candidate[k].attempt = a
       /\ attempt[a].campaign = c
       /\ candidate[k].state = "Validated"
       /\ candidate[k].commit
       /\ candidate[k].hard = "Passed"
       /\ \/ attempt[a].stage \in QualityStage
          \/ /\ attempt[a].stage = "AwaitingArchitect"
             /\ candidate[k].quality = "Passed"
             /\ candidate[k].review = "None"

\* exact_assignment_evidence: Product carries none, Engineering its ticket
\* and Quality its ticket and its candidate.
ExactAssignmentEvidence(office, a, k) ==
    CASE office = "Product"     -> {}
      [] office = "Engineering" -> ProposalEvidence(attempt[a].ticket)
      [] office = "Quality"     -> ProposalEvidence(attempt[a].ticket) \cup CandidateEvidence(k)

-----------------------------------------------------------------------------
(* materialize_and_launch_assignment                                       *)

ResolveLaunchContext(c, office, a, k) ==
    /\ launch.pc = "idle"
    /\ campaign[c].state = "Running"
    /\ ~PaidSessionActive
    /\ Launchable(c, office, a, k)
    /\ launch' = [pc |-> "resolved", campaign |-> c, office |-> office, attempt |-> a,
                  candidate |-> k, revision |-> campaign[c].rev,
                  evidence |-> ExactAssignmentEvidence(office, a, k)]
    /\ UNCHANGED <<vars, packet, host, rpc>>

\* The packet is compiled from what was resolved; create_assignment checks the
\* target again, the evidence is not read again.
CreateTypedAssignment(s) ==
    /\ launch.pc = "resolved"
    /\ CreateAssignment(s, launch.campaign, launch.revision, launch.office,
                        launch.attempt, launch.candidate)
    /\ packet' = [session |-> s, office |-> launch.office, attempt |-> launch.attempt,
                  candidate |-> launch.candidate, evidence |-> launch.evidence]
    /\ launch' = [NoLaunch EXCEPT !.pc = "created"]
    /\ UNCHANGED <<host, rpc>>

\* launch_session: custody is registered, the host admits the packet the
\* daemon verified and binds the office's tools.
AdmitSession ==
    /\ launch.pc = "created"
    /\ StartSession(packet.session)
    /\ host' = NewHost(packet.office)
    /\ rpc' = NewRpc
    /\ launch' = [NoLaunch EXCEPT !.pc = "attend"]
    /\ UNCHANGED packet

LaunchFails ==
    /\ launch.pc \in {"resolved", "created"}
    /\ launch' = NoLaunch
    /\ packet' = NoPacket
    /\ UNCHANGED <<vars, host, rpc>>

-----------------------------------------------------------------------------
(* The host's tool gate                                                    *)

Operation == {"workspace_read", "artifact_read", "workspace_edit", "shell",
              "product_submit_ticket", "work_complete",
              "candidate_checkpoint_regression", "candidate_submit",
              "quality_run_full_suite", "quality_submit_review"}

\* tool_contract: the tools the host runs in the worktree itself
LocalTool == {"workspace_edit", "shell"}

\* bind_extension_tools: the tools of the office's packet
BoundTools(office) ==
    {"workspace_read", "shell"} \cup
    CASE office = "Product"     -> {"product_submit_ticket", "work_complete"}
      [] office = "Engineering" -> {"artifact_read", "workspace_edit", "candidate_submit",
                                    "candidate_checkpoint_regression"}
      [] office = "Quality"     -> {"artifact_read", "quality_run_full_suite",
                                    "quality_submit_review"}

\* terminal_operations: the one terminal operation of an office
TerminalOperation(office) ==
    CASE office = "Product"     -> "work_complete"
      [] office = "Engineering" -> "candidate_submit"
      [] office = "Quality"     -> "quality_submit_review"

\* Mutant: the checkpoint is not required first.
RequireNoCheckpoint(op) == op \in Operation

\* require_engineering_checkpoint_before
RequireCheckpoint(op) ==
    /\ host.phase = "AwaitingCheckpoint" => op \notin {"workspace_edit", "shell"}
    /\ host.phase = "Implementing" =>
         /\ op = "shell" => (host.discovered => host.mutated)
         /\ op # "artifact_read"

\* record_engineering_tool_call
RecordToolCall(h, op) ==
    IF h.phase # "Implementing" THEN h
    ELSE [h EXCEPT !.discovered = @ \/ op = "workspace_read",
                   !.mutated = @ \/ op = "workspace_edit"]

\* invoke_request up to the daemon call.  A candidate needs the regression
\* identity its checkpoint left; a terminal result has ended the turn.
InvokeRequest(op) ==
    /\ Attended
    /\ op \in BoundTools(packet.office) \ (LocalTool \cup {"work_complete"})
    /\ host.call = "None" /\ host.pending = "None"
    /\ RequireCheckpoint(op)
    /\ op = "candidate_submit" => host.phase # "AwaitingCheckpoint"
    /\ host' = [RecordToolCall(host, op) EXCEPT !.call = op]
    /\ rpc' = [rpc EXCEPT !.step = "Begin"]
    /\ UNCHANGED <<vars, launch, packet>>

\* An edit, a write or a shell command in the assignment's worktree
InvokeLocalTool(op) ==
    /\ Attended
    /\ op \in BoundTools(packet.office) \cap LocalTool
    /\ host.call = "None" /\ host.pending = "None"
    /\ RequireCheckpoint(op)
    /\ host' = [RecordToolCall(host, op) EXCEPT !.changed = TRUE]
    /\ UNCHANGED <<vars, launch, packet, rpc>>

\* work_complete never reaches the daemon before the run has settled.
DeferWorkComplete ==
    /\ Attended
    /\ packet.office = "Product"
    /\ host.call = "None" /\ host.pending = "None"
    /\ ~host.productRejected
    /\ host' = [host EXCEPT !.pending = "work_complete"]
    /\ UNCHANGED <<vars, launch, packet, rpc>>

\* Mutant: the answer is not looked at.
SettledAnyway(h) ==
    CASE h.call = "product_submit_ticket" ->
            [h EXCEPT !.productRejected = FALSE, !.pending = "work_complete"]
      [] h.call = "candidate_checkpoint_regression" -> [h EXCEPT !.phase = "Implementing"]
      [] h.call = "candidate_submit" ->
            [h EXCEPT !.phase = "Submitted", !.pending = "candidate_submit"]
      [] h.call = "quality_submit_review" -> [h EXCEPT !.pending = "quality_submit_review"]
      [] OTHER -> h

\* invoke_request after the daemon call: what an answer does to the host.  An
\* accepted ticket defers the terminal operation of its office.
Settled(h) ==
    CASE h.answer = "Rejected" ->
            [h EXCEPT !.productRejected = @ \/ h.call = "product_submit_ticket"]
      [] h.answer = "Accepted" /\ h.call = "product_submit_ticket" ->
            [h EXCEPT !.productRejected = FALSE, !.pending = "work_complete"]
      [] h.answer = "Accepted" /\ h.call = "candidate_checkpoint_regression" ->
            [h EXCEPT !.phase = "Implementing"]
      [] h.answer = "Accepted" /\ h.call = "candidate_submit" ->
            [h EXCEPT !.phase = "Submitted", !.pending = "candidate_submit"]
      [] h.answer = "Accepted" /\ h.call = "quality_submit_review" ->
            [h EXCEPT !.pending = "quality_submit_review"]
      [] OTHER -> h

ReceiveAnswer ==
    /\ Attended
    /\ host.answer # "None"
    /\ host' = [Settled(host) EXCEPT !.call = "None", !.answer = "None"]
    /\ UNCHANGED <<vars, launch, packet, rpc>>

-----------------------------------------------------------------------------
(* The daemon's handlers                                                   *)

Handling(op, step) == Attended /\ host.call = op /\ rpc.step = step

\* The handler returns; next is the SessionRpcState it leaves.
AnswerWith(answer, next) ==
    /\ host' = [host EXCEPT !.answer = answer]
    /\ rpc' = [next EXCEPT !.step = "Idle"]
    /\ UNCHANGED <<launch, packet>>

\* The handler goes on to its next await.
Continue(next) ==
    /\ rpc' = next
    /\ UNCHANGED <<launch, packet, host>>

\* An exact read records its observation; the file may be one of the
\* required ones or the last of them.
WorkspaceRead ==
    /\ Handling("workspace_read", "Begin")
    /\ \E complete \in BOOLEAN :
         AnswerWith("Accepted", [rpc EXCEPT !.reads = @ \/ complete])
    /\ UNCHANGED vars

\* extend_ticket_proposal_closure
TicketProposalClosure(t) == ProposalEvidence(t)

\* Every artifact of a candidate, of its validations in both scopes, of its
\* review and of its decisions
CandidateClosure(k) ==
    {<<"Candidate", k>>}
      \cup (IF candidate[k].hard = "None" THEN {} ELSE {<<"HardValidation", k>>})
      \cup (IF candidate[k].quality = "None" THEN {} ELSE {<<"QualityValidation", k>>})
      \cup ReviewEvidence(k) \cup DecisionEvidence(k)

\* extend_rework_candidate_closure: the newest rejected candidate of the attempt
ReworkCandidateClosure(a) ==
    UNION {CandidateClosure(k) : k \in
             {j \in CandidateId : /\ candidate[j].attempt = a
                                  /\ candidate[j].state = "Rejected"
                                  /\ \A i \in CandidateId :
                                       (candidate[i].attempt = a /\ candidate[i].state = "Rejected")
                                         => i <= j}}

\* Mutant: a candidate whose suite has passed is no longer read.
QualityTargetInQuality(p) ==
    /\ candidate[p.candidate].state = "Validated"
    /\ candidate[p.candidate].commit
    /\ attempt[p.attempt].stage \in QualityStage

\* quality_ticket_proposal_artifact: the Quality target is active.
QualityTargetActive(p) ==
    LET k == p.candidate
        a == p.attempt
    IN
    /\ candidate[k].attempt = a
    /\ candidate[k].state = "Validated"
    /\ candidate[k].commit
    /\ \/ attempt[a].stage \in QualityStage
       \/ /\ attempt[a].stage = "AwaitingArchitect"
          /\ candidate[k].quality = "Passed"
          /\ candidate[k].review = "None"

\* The arm of assignment_artifact_ids for a Quality packet
QualityClosure(p) ==
    IF QualityTargetActive(p)
    THEN CandidateClosure(p.candidate) \cup TicketProposalClosure(attempt[p.attempt].ticket)
    ELSE {}

\* The arm for an Engineering packet
EngineeringClosure(p) ==
    CASE attempt[p.attempt].stage = "Engineering" ->
            TicketProposalClosure(attempt[p.attempt].ticket)
      [] attempt[p.attempt].stage = "ReworkEngineering" ->
            TicketProposalClosure(attempt[p.attempt].ticket)
              \cup ReworkCandidateClosure(p.attempt)
      [] OTHER -> {}

\* assignment_artifact_ids: the evidence closure of the assignment, now.
AssignmentArtifactIds(p) ==
    CASE p.office = "Product"     -> {}
      [] p.office = "Engineering" -> EngineeringClosure(p)
      [] p.office = "Quality"     -> QualityClosure(p)

\* read_assignment_artifact: the packet names it and the closure still has it.
ReadAssignmentArtifact ==
    /\ Handling("artifact_read", "Begin")
    /\ \E e \in packet.evidence :
         AnswerWith(IF e \in AssignmentArtifactIds(packet) THEN "Accepted" ELSE "Rejected", rpc)
    /\ UNCHANGED vars

\* execute_product_proposal: the profile, the clean snapshot, the replayed
\* reproducer and the duplicate search can each refuse the proposal (RejectCall),
\* having sealed nothing but artifacts; the ticket is stored last, in one transaction.
ExecuteProductProposal == \E t \in TicketId : SubmitTicketProposal(t)

\* submit_product_ticket
SubmitProductTicket ==
    /\ Handling("product_submit_ticket", "Begin")
    /\ rpc.reads
    /\ ExecuteProductProposal
    /\ AnswerWith("Accepted", rpc)

\* checkpoint_regression: begin_checkpoint
BeginCheckpoint ==
    /\ Handling("candidate_checkpoint_regression", "Begin")
    /\ rpc.reads
    /\ rpc.phase = "AwaitingCheckpoint"
    /\ Continue([rpc EXCEPT !.phase = "CheckpointInFlight", !.step = "Resolve"])
    /\ UNCHANGED vars

\* resolve_engineering: the fences the submission will use
ResolveEngineering ==
    /\ Handling("candidate_checkpoint_regression", "Resolve")
    /\ attempt[packet.attempt].stage \in EngineeringStage
    /\ Continue([rpc EXCEPT !.step = "Run",
                            !.authority = [NoAuthority EXCEPT
                                             !.attempt = attempt[packet.attempt].rev,
                                             !.ticket = TicketOf(packet.attempt).rev]])
    /\ UNCHANGED vars

\* accept_checkpoint: the regression failed as the ticket says it must.
AcceptCheckpoint ==
    /\ Handling("candidate_checkpoint_regression", "Run")
    /\ AnswerWith("Accepted", [rpc EXCEPT !.phase = "Implementing"])
    /\ UNCHANGED vars

\* submit_candidate: begin_submission
BeginSubmission ==
    /\ Handling("candidate_submit", "Begin")
    /\ rpc.reads
    /\ rpc.phase = "Implementing"
    /\ Continue([rpc EXCEPT !.phase = "SubmissionInFlight", !.step = "Submit"])
    /\ UNCHANGED vars

StoreCandidate ==
    /\ Handling("candidate_submit", "Submit")
    /\ \E k \in CandidateId :
         SubmitCandidate(k, packet.attempt, packet.session,
                         rpc.authority.attempt, rpc.authority.ticket)
    /\ Continue([rpc EXCEPT !.step = "Validate",
                            !.authority.attempt = attempt'[packet.attempt].rev])

\* The hard validation of the stored candidate.  A candidate that does not
\* pass is answered as a rejection, and the daemon's phase is Submitted.
ValidateCandidate ==
    /\ Handling("candidate_submit", "Validate")
    /\ \E k \in CandidateId, result \in {"Passed", "NotPassed"} :
         /\ candidate[k].engineeringSession = packet.session
         /\ RecordHardValidation(k, packet.session, candidate[k].rev,
                                 rpc.authority.attempt, result)
         /\ AnswerWith(IF result = "Passed" THEN "Accepted" ELSE "Rejected",
                       [rpc EXCEPT !.phase = "Submitted"])

\* run_quality_full_suite: begin_full_suite
BeginFullSuite ==
    /\ Handling("quality_run_full_suite", "Begin")
    /\ rpc.reads
    /\ rpc.suite = "None" /\ ~rpc.suiteInFlight /\ ~rpc.reviewSubmitted
    /\ Continue([rpc EXCEPT !.suiteInFlight = TRUE, !.step = "Resolve"])
    /\ UNCHANGED vars

\* resolve_quality: the exact validated candidate, and a suite that passed in
\* an earlier session of the assignment's candidate
ResolvedQuality ==
    [NoAuthority EXCEPT !.attempt = attempt[packet.attempt].rev,
                        !.candidate = candidate[packet.candidate].rev,
                        !.suite = candidate[packet.candidate].quality = "Passed"]

ResolveFullSuite ==
    /\ Handling("quality_run_full_suite", "Resolve")
    /\ QualityTargetActive(packet)
    /\ ~ResolvedQuality.suite
    /\ Continue([rpc EXCEPT !.authority = ResolvedQuality, !.step = "Run"])
    /\ UNCHANGED vars

\* The suite's receipt is stored and kept by the session, whatever its result.
StoreFullSuite ==
    /\ Handling("quality_run_full_suite", "Run")
    /\ \E result \in {"Passed", "NotPassed"} :
         /\ RecordQualityValidation(packet.candidate, packet.session,
                                    rpc.authority.candidate, rpc.authority.attempt, result)
         /\ AnswerWith("Accepted",
              [rpc EXCEPT !.suiteInFlight = FALSE, !.suite = result,
                          !.authority.attempt = attempt'[packet.attempt].rev,
                          !.authority.candidate = candidate'[packet.candidate].rev])

\* submit_quality_review: with the session's own suite, or one recovered by
\* the resolver
BeginReview ==
    /\ Handling("quality_submit_review", "Begin")
    /\ rpc.reads
    /\ ~rpc.reviewSubmitted /\ ~rpc.reviewInFlight /\ ~rpc.suiteInFlight
    /\ \/ /\ rpc.suite # "None"
          /\ Continue([rpc EXCEPT !.reviewInFlight = TRUE, !.step = "Submit"])
       \/ /\ rpc.suite = "None"
          /\ QualityTargetActive(packet)
          /\ ResolvedQuality.suite
          /\ Continue([rpc EXCEPT !.reviewInFlight = TRUE, !.step = "Submit",
                                  !.suite = "Passed", !.authority = ResolvedQuality])
    /\ UNCHANGED vars

StoreReview ==
    /\ Handling("quality_submit_review", "Submit")
    /\ \E verdict \in {"Accept", "Reject"} :
         SubmitQualityReview(packet.candidate, packet.session,
                             rpc.authority.candidate, rpc.authority.attempt, verdict)
    /\ AnswerWith("Accepted", [rpc EXCEPT !.reviewInFlight = FALSE, !.reviewSubmitted = TRUE])

\* abandon_checkpoint, abandon_submission, abandon_full_suite, abandon_review
Abandoned(r) ==
    [r EXCEPT !.phase = CASE @ = "CheckpointInFlight" -> "AwaitingCheckpoint"
                          [] @ = "SubmissionInFlight" -> "Implementing"
                          [] OTHER -> @,
              !.suiteInFlight = FALSE, !.reviewInFlight = FALSE,
              !.authority = IF r.suite = "None" /\ r.phase # "SubmissionInFlight"
                            THEN NoAuthority ELSE @]

\* A gate, a resolver, a contract or a store command refuses the call at any
\* of its steps; the actor gets an error and may try again.
RejectCall ==
    /\ Attended
    /\ rpc.step # "Idle"
    /\ AnswerWith("Rejected", Abandoned(rpc))
    /\ UNCHANGED vars

-----------------------------------------------------------------------------
(* The end of the session                                                  *)

\* submit_terminal: what the daemon requires of a completed session
TerminalAdmitted(op) ==
    /\ op = TerminalOperation(packet.office)
    /\ op = "candidate_submit" => rpc.phase = "Submitted"
    /\ op = "quality_submit_review" => rpc.reviewSubmitted

SessionOver ==
    /\ launch' = NoLaunch
    /\ packet' = NoPacket
    /\ host' = NewHost("Product")
    /\ rpc' = NewRpc

\* The host submits the deferred terminal once its run has settled.
SessionCompletes ==
    /\ Attended
    /\ host.pending # "None" /\ host.call = "None"
    /\ TerminalAdmitted(host.pending)
    /\ TerminalSession(packet.session, "Completed", "Within")
    /\ SessionOver

\* A limit, a fault, a cancellation or a dead host ends the session.  A cost
\* limit wins over a deferred terminal.
SessionStops(stop, cost) ==
    /\ Attended
    /\ stop # "Completed"
    /\ TerminalSession(packet.session, stop, cost)
    /\ SessionOver

-----------------------------------------------------------------------------
(* The driver between two sessions, and the operator at any time           *)

DriverStep ==
    /\ ~PaidSessionActive
    /\ \/ \E t \in TicketId, a \in AttemptId, c \in CampaignId, outcome \in Requalification :
            ClaimSponsoredTicket(t, a, c, ticket[t].rev, campaign[c].rev, outcome)
       \/ \E a \in AttemptId :
            \/ FailTicketAttempt(a, attempt[a].rev, TicketOf(a).rev)
            \/ RetryEngineeringAttempt(a, attempt[a].rev, TicketOf(a).rev)
            \/ \E k \in CandidateId :
                 RetryQualityAttempt(a, k, attempt[a].rev, TicketOf(a).rev)
       \/ \E k \in CandidateId :
            LET a == candidate[k].attempt IN
            \/ AttachCandidateCommit(k, candidate[k].rev)
            \/ \E result \in {"Passed", "NotPassed"} :
                 RecordHardValidation(k, candidate[k].engineeringSession,
                                      candidate[k].rev, attempt[a].rev, result)
            \/ RecordDelivery(k, candidate[k].rev, attempt[a].rev, TicketOf(a).rev,
                              campaign[attempt[a].campaign].rev)
    /\ UNCHANGED actorVars

OperatorCommand ==
    /\ \/ \E c \in CampaignId : StartCampaign(c)
       \/ \E t \in TicketId : SponsorTicket(t, ticket[t].rev)
       \/ \E a \in AttemptId, outcome \in Requalification :
            ReleaseTicketAttempt(a, attempt[a].rev, TicketOf(a).rev, outcome)
       \/ \E k \in CandidateId, decision \in Decision, override \in BOOLEAN :
            LET a == candidate[k].attempt IN
            DecideCandidate(k, decision, override,
                            candidate[k].rev, attempt[a].rev, TicketOf(a).rev)
    /\ UNCHANGED actorVars

LaunchStep ==
    \/ \E c \in CampaignId, office \in Office, a \in AttemptId \cup {0},
          k \in CandidateId \cup {0} : ResolveLaunchContext(c, office, a, k)
    \/ \E s \in SessionId : CreateTypedAssignment(s)
    \/ AdmitSession
    \/ LaunchFails

HostStep ==
    \/ \E op \in Operation : InvokeRequest(op)
    \/ \E op \in LocalTool : InvokeLocalTool(op)
    \/ DeferWorkComplete
    \/ ReceiveAnswer
    \/ SessionCompletes
    \/ \E stop \in StopReason, cost \in SessionCost : SessionStops(stop, cost)

RpcStep ==
    \/ WorkspaceRead
    \/ ReadAssignmentArtifact
    \/ SubmitProductTicket
    \/ BeginCheckpoint \/ ResolveEngineering \/ AcceptCheckpoint
    \/ BeginSubmission \/ StoreCandidate \/ ValidateCandidate
    \/ BeginFullSuite \/ ResolveFullSuite \/ StoreFullSuite
    \/ BeginReview \/ StoreReview
    \/ RejectCall

ActorNext == LaunchStep \/ HostStep \/ RpcStep \/ DriverStep \/ OperatorCommand

ActorSpec == ActorInit /\ [][ActorNext]_<<vars, actorVars>>

-----------------------------------------------------------------------------
(* Properties                                                              *)

\* A session never succeeds without its office's durable result, although the
\* daemon's Submitted phase also follows a candidate that failed its hard
\* validation: host and daemon gate together, across retries and refusals,
\* keep an Engineering success to a candidate of that session that passed and
\* a Quality success to a review of that session on a passed suite.
TerminalBacked ==
    \A s \in SessionId :
      session[s].state = "Succeeded" =>
        /\ session[s].office = "Engineering" =>
             \E k \in CandidateId :
               candidate[k].engineeringSession = s /\ candidate[k].hard = "Passed"
        /\ session[s].office = "Quality" =>
             \E k \in CandidateId :
               /\ candidate[k].qualitySession = s /\ candidate[k].review # "None"
               /\ candidate[k].quality = "Passed"

\* What a packet names stays readable: the evidence is resolved before the
\* assignment row exists and the closure is computed again at every read, yet
\* as long as the target could be launched the closure has all of it, also
\* after the suite of the running session moved the attempt on.
PacketReadable ==
    (Attended /\ Launchable(session[packet.session].campaign, packet.office,
                            packet.attempt, packet.candidate))
      => packet.evidence \subseteq AssignmentArtifactIds(packet)

\* Nothing runs in an Engineering worktree before the daemon has frozen the
\* regression: the host's phase never runs ahead of the daemon's, through
\* refused, abandoned and repeated checkpoints.
CheckpointFirst ==
    (Attended /\ packet.office = "Engineering" /\ host.changed)
      => rpc.phase \notin {"AwaitingCheckpoint", "CheckpointInFlight"}
=============================================================================
