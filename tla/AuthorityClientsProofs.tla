----------------------- MODULE AuthorityClientsProofs -----------------------
(***************************************************************************)
(* The two modules that compose the authority with those who call it, for  *)
(* every number of rows and every row limit.                               *)
(*                                                                         *)
(* ActorSession.  A paid session from the inside only takes steps of the   *)
(* authority, and the two phase machines that guard it, the host's and the *)
(* daemon's, agree well enough: nothing runs in an Engineering worktree    *)
(* before the daemon froze the regression, no session succeeds without its *)
(* office's durable result, and what a packet names stays readable while   *)
(* its target is active.                                                   *)
(*                                                                         *)
(* OperatorViews.  A report read in several statements never claims more   *)
(* than it shows, and a revision copied from it guards what it showed.     *)
(* Both rest on how rows age.  Evidence, deliveries and sessions are only  *)
(* ever added, so what a first statement claims a later one still finds;   *)
(* and a row that changed at all has a higher revision than any report of  *)
(* it (RevisionFence).                                                     *)
(***************************************************************************)
EXTENDS ActorSession, OperatorViews, FactoryAuthorityProofs

-----------------------------------------------------------------------------
(* What is held about the rows between two steps                           *)

\* The evidence resolved for a target: the target's rows exist, and each
\* artifact is one of the ticket's proposal or of the candidate as it is now.
Evident(office, a, k, evidence) ==
    /\ office \in Office
    /\ office = "Product" => evidence = {}
    /\ office = "Engineering" =>
         /\ a \in AttemptId /\ attempt[a].stage # "Absent"
         /\ evidence = ProposalEvidence(attempt[a].ticket)
    /\ office = "Quality" =>
         /\ a \in AttemptId /\ attempt[a].stage # "Absent"
         /\ k \in CandidateId /\ candidate[k].state # "Absent" /\ candidate[k].attempt = a
         /\ evidence \subseteq ProposalEvidence(attempt[a].ticket) \cup CandidateEvidence(k)

LaunchOK ==
    launch.pc = "resolved" =>
      /\ launch.campaign \in CampaignId
      /\ launch.attempt \in AttemptId \cup {0} /\ launch.candidate \in CandidateId \cup {0}
      /\ Evident(launch.office, launch.attempt, launch.candidate, launch.evidence)

\* The packet belongs to an assignment row of its office.
PacketOK ==
    /\ launch.pc = "created" => packet.session # 0
    /\ packet.session # 0 =>
         /\ packet.session \in SessionId
         /\ session[packet.session].state # "Absent"
         /\ session[packet.session].office = packet.office
         /\ Evident(packet.office, packet.attempt, packet.candidate, packet.evidence)

-----------------------------------------------------------------------------
(* The two phase machines                                                  *)

HostFields == {"phase", "discovered", "mutated", "changed", "productRejected", "pending",
               "call", "answer"}
RpcFields  == {"phase", "reads", "suite", "suiteInFlight", "reviewInFlight", "reviewSubmitted",
               "authority", "step"}

FieldsOK == DOMAIN host = HostFields /\ DOMAIN rpc = RpcFields

\* The daemon has not frozen a regression.
BeforeCheckpoint == {"AwaitingCheckpoint", "CheckpointInFlight"}

Accepted(op) == host.answer = "Accepted" /\ host.call = op

\* One call is on the wire at a time: a handler runs for a call without an
\* answer, and an answer is to a call.
OneCall ==
    /\ rpc.step # "Idle" => host.call # "None" /\ host.answer = "None"
    /\ host.answer # "None" => host.call # "None"

\* The host's phase never runs ahead of the daemon's, and an answer that will
\* move the host's phase comes after the daemon's has moved.
PhasesAgree ==
    /\ host.call = "candidate_submit" => host.phase # "AwaitingCheckpoint"
    /\ Accepted("candidate_checkpoint_regression") => rpc.phase \notin BeforeCheckpoint
    /\ packet.office = "Engineering" =>
         /\ host.changed => host.phase # "AwaitingCheckpoint"
         /\ host.phase # "AwaitingCheckpoint" => rpc.phase \notin BeforeCheckpoint

GateOK == Attended => OneCall /\ PhasesAgree

\* Session s left the durable result of its office.
Validated(s) ==
    \E k \in CandidateId : candidate[k].engineeringSession = s /\ candidate[k].hard = "Passed"
Reviewed(s) ==
    \E k \in CandidateId :
      /\ candidate[k].qualitySession = s /\ candidate[k].review # "None"
      /\ candidate[k].quality = "Passed"

\* A deferred terminal, or the answer that will defer it, has its result.
DeferredBacked ==
    /\ host.pending = "candidate_submit" \/ Accepted("candidate_submit")
         => Validated(packet.session)
    /\ host.pending = "quality_submit_review" \/ Accepted("quality_submit_review")
         => Reviewed(packet.session)

ResultOK == Attended => DeferredBacked

RowsOK == TypeOK /\ RowLinks /\ SoundCandidates /\ SubmitterLinks

ActorInv ==
    /\ RowsOK /\ LaunchOK /\ PacketOK
    /\ FieldsOK /\ GateOK /\ ResultOK /\ TerminalBacked

-----------------------------------------------------------------------------
(* Every step is one of the authority, or changes no row                   *)

\* An attended packet names a session of its office, and its target.
LEMMA AttendedTarget ==
    ASSUME PacketOK, Attended
    PROVE  /\ packet.session \in SessionId
           /\ packet.office = "Engineering" => packet.attempt \in AttemptId
           /\ packet.office = "Quality" =>
                packet.attempt \in AttemptId /\ packet.candidate \in CandidateId
BY DEF PacketOK, Attended, Evident

\* Launches, and the end of a session.
LEMMA LaunchIsStep ==
    ASSUME ActorInv,
           \/ LaunchStep \/ SessionCompletes
           \/ \E stop \in StopReason, cost \in SessionCost : SessionStops(stop, cost)
    PROVE  [Next]_vars
<1>1. ASSUME NEW s \in SessionId, CreateTypedAssignment(s) PROVE Next
  <2>1. /\ launch.campaign \in CampaignId /\ launch.office \in Office
        /\ launch.attempt \in AttemptId \cup {0} /\ launch.candidate \in CandidateId \cup {0}
    BY <1>1 DEF CreateTypedAssignment, ActorInv, LaunchOK, Evident
  <2>2. CreateAssignment(s, launch.campaign, launch.revision, launch.office,
                         launch.attempt, launch.candidate)
    BY <1>1 DEF CreateTypedAssignment
  <2>3. CreateAssignment(s, launch.campaign, campaign[launch.campaign].rev, launch.office,
                         launch.attempt, launch.candidate)
    BY <2>2, Zenon DEF CreateAssignment
  <2> QED BY <2>1, <2>3 DEF Next, SessionStep
<1>2. CASE AdmitSession
  <2>1. packet.session \in SessionId /\ StartSession(packet.session)
    BY <1>2 DEF AdmitSession, ActorInv, PacketOK
  <2> QED BY <2>1 DEF Next, SessionStep
<1>3. ASSUME Attended, NEW stop \in StopReason, NEW cost \in SessionCost,
             TerminalSession(packet.session, stop, cost)
      PROVE  Next
  <2>1. packet.session \in SessionId
    BY <1>3, AttendedTarget DEF ActorInv
  <2> QED BY <1>3, <2>1 DEF Next, SessionStep
<1>4. CASE SessionCompletes
    BY <1>3, <1>4 DEF SessionCompletes, StopReason, SessionCost
<1>5. ASSUME NEW stop \in StopReason, NEW cost \in SessionCost, SessionStops(stop, cost)
      PROVE  Next
    BY <1>3, <1>5 DEF SessionStops
<1> QED
    BY <1>1, <1>2, <1>4, <1>5 DEF LaunchStep, ResolveLaunchContext, LaunchFails

\* The handlers write with the fences they resolved earlier; a command that is
\* accepted shows them current.  The store's own check of the performer is what
\* ties a call to the office of its packet.
LEMMA RpcIsStep ==
    ASSUME ActorInv, RpcStep
    PROVE  [Next]_vars
<1>0. Attended =>
        /\ packet.session \in SessionId
        /\ session[packet.session].office = packet.office
        /\ packet.office = "Engineering" => packet.attempt \in AttemptId
        /\ packet.office = "Quality" =>
             packet.attempt \in AttemptId /\ packet.candidate \in CandidateId
    BY AttendedTarget DEF ActorInv, PacketOK, Attended
<1>1. CASE SubmitProductTicket
    BY <1>1 DEF SubmitProductTicket, ExecuteProductProposal, Next, TicketStep
<1>2. CASE StoreCandidate
  <2>1. PICK k \in CandidateId :
          SubmitCandidate(k, packet.attempt, packet.session,
                          rpc.authority.attempt, rpc.authority.ticket)
    BY <1>2 DEF StoreCandidate
  <2>2. packet.attempt \in AttemptId /\ packet.session \in SessionId
    BY <1>0, <1>2, <2>1 DEF StoreCandidate, Handling, SubmitCandidate, RequireSession
  <2>3. SubmitCandidate(k, packet.attempt, packet.session,
                        attempt[packet.attempt].rev, TicketOf(packet.attempt).rev)
    BY <2>1, Zenon DEF SubmitCandidate, AttemptFence
  <2> QED BY <2>2, <2>3 DEF Next, AttemptStep
<1>3. CASE ValidateCandidate
  <2>1. PICK k \in CandidateId, result \in {"Passed", "NotPassed"} :
          RecordHardValidation(k, packet.session, candidate[k].rev,
                               rpc.authority.attempt, result)
    BY <1>3 DEF ValidateCandidate
  <2>2. RecordHardValidation(k, packet.session, candidate[k].rev,
                             attempt[candidate[k].attempt].rev, result)
    BY <2>1, Zenon DEF RecordHardValidation
  <2>3. packet.session \in SessionId
    BY <1>0, <1>3 DEF ValidateCandidate, Handling
  <2> QED BY <2>2, <2>3 DEF Next, CandidateStep
<1>4. CASE StoreFullSuite
  <2> DEFINE k == packet.candidate
  <2>1. PICK result \in {"Passed", "NotPassed"} :
          RecordQualityValidation(k, packet.session,
                                  rpc.authority.candidate, rpc.authority.attempt, result)
    BY <1>4 DEF StoreFullSuite
  <2>2. RecordQualityValidation(k, packet.session, candidate[k].rev,
                                attempt[candidate[k].attempt].rev, result)
    BY <2>1, Zenon DEF RecordQualityValidation
  <2>3. session[packet.session].office = "Quality"
    BY <2>1, Zenon DEF RecordQualityValidation, RequireSession
  <2>4. packet.session \in SessionId /\ k \in CandidateId
    BY <1>0, <1>4, <2>3 DEF StoreFullSuite, Handling
  <2> HIDE DEF k
  <2> QED BY <2>2, <2>4 DEF Next, CandidateStep
<1>5. CASE StoreReview
  <2> DEFINE k == packet.candidate
  <2>1. PICK verdict \in {"Accept", "Reject"} :
          SubmitQualityReview(k, packet.session,
                              rpc.authority.candidate, rpc.authority.attempt, verdict)
    BY <1>5 DEF StoreReview
  <2>2. SubmitQualityReview(k, packet.session, candidate[k].rev,
                            attempt[candidate[k].attempt].rev, verdict)
    BY <2>1, Zenon DEF SubmitQualityReview
  <2>3. session[packet.session].office = "Quality"
    BY <2>1, Zenon DEF SubmitQualityReview, RequireSession
  <2>4. packet.session \in SessionId /\ k \in CandidateId
    BY <1>0, <1>5, <2>3 DEF StoreReview, Handling
  <2> HIDE DEF k
  <2> QED BY <2>2, <2>4 DEF Next, CandidateStep
<1> QED
    BY <1>1, <1>2, <1>3, <1>4, <1>5
    DEF RpcStep, WorkspaceRead, ReadAssignmentArtifact, BeginCheckpoint, ResolveEngineering,
        AcceptCheckpoint, BeginSubmission, BeginFullSuite, ResolveFullSuite, BeginReview,
        RejectCall

\* The driver between two sessions, and the operator.
LEMMA DriverIsStep ==
    ASSUME ActorInv, DriverStep \/ OperatorCommand
    PROVE  Next
<1>1. CASE DriverStep
  <2>1. CASE \E k \in CandidateId :
               LET a == candidate[k].attempt IN
               \E result \in {"Passed", "NotPassed"} :
                 RecordHardValidation(k, candidate[k].engineeringSession,
                                      candidate[k].rev, attempt[a].rev, result)
    <3>1. PICK k \in CandidateId, result \in {"Passed", "NotPassed"} :
            RecordHardValidation(k, candidate[k].engineeringSession, candidate[k].rev,
                                 attempt[candidate[k].attempt].rev, result)
      BY <2>1
    <3>2. candidate[k].engineeringSession \in SessionId
      BY <3>1 DEF RecordHardValidation, ActorInv, RowsOK, SubmitterLinks
    <3> QED BY <3>1, <3>2 DEF Next, CandidateStep
  <2>2. CASE \E k \in CandidateId :
               LET a == candidate[k].attempt IN
               \/ AttachCandidateCommit(k, candidate[k].rev)
               \/ RecordDelivery(k, candidate[k].rev, attempt[a].rev, TicketOf(a).rev,
                                 campaign[attempt[a].campaign].rev)
    BY <2>2 DEF Next, CandidateStep
  <2>3. CASE \E a \in AttemptId :
               \/ FailTicketAttempt(a, attempt[a].rev, TicketOf(a).rev)
               \/ RetryEngineeringAttempt(a, attempt[a].rev, TicketOf(a).rev)
               \/ \E k \in CandidateId :
                    RetryQualityAttempt(a, k, attempt[a].rev, TicketOf(a).rev)
    BY <2>3 DEF Next, AttemptStep
  <2>4. CASE \E t \in TicketId, a \in AttemptId, c \in CampaignId, outcome \in Requalification :
               ClaimSponsoredTicket(t, a, c, ticket[t].rev, campaign[c].rev, outcome)
    BY <2>4 DEF Next, TicketStep
  <2> QED BY <1>1, <2>1, <2>2, <2>3, <2>4 DEF DriverStep
<1>2. CASE OperatorCommand
  <2>1. CASE \E c \in CampaignId : StartCampaign(c)
    BY <2>1 DEF Next, CampaignStep
  <2>2. CASE \E t \in TicketId : SponsorTicket(t, ticket[t].rev)
    BY <2>2 DEF Next, TicketStep
  <2>3. CASE \E a \in AttemptId, outcome \in Requalification :
               ReleaseTicketAttempt(a, attempt[a].rev, TicketOf(a).rev, outcome)
    BY <2>3 DEF Next, AttemptStep
  <2>4. CASE \E k \in CandidateId, decision \in Decision, override \in BOOLEAN :
               LET a == candidate[k].attempt IN
               DecideCandidate(k, decision, override,
                               candidate[k].rev, attempt[a].rev, TicketOf(a).rev)
    BY <2>4 DEF Next, CandidateStep
  <2> QED BY <1>2, <2>1, <2>2, <2>3, <2>4 DEF OperatorCommand
<1> QED BY <1>1, <1>2

\* Every step of the session, its launch, the driver and the operator is one of
\* the authority or writes no row.
LEMMA ActorIsStep ==
    ASSUME ActorInv, [ActorNext]_<<vars, actorVars>>
    PROVE  [Next]_vars
<1>1. CASE HostStep
    BY <1>1, LaunchIsStep
    DEF HostStep, InvokeRequest, InvokeLocalTool, DeferWorkComplete, ReceiveAnswer
<1> QED BY <1>1, LaunchIsStep, RpcIsStep, DriverIsStep DEF ActorNext

-----------------------------------------------------------------------------
(* Rows and evidence stay                                                  *)

\* What the rows keep in every step of the authority.
LEMMA RowsKept ==
    ASSUME RowsOK, [Next]_vars
    PROVE  /\ RowsOK'
           /\ \A a \in AttemptId : attempt[a].stage # "Absent" =>
                attempt'[a].stage # "Absent" /\ attempt'[a].ticket = attempt[a].ticket
           /\ \A k \in CandidateId : candidate[k].state # "Absent" =>
                /\ KeepsAuthors(candidate[k], candidate'[k])
                /\ KeepsEvidence(candidate[k], candidate'[k])
<1>1. TypeOK' /\ RowLinks' /\ SubmitterLinks'
    BY NextTypeOK, NextRowLinks, SubmitterLinksKept DEF RowsOK
<1>2. \A k \in CandidateId :
        SoundCandidate(candidate'[k]) /\ KeepsEvidence(candidate[k], candidate'[k])
  <2>1. CASE Next
    BY <2>1, CandidateWrite DEF RowsOK
  <2>2. CASE UNCHANGED vars
    BY <2>2 DEF vars, RowsOK, SoundCandidates, KeepsEvidence
  <2> QED BY <2>1, <2>2
<1>3. SoundCandidates'
    BY <1>2 DEF SoundCandidates
<1>4. \A a \in AttemptId : attempt[a].stage # "Absent" =>
        attempt'[a].stage # "Absent" /\ attempt'[a].ticket = attempt[a].ticket
    BY AttemptTicketKept DEF RowsOK
<1>5. \A k \in CandidateId : candidate[k].state # "Absent" =>
        KeepsAuthors(candidate[k], candidate'[k])
    BY AuthorsKept DEF RowsOK, KeepsAuthors
<1> QED BY <1>1, <1>2, <1>3, <1>4, <1>5 DEF RowsOK

\* A session's durable result stays.
LEMMA ResultKept ==
    ASSUME RowsOK, [Next]_vars, NEW s \in SessionId
    PROVE  (Validated(s) => Validated(s)') /\ (Reviewed(s) => Reviewed(s)')
<1>1. \A k \in CandidateId :
        candidate[k].hard = "Passed" \/ candidate[k].review # "None" =>
          candidate[k].state # "Absent"
    BY DEF RowsOK, SoundCandidates, SoundCandidate
<1>2. \A k \in CandidateId : candidate[k].state # "Absent" =>
        KeepsAuthors(candidate[k], candidate'[k]) /\ KeepsEvidence(candidate[k], candidate'[k])
    BY RowsKept
<1>3. Validated(s) => Validated(s)'
    BY <1>1, <1>2 DEF Validated, KeepsAuthors, KeepsEvidence
<1>4. Reviewed(s) => Reviewed(s)'
    BY <1>1, <1>2 DEF Reviewed, KeepsAuthors, KeepsEvidence
<1> QED BY <1>3, <1>4

\* Evidence resolved once stays evidence of the same target: the ticket of an
\* attempt never changes and a candidate only gains artifacts.
LEMMA EvidentKept ==
    ASSUME RowsOK, [Next]_vars, NEW office, NEW a, NEW k, NEW evidence,
           Evident(office, a, k, evidence)
    PROVE  Evident(office, a, k, evidence)'
<1>1. CASE office = "Product"
    BY <1>1 DEF Evident
<1>2. CASE office = "Engineering"
    BY <1>2, RowsKept DEF Evident, ProposalEvidence
<1>3. CASE office = "Quality"
  <2>1. /\ attempt'[a].stage # "Absent" /\ attempt'[a].ticket = attempt[a].ticket
        /\ KeepsAuthors(candidate[k], candidate'[k]) /\ KeepsEvidence(candidate[k], candidate'[k])
    BY <1>3, RowsKept DEF Evident
  <2>2. CandidateEvidence(k) \subseteq CandidateEvidence(k)'
    BY <2>1 DEF CandidateEvidence, ReviewEvidence, DecisionEvidence, KeepsEvidence
  <2>3. ProposalEvidence(attempt'[a].ticket) = ProposalEvidence(attempt[a].ticket)
    BY <2>1
  <2> QED BY <1>3, <2>1, <2>2, <2>3 DEF Evident, KeepsAuthors, ProposalEvidence
<1> QED BY <1>1, <1>2, <1>3 DEF Evident, Office

-----------------------------------------------------------------------------
(* The launch and the packet                                               *)

\* The calls of a session, and the driver's and the operator's commands.
CallStep ==
    \/ \E op \in Operation : InvokeRequest(op)
    \/ \E op \in LocalTool : InvokeLocalTool(op)
    \/ DeferWorkComplete
    \/ ReceiveAnswer
    \/ RpcStep

\* They leave the session row, the launch and the packet alone.
LEMMA CallsKeepSession ==
    CallStep \/ DriverStep \/ OperatorCommand => UNCHANGED <<session, launch, packet>>
<1>1. CASE CallStep
  <2>1. CASE RpcStep
    <3>1. CASE SubmitProductTicket
      BY <3>1 DEF SubmitProductTicket, ExecuteProductProposal, SubmitTicketProposal, AnswerWith
    <3>2. CASE StoreCandidate
      BY <3>2 DEF StoreCandidate, SubmitCandidate, Continue
    <3>3. CASE ValidateCandidate
      BY <3>3, Zenon DEF ValidateCandidate, RecordHardValidation, AnswerWith
    <3>4. CASE StoreFullSuite
      BY <3>4, Zenon DEF StoreFullSuite, RecordQualityValidation, AnswerWith
    <3>5. CASE StoreReview
      BY <3>5, Zenon DEF StoreReview, SubmitQualityReview, AnswerWith
    <3> QED
      BY <2>1, <3>1, <3>2, <3>3, <3>4, <3>5
      DEF RpcStep, WorkspaceRead, ReadAssignmentArtifact, BeginCheckpoint, ResolveEngineering,
          AcceptCheckpoint, BeginSubmission, BeginFullSuite, ResolveFullSuite, BeginReview,
          RejectCall, AnswerWith, Continue, vars
  <2> QED
    BY <1>1, <2>1 DEF CallStep, InvokeRequest, InvokeLocalTool, DeferWorkComplete, ReceiveAnswer,
                      vars
<1>2. CASE DriverStep
    BY <1>2, ZenonT(60) DEF DriverStep, ClaimSponsoredTicket, FailTicketAttempt, CanFail,
       RetryEngineeringAttempt, RetryQualityAttempt, AttachCandidateCommit,
       RecordHardValidation, RecordDelivery, actorVars
<1>3. CASE OperatorCommand
    BY <1>3, ZenonT(60) DEF OperatorCommand, StartCampaign, SponsorTicket, ReleaseTicketAttempt,
       DecideCandidate, actorVars
<1> QED BY <1>1, <1>2, <1>3

\* The target that a launch resolves has its evidence.
LEMMA ResolvedEvident ==
    ASSUME RowsOK, NEW c \in CampaignId, NEW office \in Office, NEW a \in AttemptId \cup {0},
           NEW k \in CandidateId \cup {0}, Launchable(c, office, a, k)
    PROVE  Evident(office, a, k, ExactAssignmentEvidence(office, a, k))
<1>1. CASE office = "Product"
    BY <1>1 DEF Evident, ExactAssignmentEvidence, Office
<1>2. CASE office = "Engineering"
    BY <1>2 DEF Launchable, Evident, ExactAssignmentEvidence, Office, EngineeringStage
<1>3. CASE office = "Quality"
    BY <1>3 DEF Launchable, Evident, ExactAssignmentEvidence, Office, QualityStage
<1> QED BY <1>1, <1>2, <1>3 DEF Office

\* The launch keeps the evidence of its target until the packet is compiled.
LEMMA LaunchKept ==
    ASSUME ActorInv, [ActorNext]_<<vars, actorVars>>
    PROVE  LaunchOK'
<1>0. RowsOK /\ [Next]_vars
    BY ActorIsStep DEF ActorInv
<1>1. CASE UNCHANGED launch
  <2>1. SUFFICES ASSUME launch.pc = "resolved"
                 PROVE  Evident(launch.office, launch.attempt, launch.candidate, launch.evidence)'
    BY <1>1 DEF LaunchOK, ActorInv
  <2>2. PICK office, a, k, evidence :
          /\ office = launch.office /\ a = launch.attempt /\ k = launch.candidate
          /\ evidence = launch.evidence
    OBVIOUS
  <2>3. Evident(office, a, k, evidence)
    BY <2>1, <2>2 DEF ActorInv, LaunchOK
  <2>4. Evident(office, a, k, evidence)'
    BY <1>0, <2>3, EvidentKept
  <2> QED BY <1>1, <2>2, <2>4 DEF Evident, ProposalEvidence, CandidateEvidence, ReviewEvidence, DecisionEvidence
<1>2. ASSUME NEW c \in CampaignId, NEW office \in Office, NEW a \in AttemptId \cup {0},
             NEW k \in CandidateId \cup {0}, ResolveLaunchContext(c, office, a, k)
      PROVE  LaunchOK'
  <2> DEFINE e == ExactAssignmentEvidence(office, a, k)
  <2>1. Evident(office, a, k, e)
    BY <1>0, <1>2, ResolvedEvident DEF ResolveLaunchContext
  <2>2. /\ launch' = [pc |-> "resolved", campaign |-> c, office |-> office, attempt |-> a,
                      candidate |-> k, revision |-> campaign[c].rev, evidence |-> e]
        /\ UNCHANGED <<attempt, candidate>>
    BY <1>2 DEF ResolveLaunchContext, vars
  <2> HIDE DEF e
  <2> QED BY <2>1, <2>2 DEF LaunchOK, Evident, ProposalEvidence, CandidateEvidence, ReviewEvidence, DecisionEvidence
<1>3. CASE launch'.pc # "resolved"
    BY <1>3 DEF LaunchOK
<1>4. NoLaunch.pc # "resolved" /\ [NoLaunch EXCEPT !.pc = "created"].pc # "resolved"
        /\ [NoLaunch EXCEPT !.pc = "attend"].pc # "resolved"
    BY DEF NoLaunch
<1>5. CASE LaunchStep
    BY <1>2, <1>3, <1>4, <1>5 DEF LaunchStep, CreateTypedAssignment, AdmitSession, LaunchFails
<1>6. CASE HostStep
    BY <1>1, <1>3, <1>4, <1>6, CallsKeepSession
    DEF HostStep, CallStep, SessionCompletes, SessionStops, SessionOver
<1>7. CASE RpcStep \/ DriverStep \/ OperatorCommand
    BY <1>1, <1>7, CallsKeepSession DEF CallStep
<1> QED BY <1>1, <1>5, <1>6, <1>7 DEF ActorNext, actorVars

\* A packet that stays keeps its row and its evidence.
LEMMA PacketStays ==
    ASSUME ActorInv, [ActorNext]_<<vars, actorVars>>, UNCHANGED packet,
           packet.session # 0 => /\ session'[packet.session].office = session[packet.session].office
                                 /\ session'[packet.session].state # "Absent",
           launch'.pc = "created" => launch.pc = "created"
    PROVE  PacketOK'
<1>0. RowsOK /\ [Next]_vars
    BY ActorIsStep DEF ActorInv
<1>1. CASE packet.session = 0
    BY <1>1 DEF ActorInv, PacketOK
<1>2. CASE packet.session # 0
  <2>1. PICK office, a, k, evidence :
          /\ office = packet.office /\ a = packet.attempt /\ k = packet.candidate
          /\ evidence = packet.evidence
    OBVIOUS
  <2>2. Evident(office, a, k, evidence)
    BY <1>2, <2>1 DEF ActorInv, PacketOK
  <2>3. Evident(office, a, k, evidence)'
    BY <1>0, <2>2, EvidentKept
  <2>4. Evident(packet.office, packet.attempt, packet.candidate, packet.evidence)'
    BY <2>1, <2>3 DEF Evident, ProposalEvidence, CandidateEvidence, ReviewEvidence,
                      DecisionEvidence
  <2> QED BY <1>2, <2>4 DEF ActorInv, PacketOK
<1> QED BY <1>1, <1>2

\* The packet belongs to its assignment row from its creation to its end.
LEMMA PacketKept ==
    ASSUME ActorInv, [ActorNext]_<<vars, actorVars>>
    PROVE  PacketOK'
<1>0. RowsOK /\ TypeOK
    BY DEF ActorInv, RowsOK
<1>1. CASE UNCHANGED <<session, launch, packet>>
  <2>1. packet.session # 0 => /\ session'[packet.session].office = session[packet.session].office
                              /\ session'[packet.session].state # "Absent"
    BY <1>1 DEF ActorInv, PacketOK
  <2> QED BY <1>1, <2>1, PacketStays
<1>2. ASSUME NEW c \in CampaignId, NEW office \in Office, NEW a \in AttemptId \cup {0},
             NEW k \in CandidateId \cup {0}, ResolveLaunchContext(c, office, a, k)
      PROVE  PacketOK'
  <2>1. UNCHANGED <<session, packet>> /\ launch'.pc = "resolved"
    BY <1>2 DEF ResolveLaunchContext, vars
  <2>2. packet.session # 0 => /\ session'[packet.session].office = session[packet.session].office
                              /\ session'[packet.session].state # "Absent"
    BY <2>1 DEF ActorInv, PacketOK
  <2> QED BY <2>1, <2>2, PacketStays
<1>3. ASSUME NEW s \in SessionId, CreateTypedAssignment(s) PROVE PacketOK'
  <2>1. /\ packet' = [session |-> s, office |-> launch.office, attempt |-> launch.attempt,
                      candidate |-> launch.candidate, evidence |-> launch.evidence]
        /\ launch.pc = "resolved"
    BY <1>3 DEF CreateTypedAssignment
  <2>2. /\ session' = [session EXCEPT ![s] =
                         [state |-> "Prepared", office |-> launch.office,
                          campaign |-> launch.campaign, attempt |-> launch.attempt,
                          candidate |-> launch.candidate]]
        /\ UNCHANGED <<attempt, candidate>>
    BY <1>3 DEF CreateTypedAssignment, CreateAssignment
  <2>3. session'[s].state = "Prepared" /\ session'[s].office = launch.office
    BY <1>0, <2>2 DEF TypeOK
  <2>4. Evident(launch.office, launch.attempt, launch.candidate, launch.evidence)
    BY <2>1 DEF ActorInv, LaunchOK
  <2>5. Evident(packet.office, packet.attempt, packet.candidate, packet.evidence)'
    BY <2>1, <2>2, <2>4 DEF Evident, ProposalEvidence, CandidateEvidence, ReviewEvidence,
                            DecisionEvidence
  <2>6. s # 0
    BY BoundsAssumption DEF SessionId
  <2> QED BY <2>1, <2>3, <2>5, <2>6 DEF PacketOK
<1>4. CASE AdmitSession
  <2>1. UNCHANGED packet /\ launch'.pc = "attend" /\ StartSession(packet.session)
    BY <1>4 DEF AdmitSession, NoLaunch
  <2>2. packet.session \in SessionId
    BY <1>4 DEF AdmitSession, ActorInv, PacketOK
  <2>3. /\ session'[packet.session].office = session[packet.session].office
        /\ session'[packet.session].state # "Absent"
    BY <1>0, <2>1, <2>2 DEF StartSession, TypeOK, SessionRow
  <2> QED BY <2>1, <2>3, PacketStays
<1>5. CASE packet' = NoPacket /\ launch' = NoLaunch
    BY <1>5 DEF PacketOK, NoPacket, NoLaunch
<1>6. CASE LaunchStep
    BY <1>2, <1>3, <1>4, <1>5, <1>6 DEF LaunchStep, LaunchFails
<1>7. CASE HostStep
    BY <1>1, <1>5, <1>7, CallsKeepSession
    DEF HostStep, CallStep, SessionCompletes, SessionStops, SessionOver
<1>8. CASE RpcStep \/ DriverStep \/ OperatorCommand
    BY <1>1, <1>8, CallsKeepSession DEF CallStep
<1>9. CASE UNCHANGED <<vars, actorVars>>
    BY <1>1, <1>9 DEF vars, actorVars
<1> QED BY <1>6, <1>7, <1>8, <1>9 DEF ActorNext

-----------------------------------------------------------------------------
(* What the calls do to the two phase machines                             *)

\* The fields of the host that no call but its own answer may move.
HostStands == host'.phase = host.phase /\ host'.pending = host.pending

\* Recording a tool call concerns none of the fields the gate compares.
LEMMA RecordEffect ==
    ASSUME DOMAIN host = HostFields, NEW op
    PROVE  LET h == RecordToolCall(host, op) IN
           /\ DOMAIN h = HostFields
           /\ h.phase = host.phase /\ h.changed = host.changed /\ h.pending = host.pending
           /\ h.call = host.call /\ h.answer = host.answer
BY DEF RecordToolCall, HostFields

\* A call goes on the wire: a candidate only past the checkpoint.
LEMMA InvokeEffect ==
    ASSUME FieldsOK, NEW op \in Operation, InvokeRequest(op)
    PROVE  /\ FieldsOK'
           /\ HostStands /\ host'.changed = host.changed /\ rpc'.phase = rpc.phase
           /\ host'.call = op /\ host'.answer = host.answer
           /\ op = "candidate_submit" => host.phase # "AwaitingCheckpoint"
           /\ host.call = "None" /\ op # "None"
<1>1. /\ host' = [RecordToolCall(host, op) EXCEPT !.call = op]
      /\ rpc' = [rpc EXCEPT !.step = "Begin"]
      /\ host.call = "None"
      /\ op = "candidate_submit" => host.phase # "AwaitingCheckpoint"
    BY DEF InvokeRequest
<1> DEFINE h == RecordToolCall(host, op)
<1>2. /\ DOMAIN h = HostFields
      /\ h.phase = host.phase /\ h.changed = host.changed /\ h.pending = host.pending
      /\ h.answer = host.answer
    BY RecordEffect DEF FieldsOK
<1>3. host' = [h EXCEPT !.call = op]
    BY <1>1
<1> HIDE DEF h
<1> QED BY <1>1, <1>2, <1>3 DEF FieldsOK, HostFields, RpcFields, HostStands, Operation

\* An edit or a shell command runs only past the checkpoint.
LEMMA LocalEffect ==
    ASSUME FieldsOK, NEW op \in LocalTool, InvokeLocalTool(op)
    PROVE  /\ FieldsOK'
           /\ HostStands /\ host'.call = host.call /\ host'.answer = host.answer
           /\ UNCHANGED rpc
           /\ host.phase # "AwaitingCheckpoint"
<1>1. /\ host' = [RecordToolCall(host, op) EXCEPT !.changed = TRUE]
      /\ UNCHANGED rpc
      /\ RequireCheckpoint(op)
    BY DEF InvokeLocalTool
<1> DEFINE h == RecordToolCall(host, op)
<1>2. /\ DOMAIN h = HostFields
      /\ h.phase = host.phase /\ h.pending = host.pending
      /\ h.call = host.call /\ h.answer = host.answer
    BY RecordEffect DEF FieldsOK
<1>3. host' = [h EXCEPT !.changed = TRUE]
    BY <1>1
<1>4. host.phase # "AwaitingCheckpoint"
    BY <1>1 DEF RequireCheckpoint, LocalTool
<1> HIDE DEF h
<1> QED BY <1>1, <1>2, <1>3, <1>4 DEF FieldsOK, HostFields, HostStands

\* An answer moves the host's phase and defers a terminal only when the daemon
\* accepted the call.
LEMMA ReceiveEffect ==
    ASSUME FieldsOK, ReceiveAnswer
    PROVE  /\ FieldsOK'
           /\ host'.call = "None" /\ host'.answer = "None" /\ host'.changed = host.changed
           /\ UNCHANGED rpc
           /\ \/ host'.phase = host.phase
              \/ /\ host'.phase \in {"Implementing", "Submitted"}
                 /\ \/ Accepted("candidate_checkpoint_regression")
                    \/ Accepted("candidate_submit")
           /\ \/ host'.pending \in {host.pending, "work_complete"}
              \/ Accepted(host'.pending)
           /\ host.answer # "None"
<1> DEFINE h == Settled(host)
<1>1. /\ DOMAIN h = HostFields
      /\ h.changed = host.changed
      /\ \/ h.phase = host.phase
         \/ /\ h.phase \in {"Implementing", "Submitted"}
            /\ \/ Accepted("candidate_checkpoint_regression")
               \/ Accepted("candidate_submit")
      /\ h.pending \in {host.pending, "work_complete"} \/ Accepted(h.pending)
  <2> USE DEF FieldsOK, HostFields, Settled, Accepted
  <2>1. CASE host.answer = "Rejected"
    BY <2>1
  <2>2. CASE host.answer # "Rejected" /\ Accepted("product_submit_ticket")
    BY <2>2
  <2>3. CASE host.answer # "Rejected" /\ Accepted("candidate_checkpoint_regression")
    BY <2>3
  <2>4. CASE host.answer # "Rejected" /\ Accepted("candidate_submit")
    BY <2>4
  <2>5. CASE host.answer # "Rejected" /\ Accepted("quality_submit_review")
    BY <2>5
  <2>6. CASE /\ host.answer # "Rejected"
             /\ \A op \in {"product_submit_ticket", "candidate_checkpoint_regression",
                           "candidate_submit", "quality_submit_review"} : ~Accepted(op)
    BY <2>6
  <2> QED BY <2>1, <2>2, <2>3, <2>4, <2>5, <2>6
<1>2. host' = [h EXCEPT !.call = "None", !.answer = "None"] /\ UNCHANGED rpc /\ host.answer # "None"
    BY DEF ReceiveAnswer
<1> HIDE DEF h
<1>3. /\ DOMAIN host' = HostFields
      /\ host'.call = "None" /\ host'.answer = "None" /\ host'.changed = h.changed
      /\ host'.phase = h.phase /\ host'.pending = h.pending
    BY <1>1, <1>2 DEF HostFields
<1> QED BY <1>1, <1>2, <1>3 DEF FieldsOK

\* A handler that goes on keeps the host as it is; one that returns leaves an
\* answer and is idle.  The daemon's phase never falls back behind the
\* checkpoint.
Proceeds ==
    /\ FieldsOK'
    /\ rpc.phase \notin BeforeCheckpoint => rpc'.phase \notin BeforeCheckpoint
    /\ rpc.step # "Idle"
    /\ UNCHANGED host

Returns(answer) ==
    /\ FieldsOK'
    /\ rpc.phase \notin BeforeCheckpoint => rpc'.phase \notin BeforeCheckpoint
    /\ rpc.step # "Idle" /\ rpc'.step = "Idle"
    /\ HostStands /\ host'.changed = host.changed /\ host'.call = host.call
    /\ host'.answer = answer

\* How a handler returns.
LEMMA AnswerEffect ==
    ASSUME FieldsOK, NEW answer, NEW next, DOMAIN next = RpcFields, AnswerWith(answer, next),
           rpc.phase \notin BeforeCheckpoint => next.phase \notin BeforeCheckpoint,
           rpc.step # "Idle"
    PROVE  Returns(answer) /\ rpc'.phase = next.phase
<1>1. host' = [host EXCEPT !.answer = answer] /\ rpc' = [next EXCEPT !.step = "Idle"]
    BY DEF AnswerWith
<1>2. DOMAIN rpc' = RpcFields /\ rpc'.step = "Idle" /\ rpc'.phase = next.phase
    BY <1>1 DEF RpcFields
<1>3. /\ DOMAIN host' = HostFields /\ HostStands /\ host'.changed = host.changed
      /\ host'.call = host.call /\ host'.answer = answer
    BY <1>1 DEF FieldsOK, HostFields, HostStands
<1> QED BY <1>2, <1>3 DEF Returns, FieldsOK

\* Giving a call up takes the phase back, but not behind the checkpoint.
LEMMA AbandonedEffect ==
    ASSUME FieldsOK
    PROVE  /\ DOMAIN Abandoned(rpc) = RpcFields
           /\ rpc.phase \notin BeforeCheckpoint => Abandoned(rpc).phase \notin BeforeCheckpoint
BY DEF FieldsOK, RpcFields, Abandoned, BeforeCheckpoint

\* Every step of a handler, with what an accepted answer shows.
LEMMA RpcEffect ==
    ASSUME FieldsOK, RpcStep
    PROVE  /\ Attended
           /\ \/ Proceeds
              \/ Returns("Rejected")
              \/ /\ Returns("Accepted")
                 /\ host.call = "candidate_checkpoint_regression" => rpc'.phase \notin BeforeCheckpoint
                 /\ host.call \in {"candidate_submit", "quality_submit_review"} =>
                      ValidateCandidate \/ StoreReview
<1> DEFINE Known == host.call = "candidate_checkpoint_regression" => rpc'.phase \notin BeforeCheckpoint
           Goal == /\ Attended
                   /\ \/ Proceeds
                      \/ Returns("Rejected")
                      \/ /\ Returns("Accepted")
                         /\ Known
                         /\ host.call \in {"candidate_submit", "quality_submit_review"} =>
                              ValidateCandidate \/ StoreReview
<1>1. CASE WorkspaceRead
  <2>1. PICK complete \in BOOLEAN :
          AnswerWith("Accepted", [rpc EXCEPT !.reads = @ \/ complete])
    BY <1>1 DEF WorkspaceRead
  <2>2. /\ DOMAIN [rpc EXCEPT !.reads = @ \/ complete] = RpcFields
        /\ [rpc EXCEPT !.reads = @ \/ complete].phase = rpc.phase
    BY DEF FieldsOK, RpcFields
  <2>3. Attended /\ rpc.step # "Idle" /\ host.call = "workspace_read"
    BY <1>1 DEF WorkspaceRead, Handling
  <2>4. Returns("Accepted")
    BY <2>1, <2>2, <2>3, AnswerEffect
  <2> QED BY <2>3, <2>4
<1>2. CASE ReadAssignmentArtifact
  <2>1. PICK answer \in {"Accepted", "Rejected"} : AnswerWith(answer, rpc)
    BY <1>2 DEF ReadAssignmentArtifact
  <2>2. Attended /\ rpc.step # "Idle" /\ host.call = "artifact_read"
    BY <1>2 DEF ReadAssignmentArtifact, Handling
  <2>3. Returns(answer)
    BY <2>1, <2>2, AnswerEffect DEF FieldsOK
  <2> QED BY <2>1, <2>2, <2>3
<1>3. CASE SubmitProductTicket
  <2>1. AnswerWith("Accepted", rpc)
    BY <1>3 DEF SubmitProductTicket
  <2>2. Attended /\ rpc.step # "Idle" /\ host.call = "product_submit_ticket"
    BY <1>3 DEF SubmitProductTicket, Handling
  <2>3. Returns("Accepted")
    BY <2>1, <2>2, AnswerEffect DEF FieldsOK
  <2> QED BY <2>2, <2>3
<1>4. CASE BeginCheckpoint
    BY <1>4 DEF BeginCheckpoint, Handling, Continue, Proceeds, FieldsOK, RpcFields, BeforeCheckpoint
<1>5. CASE ResolveEngineering
    BY <1>5 DEF ResolveEngineering, Handling, Continue, Proceeds, FieldsOK, RpcFields
<1>6. CASE AcceptCheckpoint
  <2>1. AnswerWith("Accepted", [rpc EXCEPT !.phase = "Implementing"])
    BY <1>6 DEF AcceptCheckpoint
  <2>2. /\ DOMAIN [rpc EXCEPT !.phase = "Implementing"] = RpcFields
        /\ [rpc EXCEPT !.phase = "Implementing"].phase \notin BeforeCheckpoint
    BY DEF FieldsOK, RpcFields, BeforeCheckpoint
  <2>3. Attended /\ rpc.step # "Idle" /\ host.call = "candidate_checkpoint_regression"
    BY <1>6 DEF AcceptCheckpoint, Handling
  <2>4. Returns("Accepted") /\ Known
    BY <2>1, <2>2, <2>3, AnswerEffect
  <2> QED BY <2>3, <2>4
<1>7. CASE BeginSubmission
    BY <1>7 DEF BeginSubmission, Handling, Continue, Proceeds, FieldsOK, RpcFields, BeforeCheckpoint
<1>8. CASE StoreCandidate
    BY <1>8 DEF StoreCandidate, Handling, Continue, Proceeds, FieldsOK, RpcFields
<1>9. CASE ValidateCandidate
  <2>1. PICK answer \in {"Accepted", "Rejected"} :
          AnswerWith(answer, [rpc EXCEPT !.phase = "Submitted"])
    BY <1>9 DEF ValidateCandidate
  <2>2. /\ DOMAIN [rpc EXCEPT !.phase = "Submitted"] = RpcFields
        /\ [rpc EXCEPT !.phase = "Submitted"].phase \notin BeforeCheckpoint
    BY DEF FieldsOK, RpcFields, BeforeCheckpoint
  <2>3. Attended /\ rpc.step # "Idle" /\ host.call = "candidate_submit"
    BY <1>9 DEF ValidateCandidate, Handling
  <2>4. Returns(answer)
    BY <2>1, <2>2, <2>3, AnswerEffect
  <2> QED BY <1>9, <2>1, <2>3, <2>4
<1>10. CASE BeginFullSuite \/ ResolveFullSuite
    BY <1>10 DEF BeginFullSuite, ResolveFullSuite, Handling, Continue, Proceeds, FieldsOK, RpcFields
<1>11. CASE StoreFullSuite
  <2>1. PICK result \in {"Passed", "NotPassed"} :
          AnswerWith("Accepted",
            [rpc EXCEPT !.suiteInFlight = FALSE, !.suite = result,
                        !.authority.attempt = attempt'[packet.attempt].rev,
                        !.authority.candidate = candidate'[packet.candidate].rev])
    BY <1>11 DEF StoreFullSuite
  <2> DEFINE next == [rpc EXCEPT !.suiteInFlight = FALSE, !.suite = result,
                        !.authority.attempt = attempt'[packet.attempt].rev,
                        !.authority.candidate = candidate'[packet.candidate].rev]
  <2>2. DOMAIN next = RpcFields /\ next.phase = rpc.phase
    BY DEF FieldsOK, RpcFields
  <2>3. Attended /\ rpc.step # "Idle" /\ host.call = "quality_run_full_suite"
    BY <1>11 DEF StoreFullSuite, Handling
  <2>4. AnswerWith("Accepted", next)
    BY <2>1
  <2> HIDE DEF next
  <2>5. Returns("Accepted")
    BY <2>2, <2>3, <2>4, AnswerEffect
  <2> QED BY <2>3, <2>5
<1>12. CASE BeginReview
    BY <1>12 DEF BeginReview, Handling, Continue, Proceeds, FieldsOK, RpcFields
<1>13. CASE StoreReview
  <2> DEFINE next == [rpc EXCEPT !.reviewInFlight = FALSE, !.reviewSubmitted = TRUE]
  <2>1. AnswerWith("Accepted", next)
    BY <1>13 DEF StoreReview
  <2>2. DOMAIN next = RpcFields /\ next.phase = rpc.phase
    BY DEF FieldsOK, RpcFields
  <2>3. Attended /\ rpc.step # "Idle" /\ host.call = "quality_submit_review"
    BY <1>13 DEF StoreReview, Handling
  <2> HIDE DEF next
  <2>4. Returns("Accepted")
    BY <2>1, <2>2, <2>3, AnswerEffect
  <2> QED BY <1>13, <2>3, <2>4
<1>14. CASE RejectCall
  <2>1. Attended /\ rpc.step # "Idle" /\ AnswerWith("Rejected", Abandoned(rpc))
    BY <1>14 DEF RejectCall
  <2>2. Returns("Rejected")
    BY <2>1, AbandonedEffect, AnswerEffect
  <2> QED BY <2>1, <2>2
<1> QED
    BY <1>1, <1>2, <1>3, <1>4, <1>5, <1>6, <1>7, <1>8, <1>9, <1>10, <1>11, <1>12, <1>13, <1>14
    DEF RpcStep

\* A new host and a new handler state have their fields.
LEMMA NewFields ==
    /\ \A office : DOMAIN NewHost(office) = HostFields
    /\ DOMAIN NewRpc = RpcFields
BY DEF NewHost, NewRpc, HostFields, RpcFields

\* Host and handler keep their fields.
LEMMA FieldsKept ==
    ASSUME FieldsOK, [ActorNext]_<<vars, actorVars>>
    PROVE  FieldsOK'
<1>1. CASE UNCHANGED <<host, rpc>>
    BY <1>1 DEF FieldsOK
<1>2. CASE (\E office : host' = NewHost(office)) /\ rpc' = NewRpc
    BY <1>2, NewFields DEF FieldsOK
<1>3. CASE LaunchStep
    BY <1>1, <1>2, <1>3 DEF LaunchStep, ResolveLaunchContext, CreateTypedAssignment, AdmitSession,
                            LaunchFails
<1>4. CASE HostStep
  <2>1. CASE DeferWorkComplete
    BY <2>1 DEF DeferWorkComplete, FieldsOK, HostFields
  <2> QED
    BY <1>2, <1>4, <2>1, InvokeEffect, LocalEffect, ReceiveEffect
    DEF HostStep, SessionCompletes, SessionStops, SessionOver
<1>5. CASE RpcStep
    BY <1>5, RpcEffect DEF Proceeds, Returns
<1>6. CASE DriverStep \/ OperatorCommand \/ UNCHANGED <<vars, actorVars>>
    BY <1>1, <1>6 DEF DriverStep, OperatorCommand, actorVars
<1> QED BY <1>3, <1>4, <1>5, <1>6 DEF ActorNext

\* A session that is attended after a step was admitted by it, or was attended
\* before; then only its own calls concern host and handler.
LEMMA Attending ==
    ASSUME ActorInv, [ActorNext]_<<vars, actorVars>>, Attended'
    PROVE  \/ AdmitSession
           \/ Attended /\ UNCHANGED packet /\ (CallStep \/ UNCHANGED <<host, rpc>>)
<1>1. ASSUME UNCHANGED <<session, packet>> PROVE Attended /\ UNCHANGED packet
    BY <1>1 DEF Attended, Running
<1>2. ASSUME packet' = NoPacket PROVE FALSE
    BY <1>2 DEF Attended, NoPacket
<1>3. ASSUME NEW s \in SessionId, CreateTypedAssignment(s) PROVE FALSE
  <2>1. packet'.session = s
    BY <1>3 DEF CreateTypedAssignment
  <2>2. session'[s].state = "Prepared"
    BY <1>3 DEF CreateTypedAssignment, CreateAssignment, ActorInv, RowsOK, TypeOK
  <2> QED BY <2>1, <2>2 DEF Attended, Running
<1>4. CASE LaunchStep
  <2>1. ASSUME NEW c \in CampaignId, NEW office \in Office, NEW a \in AttemptId \cup {0},
               NEW k \in CandidateId \cup {0}, ResolveLaunchContext(c, office, a, k)
        PROVE  UNCHANGED <<session, packet, host, rpc>>
    BY <2>1 DEF ResolveLaunchContext, vars
  <2>2. CASE UNCHANGED <<session, packet, host, rpc>>
    BY <2>2 DEF Attended, Running
  <2> QED BY <1>2, <1>3, <1>4, <2>1, <2>2 DEF LaunchStep, LaunchFails
<1>5. CASE CallStep
    BY <1>1, <1>5, CallsKeepSession DEF Attended, Running
<1>6. CASE DriverStep \/ OperatorCommand
  <2>1. UNCHANGED <<session, packet>>
    BY <1>6, CallsKeepSession
  <2>2. UNCHANGED <<host, rpc>>
    BY <1>6 DEF DriverStep, OperatorCommand, actorVars
  <2> QED BY <2>1, <2>2 DEF Attended, Running
<1>7. CASE HostStep \/ RpcStep
    BY <1>2, <1>5, <1>7 DEF HostStep, CallStep, SessionCompletes, SessionStops, SessionOver
<1>8. CASE UNCHANGED <<vars, actorVars>>
    BY <1>8 DEF vars, actorVars, Attended, Running
<1> QED BY <1>4, <1>6, <1>7, <1>8 DEF ActorNext

\* The two phase machines keep in step.
LEMMA GateKept ==
    ASSUME ActorInv, [ActorNext]_<<vars, actorVars>>
    PROVE  GateOK'
<1> SUFFICES ASSUME Attended' PROVE OneCall' /\ PhasesAgree'
    BY DEF GateOK
<1>1. CASE AdmitSession
  <2>1. host' = NewHost(packet.office) /\ rpc' = NewRpc /\ UNCHANGED packet
    BY <1>1 DEF AdmitSession
  <2>2. /\ host'.call = "None" /\ host'.answer = "None" /\ ~host'.changed
        /\ packet.office = "Engineering" => host'.phase = "AwaitingCheckpoint"
        /\ rpc'.step = "Idle"
    BY <2>1 DEF NewHost, NewRpc
  <2> QED BY <2>1, <2>2 DEF OneCall, PhasesAgree, Accepted
<1>2. CASE Attended /\ UNCHANGED packet /\ UNCHANGED <<host, rpc>>
    BY <1>2 DEF ActorInv, GateOK, OneCall, PhasesAgree, Accepted
<1>3. ASSUME Attended, UNCHANGED packet, CallStep PROVE OneCall' /\ PhasesAgree'
  <2>0. FieldsOK /\ OneCall /\ PhasesAgree /\ packet'.office = packet.office
    BY <1>3 DEF ActorInv, GateOK
  <2>1. ASSUME NEW op \in Operation, InvokeRequest(op) PROVE OneCall' /\ PhasesAgree'
    <3>1. /\ HostStands /\ host'.changed = host.changed /\ rpc'.phase = rpc.phase
          /\ host'.call = op /\ host'.answer = host.answer
          /\ op = "candidate_submit" => host.phase # "AwaitingCheckpoint"
          /\ host.call = "None" /\ op # "None"
      BY <2>0, <2>1, InvokeEffect
    <3>2. host.answer = "None"
      BY <2>0, <3>1 DEF OneCall
    <3> QED BY <2>0, <3>1, <3>2 DEF OneCall, PhasesAgree, HostStands, Accepted
  <2>2. ASSUME NEW op \in LocalTool, InvokeLocalTool(op) PROVE OneCall' /\ PhasesAgree'
    <3>1. /\ HostStands /\ host'.call = host.call /\ host'.answer = host.answer
          /\ UNCHANGED rpc
          /\ host.phase # "AwaitingCheckpoint"
      BY <2>0, <2>2, LocalEffect
    <3> QED BY <2>0, <3>1 DEF OneCall, PhasesAgree, HostStands, Accepted
  <2>3. CASE DeferWorkComplete
    <3>1. /\ host'.phase = host.phase /\ host'.call = host.call /\ host'.answer = host.answer
          /\ host'.changed = host.changed /\ UNCHANGED rpc
      BY <2>0, <2>3 DEF DeferWorkComplete, FieldsOK, HostFields
    <3> QED BY <2>0, <3>1 DEF OneCall, PhasesAgree, Accepted
  <2>4. CASE ReceiveAnswer
    <3>1. /\ host'.call = "None" /\ host'.answer = "None" /\ host'.changed = host.changed
          /\ UNCHANGED rpc /\ host.answer # "None"
          /\ \/ host'.phase = host.phase
             \/ /\ host'.phase \in {"Implementing", "Submitted"}
                /\ \/ Accepted("candidate_checkpoint_regression")
                   \/ Accepted("candidate_submit")
      BY <2>0, <2>4, ReceiveEffect
    <3>2. OneCall'
      BY <2>0, <3>1 DEF OneCall
    <3>3. PhasesAgree'
      BY <2>0, <3>1 DEF PhasesAgree, Accepted
    <3> QED BY <3>2, <3>3
  <2>5. CASE RpcStep
    <3>1. CASE Proceeds
      BY <2>0, <3>1 DEF Proceeds, OneCall, PhasesAgree, Accepted
    <3>2. CASE Returns("Rejected")
      BY <2>0, <3>2 DEF Returns, HostStands, OneCall, PhasesAgree, Accepted
    <3>3. CASE /\ Returns("Accepted")
               /\ host.call = "candidate_checkpoint_regression" => rpc'.phase \notin BeforeCheckpoint
      BY <2>0, <3>3 DEF Returns, HostStands, OneCall, PhasesAgree, Accepted
    <3> QED BY <2>0, <2>5, <3>1, <3>2, <3>3, RpcEffect
  <2> QED BY <1>3, <2>1, <2>2, <2>3, <2>4, <2>5 DEF CallStep
<1> QED BY <1>1, <1>2, <1>3, Attending

-----------------------------------------------------------------------------
(* The durable result of a session                                         *)

\* An accepted answer to a terminal call shows its result in the rows.
LEMMA AnswerBacked ==
    ASSUME ActorInv, FieldsOK', host'.answer = "Accepted"
    PROVE  /\ ValidateCandidate => Validated(packet.session)'
           /\ StoreReview => Reviewed(packet.session)'
<1>0. FieldsOK /\ TypeOK
    BY DEF ActorInv, RowsOK
<1>1. CASE ValidateCandidate
  <2>1. PICK k \in CandidateId, result \in {"Passed", "NotPassed"} :
          /\ candidate[k].engineeringSession = packet.session
          /\ RecordHardValidation(k, packet.session, candidate[k].rev,
                                  rpc.authority.attempt, result)
          /\ AnswerWith(IF result = "Passed" THEN "Accepted" ELSE "Rejected",
                        [rpc EXCEPT !.phase = "Submitted"])
    BY <1>1 DEF ValidateCandidate
  <2>2. host' = [host EXCEPT !.answer = IF result = "Passed" THEN "Accepted" ELSE "Rejected"]
        /\ UNCHANGED packet
    BY <2>1 DEF AnswerWith
  <2>3. result = "Passed"
    BY <1>0, <2>2 DEF FieldsOK, HostFields
  <2>4. candidate' = [candidate EXCEPT
                        ![k].hard = result,
                        ![k].state = IF result = "Passed" THEN "Validated" ELSE "Rejected",
                        ![k].rev = @ + 1]
    BY <2>1, Zenon DEF RecordHardValidation
  <2>5. candidate'[k].hard = "Passed" /\ candidate'[k].engineeringSession = packet.session
    BY <1>0, <2>1, <2>3, <2>4 DEF TypeOK, CandidateRow
  <2> QED BY <1>1, <2>2, <2>5 DEF Validated, ValidateCandidate, StoreReview, Handling
<1>2. CASE StoreReview
  <2> DEFINE k == packet.candidate
  <2>1. PICK verdict \in {"Accept", "Reject"} :
          SubmitQualityReview(k, packet.session,
                              rpc.authority.candidate, rpc.authority.attempt, verdict)
    BY <1>2 DEF StoreReview
  <2>2. /\ candidate[k].quality = "Passed"
        /\ session[packet.session].office = "Quality"
        /\ candidate' = [candidate EXCEPT ![k].review = verdict, ![k].qualitySession = packet.session,
                                          ![k].rev = @ + 1]
    BY <2>1, Zenon DEF SubmitQualityReview, RequireSession
  <2>3. k \in CandidateId
    BY <1>2, <2>2, AttendedTarget DEF StoreReview, Handling, ActorInv, PacketOK, Attended
  <2> HIDE DEF k
  <2>4. /\ candidate'[k].review = verdict /\ candidate'[k].qualitySession = packet.session
        /\ candidate'[k].quality = "Passed"
    BY <1>0, <2>2, <2>3 DEF TypeOK, CandidateRow
  <2>5. UNCHANGED packet
    BY <1>2 DEF StoreReview, AnswerWith
  <2> QED BY <1>2, <2>1, <2>3, <2>4, <2>5 DEF Reviewed, ValidateCandidate, StoreReview, Handling
<1> QED BY <1>1, <1>2

\* A deferred terminal keeps the result it stands for.
LEMMA DeferredKept ==
    ASSUME ActorInv, [ActorNext]_<<vars, actorVars>>
    PROVE  ResultOK'
<1> SUFFICES ASSUME Attended' PROVE DeferredBacked'
    BY DEF ResultOK
<1>0. RowsOK /\ [Next]_vars /\ FieldsOK /\ FieldsOK'
    BY ActorIsStep, FieldsKept DEF ActorInv
<1>1. CASE AdmitSession
  <2>1. host'.pending = "None" /\ host'.answer = "None"
    BY <1>1 DEF AdmitSession, NewHost
  <2> QED BY <2>1 DEF DeferredBacked, Accepted
<1>2. ASSUME Attended, UNCHANGED packet
      PROVE  /\ DeferredBacked /\ OneCall
             /\ Validated(packet.session) => Validated(packet.session)'
             /\ Reviewed(packet.session) => Reviewed(packet.session)'
  <2>1. DeferredBacked /\ OneCall /\ packet.session \in SessionId
    BY <1>2, AttendedTarget DEF ActorInv, ResultOK, GateOK
  <2>2. PICK s \in SessionId : s = packet.session
    BY <2>1
  <2>3. (Validated(s) => Validated(s)') /\ (Reviewed(s) => Reviewed(s)')
    BY <1>0, ResultKept
  <2>4. packet'.session = packet.session
    BY <1>2
  <2> QED BY <2>1, <2>2, <2>3, <2>4 DEF Validated, Reviewed
<1>3. ASSUME Attended, UNCHANGED packet,
             host'.pending \in {host.pending, "work_complete"} \/ Accepted(host'.pending),
             host'.answer = "Accepted" =>
               \/ host'.answer = host.answer /\ host'.call = host.call
               \/ host'.call \notin {"candidate_submit", "quality_submit_review"}
      PROVE  DeferredBacked'
    BY <1>2, <1>3 DEF DeferredBacked, Accepted
<1>4. ASSUME Attended, UNCHANGED packet, CallStep PROVE DeferredBacked'
  <2>1. ASSUME NEW op \in Operation, InvokeRequest(op) PROVE DeferredBacked'
    <3>1. HostStands /\ host'.answer = host.answer /\ host.call = "None"
      BY <1>0, <2>1, InvokeEffect
    <3>2. host.answer = "None"
      BY <1>2, <1>4, <3>1 DEF OneCall
    <3> QED BY <1>3, <1>4, <3>1, <3>2 DEF HostStands
  <2>2. ASSUME NEW op \in LocalTool, InvokeLocalTool(op) PROVE DeferredBacked'
    <3>1. HostStands /\ host'.answer = host.answer /\ host'.call = host.call
      BY <1>0, <2>2, LocalEffect
    <3> QED BY <1>3, <1>4, <3>1 DEF HostStands
  <2>3. CASE DeferWorkComplete
    <3>1. host'.pending = "work_complete" /\ host'.answer = host.answer /\ host'.call = host.call
      BY <1>0, <2>3 DEF DeferWorkComplete, FieldsOK, HostFields
    <3> QED BY <1>3, <1>4, <3>1
  <2>4. CASE ReceiveAnswer
    <3>1. /\ host'.answer = "None"
          /\ host'.pending \in {host.pending, "work_complete"} \/ Accepted(host'.pending)
      BY <1>0, <2>4, ReceiveEffect
    <3> QED BY <1>3, <1>4, <3>1
  <2>5. CASE RpcStep
    <3>1. CASE Proceeds
      BY <1>3, <1>4, <3>1 DEF Proceeds
    <3>2. CASE Returns("Rejected")
      BY <1>3, <1>4, <3>2 DEF Returns, HostStands
    <3>3. CASE /\ Returns("Accepted")
               /\ host.call \notin {"candidate_submit", "quality_submit_review"}
      BY <1>3, <1>4, <3>3 DEF Returns, HostStands
    <3>4. CASE Returns("Accepted") /\ ValidateCandidate
      <4>1. Validated(packet.session)'
        BY <1>0, <3>4, AnswerBacked DEF Returns
      <4>2. host'.pending = host.pending /\ host'.call = "candidate_submit"
        BY <3>4 DEF Returns, HostStands, ValidateCandidate, Handling
      <4> QED BY <1>2, <1>4, <4>1, <4>2 DEF DeferredBacked, Accepted
    <3>5. CASE Returns("Accepted") /\ StoreReview
      <4>1. Reviewed(packet.session)'
        BY <1>0, <3>5, AnswerBacked DEF Returns
      <4>2. host'.pending = host.pending /\ host'.call = "quality_submit_review"
        BY <3>5 DEF Returns, HostStands, StoreReview, Handling
      <4> QED BY <1>2, <1>4, <4>1, <4>2 DEF DeferredBacked, Accepted
    <3> QED BY <1>0, <2>5, <3>1, <3>2, <3>3, <3>4, <3>5, RpcEffect
  <2> QED BY <1>4, <2>1, <2>2, <2>3, <2>4, <2>5 DEF CallStep
<1>5. CASE Attended /\ UNCHANGED packet /\ UNCHANGED <<host, rpc>>
    BY <1>3, <1>5
<1> QED BY <1>1, <1>4, <1>5, Attending

\* A session row that has succeeded stays so, and a row that succeeds in a step
\* is the attended one, with the terminal its office requires.
LEMMA SuccessIsDeferred ==
    ASSUME ActorInv, [ActorNext]_<<vars, actorVars>>, NEW s \in SessionId,
           session'[s].state = "Succeeded"
    PROVE  /\ session'[s].office = session[s].office
           /\ \/ session[s].state = "Succeeded"
              \/ /\ Attended /\ s = packet.session /\ UNCHANGED candidate
                 /\ host.pending = TerminalOperation(packet.office)
<1>0. TypeOK
    BY DEF ActorInv, RowsOK
<1>1. CASE UNCHANGED session
    BY <1>1
<1>2. ASSUME NEW r \in SessionId, CreateTypedAssignment(r)
      PROVE  session'[s] = session[s]
  <2>1. session'[r].state = "Prepared" /\ \A q \in SessionId : q # r => session'[q] = session[q]
    BY <1>0, <1>2 DEF CreateTypedAssignment, CreateAssignment, TypeOK
  <2> QED BY <2>1
<1>3. CASE AdmitSession
  <2>1. packet.session \in SessionId
    BY <1>3 DEF AdmitSession, ActorInv, PacketOK
  <2>2. /\ session'[packet.session].state = "Running"
        /\ \A q \in SessionId : q # packet.session => session'[q] = session[q]
    BY <1>0, <1>3, <2>1 DEF AdmitSession, StartSession, TypeOK, SessionRow
  <2> QED BY <2>2
<1>4. ASSUME Attended, NEW stop \in StopReason, NEW cost, TerminalSession(packet.session, stop, cost)
      PROVE  /\ session'[s].office = session[s].office
             /\ s # packet.session => session'[s] = session[s]
             /\ s = packet.session => stop = "Completed"
             /\ UNCHANGED candidate
  <2>1. session' = [session EXCEPT ![packet.session].state = SessionStateOf(stop)]
        /\ UNCHANGED candidate
    BY <1>4, Zenon DEF TerminalSession
  <2>2. packet.session \in SessionId
    BY <1>4, AttendedTarget DEF ActorInv
  <2>3. stop # "Completed" => SessionStateOf(stop) # "Succeeded"
    BY <1>4 DEF SessionStateOf, StopReason
  <2> QED BY <1>0, <2>1, <2>2, <2>3 DEF TypeOK, SessionRow
<1>5. CASE SessionCompletes
  <2>1. /\ Attended /\ TerminalSession(packet.session, "Completed", "Within")
        /\ host.pending = TerminalOperation(packet.office)
    BY <1>5 DEF SessionCompletes, TerminalAdmitted
  <2>2. "Completed" \in StopReason
    BY DEF StopReason
  <2> QED BY <1>4, <2>1, <2>2
<1>6. ASSUME NEW stop \in StopReason, NEW cost \in SessionCost, SessionStops(stop, cost)
      PROVE  session'[s] = session[s]
    BY <1>4, <1>6 DEF SessionStops
<1>7. CASE LaunchStep
    BY <1>1, <1>2, <1>3, <1>7 DEF LaunchStep, ResolveLaunchContext, LaunchFails, vars
<1>8. CASE HostStep \/ RpcStep
    BY <1>1, <1>5, <1>6, <1>8, CallsKeepSession DEF HostStep, CallStep
<1>9. CASE DriverStep \/ OperatorCommand \/ UNCHANGED <<vars, actorVars>>
    BY <1>1, <1>9, CallsKeepSession DEF vars
<1> QED BY <1>7, <1>8, <1>9 DEF ActorNext

\* Success keeps its result.
LEMMA TerminalKept ==
    ASSUME ActorInv, [ActorNext]_<<vars, actorVars>>
    PROVE  TerminalBacked'
<1>0. RowsOK /\ [Next]_vars
    BY ActorIsStep DEF ActorInv
<1>1. SUFFICES ASSUME NEW s \in SessionId, session'[s].state = "Succeeded"
               PROVE  /\ session'[s].office = "Engineering" => Validated(s)'
                      /\ session'[s].office = "Quality" => Reviewed(s)'
    BY DEF TerminalBacked, Validated, Reviewed
<1>2. (Validated(s) => Validated(s)') /\ (Reviewed(s) => Reviewed(s)')
    BY <1>0, ResultKept
<1>3. session'[s].office = session[s].office
    BY <1>1, SuccessIsDeferred
<1>4. CASE session[s].state = "Succeeded"
  <2>1. /\ session[s].office = "Engineering" => Validated(s)
        /\ session[s].office = "Quality" => Reviewed(s)
    BY <1>4 DEF ActorInv, TerminalBacked, Validated, Reviewed
  <2> QED BY <1>2, <1>3, <2>1
<1>5. CASE Attended /\ s = packet.session /\ host.pending = TerminalOperation(packet.office)
  <2>1. session[s].office = packet.office /\ DeferredBacked
    BY <1>5 DEF ActorInv, PacketOK, ResultOK, Attended
  <2>2. /\ packet.office = "Engineering" => host.pending = "candidate_submit"
        /\ packet.office = "Quality" => host.pending = "quality_submit_review"
    BY <1>5 DEF TerminalOperation
  <2>3. /\ packet.office = "Engineering" => Validated(s)
        /\ packet.office = "Quality" => Reviewed(s)
    BY <1>5, <2>1, <2>2 DEF DeferredBacked
  <2> QED BY <1>2, <1>3, <2>1, <2>3
<1> QED BY <1>1, <1>4, <1>5, SuccessIsDeferred

-----------------------------------------------------------------------------
(* The theorems                                                            *)

\* The invariant: the links between the rows, the launch and its packet, the
\* agreement of the two phase machines, and the result behind every terminal.
LEMMA ActorInvariant == ActorSpec => []ActorInv
<1>1. ActorInit => ActorInv
  <2> SUFFICES ASSUME ActorInit PROVE ActorInv
    OBVIOUS
  <2>1. RowsOK
    BY InitTypeOK DEF ActorInit, Init, RowsOK, RowLinks, SessionLinks, AttemptLinks, CandidateLinks,
       SoundCandidates, SoundCandidate, SubmitterLinks, Running, NoSession, NoAttempt, NoCandidate
  <2>2. LaunchOK /\ PacketOK /\ ~Attended
    BY DEF ActorInit, LaunchOK, PacketOK, NoLaunch, NoPacket, Attended
  <2>3. FieldsOK
    BY NewFields DEF ActorInit, FieldsOK
  <2>4. TerminalBacked
    BY DEF ActorInit, Init, TerminalBacked, NoSession
  <2> QED BY <2>1, <2>2, <2>3, <2>4 DEF ActorInv, GateOK, ResultOK
<1>2. ActorInv /\ [ActorNext]_<<vars, actorVars>> => ActorInv'
  <2> SUFFICES ASSUME ActorInv, [ActorNext]_<<vars, actorVars>> PROVE ActorInv'
    OBVIOUS
  <2>1. RowsOK'
    BY ActorIsStep, RowsKept DEF ActorInv
  <2>2. FieldsOK'
    BY FieldsKept DEF ActorInv
  <2> QED
    BY <2>1, <2>2, LaunchKept, PacketKept, GateKept, DeferredKept, TerminalKept DEF ActorInv
<1> QED BY <1>1, <1>2, PTL DEF ActorSpec

\* A session from the inside refines the authority: its launch, its RPC
\* handlers, which write with fences resolved awaits earlier, and the commands
\* of the driver and the operator around it are all store transactions under
\* the revisions current at that moment.
THEOREM SessionImplementsAuthority == ActorSpec => Spec
<1>1. ActorInit => Init
    BY DEF ActorInit
<1>2. ActorInv /\ [ActorNext]_<<vars, actorVars>> => [Next]_vars
    BY ActorIsStep
<1> QED BY <1>1, <1>2, ActorInvariant, PTL DEF ActorSpec, Spec

\* No session succeeds without the durable result of its office, although
\* submit_terminal only looks at the daemon's phase, which a candidate that
\* failed its hard validation also brings to Submitted.
THEOREM SuccessIsBacked == ActorSpec => []TerminalBacked
<1>1. ActorInv => TerminalBacked
    BY DEF ActorInv
<1> QED BY <1>1, ActorInvariant, PTL

\* Nothing runs in an Engineering worktree before the daemon froze the
\* regression, through refused, abandoned and repeated checkpoints.
THEOREM NoEditBeforeCheckpoint == ActorSpec => []CheckpointFirst
<1>1. ActorInv => CheckpointFirst
    BY DEF ActorInv, GateOK, PhasesAgree, CheckpointFirst, BeforeCheckpoint
<1> QED BY <1>1, ActorInvariant, PTL

\* The closure recomputed at every artifact read has all the packet names, as
\* long as the target of the assignment could be launched.
THEOREM PacketStaysReadable == ActorSpec => []PacketReadable
<1>1. ActorInv => PacketReadable
  <2> SUFFICES ASSUME ActorInv, Attended,
                      Launchable(session[packet.session].campaign, packet.office,
                                 packet.attempt, packet.candidate)
               PROVE  packet.evidence \subseteq AssignmentArtifactIds(packet)
    BY DEF PacketReadable
  <2>0. Evident(packet.office, packet.attempt, packet.candidate, packet.evidence)
    BY DEF ActorInv, PacketOK, Attended
  <2>1. CASE packet.office = "Product"
    BY <2>0, <2>1 DEF Evident
  <2>2. CASE packet.office = "Engineering"
    <3>1. attempt[packet.attempt].stage \in EngineeringStage
      BY <2>2 DEF Launchable
    <3>2. packet.evidence = ProposalEvidence(attempt[packet.attempt].ticket)
      BY <2>0, <2>2 DEF Evident
    <3>3. packet.evidence \subseteq EngineeringClosure(packet)
      BY <3>1, <3>2 DEF EngineeringStage, EngineeringClosure, TicketProposalClosure
    <3> QED BY <2>2, <3>3 DEF AssignmentArtifactIds
  <2>3. CASE packet.office = "Quality"
    <3>1. QualityTargetActive(packet) /\ candidate[packet.candidate].hard = "Passed"
      BY <2>3 DEF Launchable, QualityTargetActive
    <3>2. packet.evidence \subseteq
            ProposalEvidence(attempt[packet.attempt].ticket) \cup CandidateEvidence(packet.candidate)
      BY <2>0, <2>3 DEF Evident
    <3>3. CandidateEvidence(packet.candidate) \subseteq CandidateClosure(packet.candidate)
      BY <3>1 DEF CandidateEvidence, CandidateClosure
    <3>4. packet.evidence \subseteq QualityClosure(packet)
      BY <3>1, <3>2, <3>3 DEF QualityClosure, TicketProposalClosure
    <3> QED BY <2>3, <3>4 DEF AssignmentArtifactIds
  <2> QED BY <2>0, <2>1, <2>2, <2>3 DEF Evident, Office
<1> QED BY <1>1, ActorInvariant, PTL

-----------------------------------------------------------------------------
(* How rows age                                                            *)

\* A candidate, an attempt and a ticket that exist become, in one step, ...
CandidateAges(r, q) ==
    /\ q.state # "Absent"
    /\ q = r \/ q.rev = r.rev + 1
    /\ KeepsEvidence(r, q)
    /\ r.state = "Delivered" => q.state = "Delivered"
AttemptAges(r, q) ==
    /\ q.stage # "Absent"
    /\ q = r \/ q.rev = r.rev + 1
    /\ q.ticket = r.ticket /\ q.campaign = r.campaign
    /\ r.stage = "Delivered" => q.stage = "Delivered"
TicketAges(r, q) ==
    /\ q.state # "Absent"
    /\ q = r \/ q.rev = r.rev + 1

\* A registered session keeps its office and its campaign.
SessionAges(r, q) ==
    /\ q.state \notin {"Absent", "Prepared"}
    /\ q.office = r.office /\ q.campaign = r.campaign

\* Every step advances the revision of each row it writes.
LEMMA StepFenced ==
    ASSUME TypeOK, [Next]_vars
    PROVE  TicketsFenced /\ AttemptsFenced /\ CandidatesFenced
<1>1. CASE Next
    BY <1>1, ProcessStepFenced, TicketStepFenced, AttemptStepFenced, CandidateStepFenced,
       UnwrittenFenced DEF Next
<1>2. CASE UNCHANGED vars
    BY <1>2, UnwrittenFenced DEF vars
<1> QED BY <1>1, <1>2

\* A delivered candidate stays delivered, and no candidate row goes away.
LEMMA CandidateStays ==
    ASSUME LifecycleEvent, NEW k \in CandidateId, candidate[k].state # "Absent"
    PROVE  /\ candidate'[k].state # "Absent"
           /\ candidate[k].state = "Delivered" => candidate'[k].state = "Delivered"
<1> DEFINE Stays == /\ candidate'[k].state # "Absent"
                    /\ candidate[k].state = "Delivered" => candidate'[k].state = "Delivered"
<1>1. CASE UNCHANGED candidate
    BY <1>1
<1>2. ASSUME NEW j \in CandidateId, NEW state, CandidateSet(j, state), state # "Absent",
             candidate[j].state # "Delivered"
      PROVE  Stays
    BY <1>2 DEF CandidateSet
<1>3. ASSUME NEW j \in CandidateId, NEW a \in AttemptId, SubmitEvent(j, a)
      PROVE  Stays
    BY <1>3 DEF SubmitEvent, FreshCandidate
<1>4. ASSUME NEW j \in CandidateId, AttachEvent(j) \/ RejectEvent(j) \/ DeliverEvent(j)
      PROVE  Stays
    BY <1>2, <1>4 DEF AttachEvent, RejectEvent, DeliverEvent
<1>5. ASSUME NEW j \in CandidateId, NEW state, NEW stage, EvidenceEvent(j, state, stage)
      PROVE  Stays
    BY <1>2, <1>5 DEF EvidenceEvent, EvidenceMove
<1> QED
    BY <1>1, <1>3, <1>4, <1>5
    DEF LifecycleEvent, CampaignEvent, TicketEvent, ClaimEvent, StageEvent, ReleaseEvent

\* A delivered attempt stays delivered.
LEMMA DeliveriesStay ==
    ASSUME LifecycleEvent, NEW a \in AttemptId, attempt[a].stage = "Delivered"
    PROVE  attempt'[a].stage = "Delivered"
<1>1. CASE DeliveriesKept
    BY <1>1 DEF DeliveriesKept
<1>2. ASSUME NEW k \in CandidateId, DeliverEvent(k)
      PROVE  attempt'[a].stage = "Delivered"
    BY <1>2 DEF DeliverEvent, AttemptSet
<1> QED BY <1>1, <1>2, OnlyDeliveriesCount

\* What a step may do to the rows that exist.
LEMMA RowsAge ==
    ASSUME TypeOK, RowLinks, SoundCandidates, [Next]_vars
    PROVE  /\ \A k \in CandidateId :
                candidate[k].state # "Absent" => CandidateAges(candidate[k], candidate'[k])
           /\ \A a \in AttemptId :
                attempt[a].stage # "Absent" => AttemptAges(attempt[a], attempt'[a])
           /\ \A t \in TicketId :
                ticket[t].state # "Absent" => TicketAges(ticket[t], ticket'[t])
           /\ \A c \in CampaignId :
                campaign[c].state # "Absent" => campaign'[c].state # "Absent"
<1>0. TicketsFenced /\ AttemptsFenced /\ CandidatesFenced
    BY StepFenced
<1>1. CASE Next
  <2>0. LifecycleEvent
    BY <1>1, StepIsEvent
  <2>1. ASSUME NEW k \in CandidateId, candidate[k].state # "Absent"
        PROVE  CandidateAges(candidate[k], candidate'[k])
    BY <1>0, <1>1, <2>0, <2>1, CandidateWrite, CandidateStays DEF CandidatesFenced, CandidateAges
  <2>2. ASSUME NEW a \in AttemptId, attempt[a].stage # "Absent"
        PROVE  AttemptAges(attempt[a], attempt'[a])
    BY <1>0, <2>0, <2>2, AttemptTicketKept, DeliveriesStay DEF AttemptsFenced, AttemptAges
  <2>3. ASSUME NEW t \in TicketId, ticket[t].state # "Absent"
        PROVE  TicketAges(ticket[t], ticket'[t])
    BY <1>0, <1>1, <2>3, TicketWrite DEF TicketsFenced, TicketAges, TicketMove
  <2>4. \A c \in CampaignId : campaign[c].state # "Absent" => campaign'[c].state # "Absent"
    BY <2>0, CampaignsStay DEF RowLinks
  <2> QED BY <2>1, <2>2, <2>3, <2>4
<1>2. CASE UNCHANGED vars
    BY <1>2 DEF vars, CandidateAges, KeepsEvidence, AttemptAges, TicketAges
<1> QED BY <1>1, <1>2

\* Only the session commands write session rows.
LEMMA SessionFrame ==
    CampaignStep \/ TicketStep \/ AttemptStep \/ CandidateStep => UNCHANGED session
<1>1. CampaignStep => UNCHANGED session
    BY DEF CampaignStep, StartCampaign, DeadlineElapses, CancelCampaign,
           FinishCampaignCancellation, FailCampaign, CloseCampaign
<1>2. TicketStep => UNCHANGED session
    BY ZenonT(60) DEF TicketStep, SubmitTicketProposal, SponsorTicket, ClaimSponsoredTicket
<1>3. AttemptStep => UNCHANGED session
    BY ZenonT(60) DEF AttemptStep, FailTicketAttempt, CanFail, RetryQualityAttempt,
       RetryEngineeringAttempt, ReleaseTicketAttempt, SubmitCandidate
<1>4. CASE CandidateStep
  <2>1. PICK k \in CandidateId :
        LET a == candidate[k].attempt IN
        \/ AttachCandidateCommit(k, candidate[k].rev)
        \/ \E s \in SessionId, result \in {"Passed", "NotPassed"} :
             \/ RecordHardValidation(k, s, candidate[k].rev, attempt[a].rev, result)
             \/ RecordQualityValidation(k, s, candidate[k].rev, attempt[a].rev, result)
        \/ \E s \in SessionId, verdict \in {"Accept", "Reject"} :
             SubmitQualityReview(k, s, candidate[k].rev, attempt[a].rev, verdict)
        \/ \E decision \in Decision, override \in BOOLEAN :
             DecideCandidate(k, decision, override,
                             candidate[k].rev, attempt[a].rev, TicketOf(a).rev)
        \/ RecordDelivery(k, candidate[k].rev, attempt[a].rev, TicketOf(a).rev,
                          campaign[attempt[a].campaign].rev)
    BY <1>4 DEF CandidateStep
  <2> QED
    BY <2>1, ZenonT(60) DEF AttachCandidateCommit, RecordHardValidation,
       RecordQualityValidation, SubmitQualityReview, DecideCandidate, RecordDelivery
<1> QED BY <1>1, <1>2, <1>3, <1>4

\* A registered session row is never taken back.
LEMMA SessionsStay ==
    ASSUME TypeOK, [Next]_vars, NEW s \in SessionRows
    PROVE  s \in SessionRows' /\ SessionAges(session[s], session'[s])
<1>0. s \in SessionId /\ session[s].state \notin {"Absent", "Prepared"}
    BY DEF SessionRows
<1>1. CASE UNCHANGED session
    BY <1>0, <1>1 DEF SessionRows, SessionAges
<1>2. CASE SessionStep
  <2>1. PICK r \in SessionId :
        \/ \E c \in CampaignId, office \in Office,
              a \in AttemptId \cup {0}, k \in CandidateId \cup {0} :
             CreateAssignment(r, c, campaign[c].rev, office, a, k)
        \/ StartSession(r)
        \/ \E stop \in StopReason, cost \in SessionCost : TerminalSession(r, stop, cost)
    BY <1>2 DEF SessionStep
  <2>2. CASE \E c \in CampaignId, office \in Office,
              a \in AttemptId \cup {0}, k \in CandidateId \cup {0} :
             CreateAssignment(r, c, campaign[c].rev, office, a, k)
    <3>1. session[r].state = "Absent" /\ session'[s] = session[s]
      BY <1>0, <2>2 DEF CreateAssignment, FreshSession, TypeOK
    <3> QED BY <1>0, <3>1 DEF SessionRows, SessionAges
  <2>3. CASE StartSession(r)
    BY <1>0, <2>3 DEF StartSession, SessionRows, SessionAges, TypeOK, SessionRow
  <2>4. ASSUME NEW stop \in StopReason, NEW cost \in SessionCost, TerminalSession(r, stop, cost)
        PROVE  s \in SessionRows' /\ SessionAges(session[s], session'[s])
    <3>1. session' = [session EXCEPT ![r].state = SessionStateOf(stop)]
      BY <2>4 DEF TerminalSession
    <3>2. SessionStateOf(stop) \notin {"Absent", "Prepared"}
      BY SessionStateOfType DEF SessionTerminal
    <3> QED BY <1>0, <3>1, <3>2 DEF SessionRows, SessionAges, TypeOK, SessionRow
  <2> QED BY <2>1, <2>2, <2>3, <2>4
<1>3. CASE CampaignStep \/ TicketStep \/ AttemptStep \/ CandidateStep
    BY <1>1, <1>3, SessionFrame
<1> QED BY <1>1, <1>2, <1>3 DEF Next, vars

-----------------------------------------------------------------------------
(* What the reports count on                                               *)

\* Session s is registered and works for an office.
Registered(s, office) == s \in SessionRows /\ session[s].office = office

\* A candidate has the session that submitted it, and a review its own.
PerformerLinks ==
    \A k \in CandidateId :
      /\ candidate[k].state # "Absent" =>
           Registered(candidate[k].engineeringSession, "Engineering")
      /\ candidate[k].review # "None" => Registered(candidate[k].qualitySession, "Quality")

\* A delivered ticket has a delivered attempt.
DeliveredTickets ==
    \A t \in TicketId :
      ticket[t].state = "Delivered" =>
        \E a \in AttemptId : attempt[a].stage = "Delivered" /\ attempt[a].ticket = t

\* Performers are recorded with the row they are the authors of, and sessions stay.
LEMMA PerformerLinksKept ==
    ASSUME TypeOK, SoundCandidates, PerformerLinks, [Next]_vars
    PROVE  PerformerLinks'
<1> DEFINE Linked(r) ==
      /\ r.state # "Absent" =>
           /\ r.engineeringSession \in SessionRows'
           /\ session'[r.engineeringSession].office = "Engineering"
      /\ r.review # "None" =>
           r.qualitySession \in SessionRows' /\ session'[r.qualitySession].office = "Quality"
<1> SUFFICES ASSUME NEW k \in CandidateId PROVE Linked(candidate'[k])
    BY DEF PerformerLinks, Registered
<1>1. \A s \in SessionRows : s \in SessionRows' /\ session'[s].office = session[s].office
    BY SessionsStay DEF SessionAges
<1>2. \A s, office : Performs(s, office) => s \in SessionRows /\ session[s].office = office
    BY DEF Performs, SessionRows
<1>3. candidate[k].state = "Absent" => candidate[k].review = "None"
    BY DEF SoundCandidates, SoundCandidate
<1>4. Linked(candidate[k])
    BY <1>1, <1>3 DEF PerformerLinks, Registered
<1>5. CASE /\ candidate[k].state = "Absent" /\ candidate'[k].review = "None"
           /\ Performs(candidate'[k].engineeringSession, "Engineering")
    BY <1>1, <1>2, <1>5
<1>6. CASE /\ candidate[k].state # "Absent" /\ KeepsAuthors(candidate[k], candidate'[k])
           /\ \/ candidate'[k].review = candidate[k].review
              \/ Performs(candidate'[k].qualitySession, "Quality")
    BY <1>1, <1>2, <1>4, <1>6 DEF KeepsAuthors
<1> QED BY <1>4, <1>5, <1>6, AuthorsKept

\* Only record_delivery delivers a ticket, together with its attempt.
LEMMA DeliveredTicketsKept ==
    ASSUME TypeOK, RowLinks, SoundCandidates, DeliveredTickets, [Next]_vars
    PROVE  DeliveredTickets'
<1> SUFFICES ASSUME NEW t \in TicketId, ticket'[t].state = "Delivered"
             PROVE  \E a \in AttemptId : attempt'[a].stage = "Delivered" /\ attempt'[a].ticket = t
    BY DEF DeliveredTickets
<1>1. CASE ticket[t].state = "Delivered"
    BY <1>1, RowsAge DEF DeliveredTickets, AttemptAges
<1>2. CASE ticket[t].state # "Delivered"
  <2>1. Next
    BY <1>2 DEF vars
  <2>2. LifecycleEvent
    BY <2>1, StepIsEvent
  <2>3. ASSUME NEW u, NEW state, TicketSet(u, state), state # "Delivered"
        PROVE  FALSE
    BY <1>2, <2>3 DEF TicketSet
  <2>4. \E k \in CandidateId : DeliverEvent(k)
    BY <1>2, <2>2, <2>3
    DEF LifecycleEvent, CampaignEvent, TicketEvent, ClaimEvent, StageEvent, ReleaseEvent,
        SubmitEvent, AttachEvent, EvidenceEvent, RejectEvent
  <2>5. PICK k \in CandidateId : DeliverEvent(k)
    BY <2>4
  <2>6. candidate[k].attempt \in AttemptId /\ attempt[candidate[k].attempt].ticket = t
    BY <1>2, <2>5 DEF DeliverEvent, TicketSet
  <2> QED BY <2>5, <2>6 DEF DeliverEvent, AttemptSet
<1> QED BY <1>1, <1>2

\* What every report relies on.
RowsSound ==
    /\ TypeOK /\ RowLinks /\ SoundCandidates
    /\ InFlightOwnership /\ DeliveredOnce /\ TargetAccounting
    /\ PerformerLinks /\ DeliveredTickets

\* The authority's rows are sound in this sense.
LEMMA RowsSoundInvariant == Spec => []RowsSound
<1>1. Init => PerformerLinks /\ DeliveredTickets
    BY DEF Init, PerformerLinks, DeliveredTickets, NoCandidate, NoTicket
<1>2. /\ TypeOK /\ RowLinks /\ SoundCandidates
      /\ PerformerLinks /\ DeliveredTickets /\ [Next]_vars
      => PerformerLinks' /\ DeliveredTickets'
    BY PerformerLinksKept, DeliveredTicketsKept
<1> QED
    BY <1>1, <1>2, TypeCorrect, RowLinksInvariant, SoundCandidatesInvariant, OneOwnerInFlight,
       DeliveryHappensOnce, CampaignMeetsTarget, PTL DEF Spec, RowsSound

-----------------------------------------------------------------------------
(* What a report knows while it is being read                              *)

CandidateFields == {"kind", "pc", "id", "row", "hard", "quality", "review", "decision",
                    "delivered"}
TicketFields    == {"kind", "pc", "row", "attempts"}
TicketsFields   == {"kind", "pc", "rows"}
FactoryFields   == {"kind", "pc", "inFlight", "delivered", "campaigns", "running", "sessions",
                    "active"}
CampaignFields  == {"kind", "pc", "id", "state", "rev", "head", "delivered", "oldest", "costs",
                    "identity", "aggregate"}

\* Statements still to come after the validations, the review and the decision.
ValidationsRead == {"review", "decision", "delivery", "shown"}
ReviewRead      == {"decision", "delivery", "shown"}
DecisionRead    == {"delivery", "shown"}

\* Report p of a candidate agrees with its row r in all that was read.
CandidateAsRead(p, r) ==
    /\ r.state = p.row.state /\ r.commit = p.row.commit
    /\ p.pc \in ValidationsRead => r.hard = p.hard /\ r.quality = p.quality
    /\ p.pc \in ReviewRead => r.review = p.review
    /\ p.pc \in DecisionRead => r.decision = p.decision
    /\ p.pc = "shown" => p.delivered = (r.state = "Delivered")

\* The evidence behind the state in report p is in the row r, and in the report
\* as far as it was read.
CandidateSupported(p, r) ==
    /\ p.row.state \in {"Validated", "Accepted", "Delivered"} =>
         r.hard = "Passed" /\ (p.pc \in ValidationsRead => p.hard = "Passed")
    /\ p.row.state \in {"Accepted", "Delivered"} =>
         /\ p.row.commit
         /\ r.quality = "Passed" /\ (p.pc \in ValidationsRead => p.quality = "Passed")
         /\ r.review # "None" /\ (p.pc \in ReviewRead => p.review # "None")
         /\ r.decision = "Deliver" /\ (p.pc \in DecisionRead => p.decision = "Deliver")
    /\ p.row.state = "Delivered" =>
         r.state = "Delivered" /\ (p.pc = "shown" => p.delivered)

CandidateReportOK ==
    report.kind = "Candidate" =>
      /\ DOMAIN report = CandidateFields
      /\ report.pc \in ValidationsRead \cup {"validations"}
      /\ report.id \in CandidateId /\ candidate[report.id].state # "Absent"
      /\ report.row.rev \in Nat /\ report.row.rev <= candidate[report.id].rev
      /\ candidate[report.id].rev = report.row.rev =>
           CandidateAsRead(report, candidate[report.id])
      /\ CandidateSupported(report, candidate[report.id])

\* A row listed as r was so when the table row q had the revision listed.
ListedAttempt(r) ==
    /\ r.id \in AttemptId /\ attempt[r.id].stage # "Absent"
    /\ r.rev \in Nat /\ r.rev <= attempt[r.id].rev
    /\ attempt[r.id].rev = r.rev => attempt[r.id].stage = r.stage
ListedTicket(r) ==
    /\ r.id \in TicketId /\ ticket[r.id].state # "Absent"
    /\ r.rev \in Nat /\ r.rev <= ticket[r.id].rev
    /\ ticket[r.id].rev = r.rev => ticket[r.id].state = r.state

\* Ticket t has an attempt, has a delivered one.
Attempted(t) == \E a \in AttemptId : attempt[a].ticket = t
Achieved(t)  == \E a \in AttemptId : attempt[a].stage = "Delivered" /\ attempt[a].ticket = t

TicketReportOK ==
    report.kind = "Ticket" =>
      /\ DOMAIN report = TicketFields
      /\ report.pc \in {"attempts", "shown"}
      /\ report.row.id \in TicketId
      /\ report.row.state \in {"InFlight", "Delivered"} => Attempted(report.row.id)
      /\ report.row.state = "Delivered" => Achieved(report.row.id)
      /\ \A r \in report.attempts : ListedAttempt(r)
      /\ TicketBacked

TicketsReportOK ==
    report.kind = "Tickets" => \A r \in report.rows : ListedTicket(r)

FactoryReportOK ==
    report.kind = "Factory" =>
      /\ DOMAIN report = FactoryFields
      /\ report.pc \in {"campaigns", "sessions", "shown"}
      /\ report.inFlight > 0 =>
           /\ \E c \in CampaignId : campaign[c].state # "Absent"
           /\ report.pc # "campaigns" => report.campaigns > 0
      /\ report.delivered > 0 =>
           /\ \E s, r \in SessionRows : s # r
           /\ report.pc = "shown" => report.sessions > 1

\* Statements still to come after the deliveries, the costs and the identity.
DeliveriesRead == {"oldest", "costs", "identity", "aggregates", "shown"}
CostsRead      == {"identity", "aggregates", "shown"}
IdentityRead   == {"aggregates", "shown"}

SessionsOf(c) == {s \in SessionRows : session[s].campaign = c}

\* The selected work is still that work while both its fences hold.
HeadOK(h) ==
    /\ h.attempt \in AttemptId /\ attempt[h.attempt].stage # "Absent"
    /\ h.candidate \in CandidateId /\ candidate[h.candidate].state # "Absent"
    /\ h.attemptRev \in Nat /\ h.attemptRev <= attempt[h.attempt].rev
    /\ h.candidateRev \in Nat /\ h.candidateRev <= candidate[h.candidate].rev
    /\ attempt[h.attempt].rev = h.attemptRev /\ candidate[h.candidate].rev = h.candidateRev =>
         DownstreamAction(attempt[h.attempt].stage, candidate[h.candidate]) = h.action
OldestOK(t) ==
    /\ t.id \in TicketId /\ ticket[t.id].state # "Absent"
    /\ t.rev \in Nat /\ t.rev <= ticket[t.id].rev
    /\ ticket[t.id].rev = t.rev => ticket[t.id].state = "Sponsored"

CampaignReportOK ==
    report.kind = "Campaign" =>
      /\ DOMAIN report = CampaignFields
      /\ report.pc \in DeliveriesRead \cup {"downstream", "delivered"}
      /\ report.id \in CampaignId
      /\ report.head # NoHead => HeadOK(report.head)
      /\ report.oldest # NoOldest => OldestOK(report.oldest)
      /\ report.state = "Completed" =>
           Cardinality(DeliveredAttempts(report.id)) >= DeliveryTarget
      /\ report.pc \in DeliveriesRead =>
           /\ report.state = "Completed" => report.delivered >= DeliveryTarget
           /\ report.delivered > 0 => DeliveredAttempts(report.id) # {}
      /\ report.pc \in CostsRead =>
           /\ Cardinality(report.costs) \in Nat
           /\ Cardinality(report.costs) <= Cardinality(SessionsOf(report.id))
      /\ report.pc \in IdentityRead /\ (report.state = "Completed" \/ report.delivered > 0) =>
           report.identity = "Delivered"
      /\ report.pc = "shown" => Cardinality(report.costs) <= report.aggregate

ReportOK ==
    /\ report.kind \in {"None", "Candidate", "Ticket", "Tickets", "Factory", "Campaign"}
    /\ CandidateReportOK /\ TicketReportOK /\ TicketsReportOK
    /\ FactoryReportOK /\ CampaignReportOK

\* Nothing else is known, and nothing else is needed.
LEMMA ReportOKSuffices == RowsSound /\ ReportOK => ReportBacked /\ ReportCurrent
<1> SUFFICES ASSUME RowsSound, ReportOK PROVE ReportBacked /\ ReportCurrent
    OBVIOUS
<1> USE DEF ReportOK, Reading
<1>1. CandidateBacked
    BY DEF CandidateReportOK, CandidateSupported, CandidateBacked, ValidationsRead, ReviewRead,
           DecisionRead
<1>2. TicketBacked
    BY DEF TicketReportOK, TicketBacked
<1>3. FactoryBacked
    BY DEF FactoryReportOK, FactoryBacked
<1>4. CampaignBacked
    BY DEF CampaignReportOK, CampaignBacked, DeliveriesRead, CostsRead, IdentityRead
<1>5. ReportCurrent
  <2>1. Reading("Candidate", "shown") =>
          LET r == candidate[report.id] IN
          r.rev = report.row.rev =>
            /\ r.state = report.row.state /\ r.commit = report.row.commit
            /\ r.hard = report.hard /\ r.quality = report.quality
            /\ r.review = report.review /\ r.decision = report.decision
            /\ report.delivered = (r.state = "Delivered")
    BY DEF CandidateReportOK, CandidateAsRead, ValidationsRead, ReviewRead, DecisionRead
  <2> QED
    BY <2>1 DEF ReportCurrent, TicketReportOK, TicketsReportOK, CampaignReportOK,
                ListedAttempt, ListedTicket, HeadOK, OldestOK
<1> QED BY <1>1, <1>2, <1>3, <1>4, <1>5 DEF ReportBacked

-----------------------------------------------------------------------------
(* The authority steps while a report is open                              *)

\* A row that existed still exists with the revision it had or a later one.
LEMMA RevisionsGrow ==
    ASSUME RowsSound, [Next]_vars
    PROVE  /\ \A k \in CandidateId :
                candidate[k].state # "Absent" =>
                  /\ candidate'[k].state # "Absent" /\ candidate[k].rev \in Nat
                  /\ \/ candidate'[k] = candidate[k]
                     \/ candidate'[k].rev = candidate[k].rev + 1
           /\ \A a \in AttemptId :
                attempt[a].stage # "Absent" =>
                  /\ attempt'[a].stage # "Absent" /\ attempt[a].rev \in Nat
                  /\ \/ attempt'[a] = attempt[a]
                     \/ attempt'[a].rev = attempt[a].rev + 1
           /\ \A t \in TicketId :
                ticket[t].state # "Absent" =>
                  /\ ticket'[t].state # "Absent" /\ ticket[t].rev \in Nat
                  /\ \/ ticket'[t] = ticket[t]
                     \/ ticket'[t].rev = ticket[t].rev + 1
<1>1. /\ \A k \in CandidateId : candidate[k].rev \in Nat
      /\ \A a \in AttemptId : attempt[a].rev \in Nat
      /\ \A t \in TicketId : ticket[t].rev \in Nat
    BY DEF RowsSound, TypeOK, CandidateRow, AttemptRow, TicketRow
<1> QED BY <1>1, RowsAge DEF RowsSound, CandidateAges, AttemptAges, TicketAges

\* A candidate under report gains evidence and loses none.
LEMMA CandidateReportKept ==
    ASSUME RowsSound, CandidateReportOK, [Next]_vars, UNCHANGED report
    PROVE  CandidateReportOK'
<1> SUFFICES ASSUME report.kind = "Candidate" PROVE CandidateReportOK'
    BY DEF CandidateReportOK
<1> DEFINE r == candidate[report.id]
           q == candidate'[report.id]
<1>1. /\ report.id \in CandidateId /\ r.state # "Absent"
      /\ report.row.rev \in Nat /\ report.row.rev <= r.rev
      /\ r.rev = report.row.rev => CandidateAsRead(report, r)
      /\ CandidateSupported(report, r)
    BY DEF CandidateReportOK
<1>2. CandidateAges(r, q) /\ r.rev \in Nat
    BY <1>1, RowsAge, RevisionsGrow DEF RowsSound
<1>3. report.row.rev <= q.rev /\ (q.rev = report.row.rev => q = r)
    BY <1>1, <1>2 DEF CandidateAges
<1>4. q.rev = report.row.rev => CandidateAsRead(report, q)
    BY <1>1, <1>3
<1>5. CandidateSupported(report, q)
    BY <1>1, <1>2 DEF CandidateSupported, CandidateAges, KeepsEvidence
<1> HIDE DEF r, q
<1>6. q.state # "Absent"
    BY <1>2 DEF CandidateAges
<1> QED BY <1>1, <1>3, <1>4, <1>5, <1>6 DEF CandidateReportOK, q

\* What was listed is listed still.
LEMMA ListingsKept ==
    ASSUME RowsSound, [Next]_vars
    PROVE  /\ \A r : ListedAttempt(r) => ListedAttempt(r)'
           /\ \A r : ListedTicket(r) => ListedTicket(r)'
           /\ \A t : OldestOK(t) => OldestOK(t)'
           /\ \A h : HeadOK(h) => HeadOK(h)'
<1>1. ASSUME NEW r, ListedAttempt(r) PROVE ListedAttempt(r)'
    BY <1>1, RevisionsGrow DEF ListedAttempt
<1>2. ASSUME NEW r, ListedTicket(r) PROVE ListedTicket(r)'
    BY <1>2, RevisionsGrow DEF ListedTicket
<1>3. ASSUME NEW t, OldestOK(t) PROVE OldestOK(t)'
    BY <1>3, RevisionsGrow DEF OldestOK
<1>4. ASSUME NEW h, HeadOK(h) PROVE HeadOK(h)'
    BY <1>4, RevisionsGrow DEF HeadOK
<1> QED BY <1>1, <1>2, <1>3, <1>4

\* An attempt of a ticket stays one, and a delivered one stays delivered.
LEMMA TicketReportKept ==
    ASSUME RowsSound, TicketReportOK, [Next]_vars, UNCHANGED report
    PROVE  TicketReportOK'
<1> SUFFICES ASSUME report.kind = "Ticket" PROVE TicketReportOK'
    BY DEF TicketReportOK
<1>1. \A a \in AttemptId :
        /\ attempt[a].ticket \in TicketId => attempt'[a].ticket = attempt[a].ticket
        /\ attempt[a].stage = "Delivered" =>
             attempt'[a].stage = "Delivered" /\ attempt'[a].ticket = attempt[a].ticket
    BY RowsAge DEF RowsSound, RowLinks, AttemptLinks, AttemptAges, TicketId
<1>2. \A t \in TicketId : (Attempted(t) => Attempted(t)') /\ (Achieved(t) => Achieved(t)')
    BY <1>1 DEF Attempted, Achieved
<1>3. \A r \in report.attempts : ListedAttempt(r)'
    BY ListingsKept DEF TicketReportOK
<1>4. \A a : CutOff(a) => CutOff(a)'
    BY DEF CutOff
<1>5. TicketBacked'
    BY <1>1, <1>4 DEF TicketReportOK, TicketBacked, Reading
<1> QED BY <1>2, <1>3, <1>5 DEF TicketReportOK

\* Deliveries and sessions of a campaign are only ever added.
LEMMA CampaignTotalsGrow ==
    ASSUME RowsSound, [Next]_vars, NEW c \in CampaignId
    PROVE  /\ DeliveredAttempts(c) \subseteq DeliveredAttempts(c)'
           /\ Cardinality(DeliveredAttempts(c)) \in Nat
           /\ Cardinality(DeliveredAttempts(c)') \in Nat
           /\ Cardinality(DeliveredAttempts(c)) <= Cardinality(DeliveredAttempts(c)')
           /\ Cardinality(SessionsOf(c)) \in Nat
           /\ Cardinality(SessionsOf(c)') \in Nat
           /\ Cardinality(SessionsOf(c)) <= Cardinality(SessionsOf(c)')
<1>1. DeliveredAttempts(c) \subseteq DeliveredAttempts(c)'
    BY RowsAge DEF RowsSound, AttemptAges, DeliveredAttempts
<1>2. IsFiniteSet(AttemptId) /\ IsFiniteSet(SessionId)
    BY FS_Interval, BoundsAssumption DEF AttemptId, SessionId
<1>3. IsFiniteSet(DeliveredAttempts(c)')
    BY <1>2, FS_Subset DEF DeliveredAttempts
<1>4. SessionsOf(c) \subseteq SessionsOf(c)'
    BY SessionsStay DEF RowsSound, SessionsOf, SessionAges
<1>5. IsFiniteSet(SessionsOf(c)')
  <2>1. SessionsOf(c)' \subseteq SessionId
    BY DEF SessionsOf, SessionRows
  <2> QED BY <1>2, <2>1, FS_Subset
<1>6. IsFiniteSet(DeliveredAttempts(c)) /\ IsFiniteSet(SessionsOf(c))
    BY <1>1, <1>3, <1>4, <1>5, FS_Subset
<1> QED BY <1>1, <1>3, <1>4, <1>5, <1>6, FS_Subset, FS_CardinalityType

\* So a campaign under report keeps what was counted of it.
LEMMA CampaignReportKept ==
    ASSUME RowsSound, CampaignReportOK, [Next]_vars, UNCHANGED report
    PROVE  CampaignReportOK'
<1> SUFFICES ASSUME report.kind = "Campaign" PROVE CampaignReportOK'
    BY DEF CampaignReportOK
<1>1. report.id \in CampaignId
    BY DEF CampaignReportOK
<1>2. /\ report.head # NoHead => HeadOK(report.head)'
      /\ report.oldest # NoOldest => OldestOK(report.oldest)'
    BY ListingsKept DEF CampaignReportOK
<1>3. report.state = "Completed" =>
        Cardinality(DeliveredAttempts(report.id)') >= DeliveryTarget
    BY <1>1, CampaignTotalsGrow, PolicyAssumption DEF CampaignReportOK
<1>4. DeliveredAttempts(report.id) # {} => DeliveredAttempts(report.id)' # {}
    BY <1>1, CampaignTotalsGrow
<1>5. report.pc \in CostsRead =>
        Cardinality(report.costs) <= Cardinality(SessionsOf(report.id)')
    BY <1>1, CampaignTotalsGrow DEF CampaignReportOK
<1> QED BY <1>1, <1>2, <1>3, <1>4, <1>5 DEF CampaignReportOK, NoHead, NoOldest

\* An open report stays sound while the authority goes on.
LEMMA ReportAges ==
    ASSUME RowsSound, ReportOK, [Next]_vars, UNCHANGED report
    PROVE  ReportOK'
<1>1. TicketsReportOK'
    BY ListingsKept DEF ReportOK, TicketsReportOK
<1>2. FactoryReportOK'
  <2>1. \A s \in SessionRows : s \in SessionRows'
    BY SessionsStay DEF RowsSound
  <2>2. (\E s, r \in SessionRows : s # r) => (\E s, r \in SessionRows' : s # r)
    BY <2>1
  <2>3. (\E c \in CampaignId : campaign[c].state # "Absent") =>
          (\E c \in CampaignId : campaign'[c].state # "Absent")
    BY RowsAge DEF RowsSound
  <2> QED BY <2>2, <2>3 DEF ReportOK, FactoryReportOK
<1>3. CandidateReportOK' /\ TicketReportOK' /\ CampaignReportOK'
    BY CandidateReportKept, TicketReportKept, CampaignReportKept DEF ReportOK
<1> QED BY <1>1, <1>2, <1>3 DEF ReportOK

-----------------------------------------------------------------------------
(* A statement is read                                                     *)

\* show_candidate: the first statement copies the row, the others its evidence.
LEMMA CandidateStatement ==
    ASSUME RowsSound, ReportOK, UNCHANGED vars,
           \/ \E k \in CandidateId : ShowCandidate(k)
           \/ ReadValidations \/ ReadReview \/ ReadDecision \/ ReadDelivery
    PROVE  report'.kind = "Candidate" /\ CandidateReportOK'
<1> USE DEF CandidateFields, CandidateAsRead, CandidateSupported, ValidationsRead, ReviewRead,
            DecisionRead
<1>0. UNCHANGED candidate
    BY DEF vars
<1>1. ASSUME NEW k \in CandidateId, ShowCandidate(k)
      PROVE  report'.kind = "Candidate" /\ CandidateReportOK'
  <2>1. candidate[k].rev \in Nat /\ SoundCandidate(candidate[k])
    BY DEF RowsSound, TypeOK, CandidateRow, SoundCandidates
  <2> QED
    BY <1>0, <1>1, <2>1 DEF ShowCandidate, CandidateRowOf, CandidateReportOK, SoundCandidate
<1>2. CASE ReadValidations
    BY <1>0, <1>2 DEF ReadValidations, Reading, ReportOK, CandidateReportOK
<1>3. CASE ReadReview
    BY <1>0, <1>3 DEF ReadReview, Reading, ReportOK, CandidateReportOK
<1>4. CASE ReadDecision
    BY <1>0, <1>4 DEF ReadDecision, Reading, ReportOK, CandidateReportOK
<1>5. CASE ReadDelivery
    BY <1>0, <1>5 DEF ReadDelivery, Reading, ReportOK, CandidateReportOK
<1> QED BY <1>1, <1>2, <1>3, <1>4, <1>5

\* A listing is a non-empty part of the rows, and drops rows only when it is
\* full, the last ones of its order.
LEMMA PageKeeps ==
    ASSUME NEW rows, IsFiniteSet(rows), NEW order, NEW kept \in Page(rows, order)
    PROVE  /\ kept \subseteq rows
           /\ Cardinality(kept) \in Nat
           /\ Cardinality(kept) <= Cardinality(rows)
           /\ rows # {} => kept # {}
           /\ kept # rows => Cardinality(kept) = RowLimit
           /\ \A r \in kept, q \in rows \ kept : order * r.id >= order * q.id
<1>1. /\ kept \subseteq rows
      /\ Cardinality(kept) = IF Cardinality(rows) < RowLimit THEN Cardinality(rows) ELSE RowLimit
      /\ \A r \in kept, q \in rows \ kept : order * r.id >= order * q.id
    BY DEF Page
<1>2. IsFiniteSet(kept) /\ (Cardinality(rows) = Cardinality(kept) => rows = kept)
    BY <1>1, FS_Subset
<1>3. Cardinality(kept) \in Nat /\ Cardinality(rows) \in Nat
    BY <1>2, FS_CardinalityType
<1>4. rows # {} => Cardinality(rows) # 0
    BY FS_EmptySet
<1>5. kept = {} => Cardinality(kept) = 0
    BY FS_EmptySet
<1> QED BY <1>1, <1>2, <1>3, <1>4, <1>5, RowLimitAssumption

\* The values of a function on a finite domain.
LEMMA ValuesFinite ==
    ASSUME NEW S, IsFiniteSet(S), NEW f, DOMAIN f = S
    PROVE  /\ IsFiniteSet({f[x] : x \in S})
           /\ Cardinality({f[x] : x \in S}) <= Cardinality(S)
<1> DEFINE T == {f[x] : x \in S}
           g == [x \in S |-> f[x]]
<1>1. g \in Surjection(S, T)
    BY DEF Surjection
<1> QED BY <1>1, FS_Surjection

\* The rows of a ticket's attempts: there are finitely many, at least one for
\* each attempt, and each of them is listed as it is.
LEMMA AttemptRowsSound ==
    ASSUME RowsSound, NEW t \in TicketId
    PROVE  /\ IsFiniteSet(AttemptRows(t))
           /\ \A a \in AttemptId :
                attempt[a].ticket = t =>
                  \E q \in AttemptRows(t) : q.id = a /\ q.stage = attempt[a].stage
           /\ \A q \in AttemptRows(t) :
                /\ ListedAttempt(q) /\ q.stage = attempt[q.id].stage
<1> DEFINE P == {q \in AttemptId \X (CandidateId \cup {0}) :
                   /\ attempt[q[1]].ticket = t
                   /\ IF HasCandidate(q[1])
                      THEN q[2] # 0 /\ candidate[q[2]].attempt = q[1] ELSE q[2] = 0}
           Row(p) == [id |-> p[1], rev |-> attempt[p[1]].rev, stage |-> attempt[p[1]].stage,
                      candidate |-> p[2]]
           f == [p \in P |-> Row(p)]
<1>1. AttemptRows(t) = {f[p] : p \in P}
    BY DEF AttemptRows
<1>2. IsFiniteSet(AttemptId) /\ IsFiniteSet(CandidateId \cup {0})
  <2>1. IsFiniteSet(AttemptId) /\ IsFiniteSet(CandidateId)
    BY FS_Interval, BoundsAssumption DEF AttemptId, CandidateId
  <2> QED BY <2>1, FS_AddElement
<1>3. IsFiniteSet(P)
  <2>1. IsFiniteSet(AttemptId \X (CandidateId \cup {0}))
    BY <1>2, FS_Product
  <2> QED BY <2>1, FS_Subset
<1>4. IsFiniteSet(AttemptRows(t))
  <2>1. DOMAIN f = P
    OBVIOUS
  <2> HIDE DEF f
  <2> QED BY <1>1, <1>3, <2>1, ValuesFinite
<1>5. ASSUME NEW a \in AttemptId, attempt[a].ticket = t
      PROVE  \E q \in AttemptRows(t) : q.id = a /\ q.stage = attempt[a].stage
  <2>1. \E k \in CandidateId \cup {0} : <<a, k>> \in P
    <3>1. CASE HasCandidate(a)
      <4>1. PICK k \in CandidateId : candidate[k].attempt = a
        BY <3>1 DEF HasCandidate
      <4>2. k # 0 /\ k \in CandidateId \cup {0}
        BY DEF CandidateId
      <4>3. <<a, k>> \in P
        BY <1>5, <3>1, <4>1, <4>2
      <4> QED BY <4>2, <4>3
    <3>2. CASE ~HasCandidate(a)
      BY <1>5, <3>2
    <3> QED BY <3>1, <3>2
  <2>2. PICK k \in CandidateId \cup {0} : <<a, k>> \in P
    BY <2>1
  <2>3. Row(<<a, k>>) \in AttemptRows(t)
    BY <1>1, <2>2
  <2> QED BY <2>3
<1>6. ASSUME NEW q \in AttemptRows(t)
      PROVE  ListedAttempt(q) /\ q.stage = attempt[q.id].stage
  <2>1. PICK p \in P : q = Row(p)
    BY DEF AttemptRows
  <2>2. p[1] \in AttemptId /\ attempt[p[1]].ticket = t
    OBVIOUS
  <2>3. attempt[p[1]].stage # "Absent" /\ attempt[p[1]].rev \in Nat
    BY <2>2 DEF RowsSound, RowLinks, AttemptLinks, TicketId, TypeOK, AttemptRow
  <2> HIDE DEF P
  <2> QED BY <2>1, <2>2, <2>3 DEF ListedAttempt
<1> QED BY <1>4, <1>5, <1>6

\* show_ticket: the attempts are read after the ticket they vouch for.
LEMMA TicketStatement ==
    ASSUME RowsSound, ReportOK, UNCHANGED vars,
           (\E t \in TicketId : ShowTicket(t)) \/ ReadAttempts
    PROVE  report'.kind = "Ticket" /\ TicketReportOK'
<1>0. UNCHANGED <<attempt, ticket, candidate>>
    BY DEF vars
<1>1. ASSUME NEW t \in TicketId, ShowTicket(t)
      PROVE  report'.kind = "Ticket" /\ TicketReportOK'
  <2>1. report' = [kind |-> "Ticket", pc |-> "attempts", row |-> TicketRowOf(t), attempts |-> {}]
    BY <1>1 DEF ShowTicket
  <2>2. ticket[t].state = "InFlight" => Attempted(t)
    BY DEF RowsSound, InFlightOwnership, Attempted
  <2>3. ticket[t].state = "Delivered" => Achieved(t) /\ Attempted(t)
    BY DEF RowsSound, DeliveredTickets, Achieved, Attempted
  <2>4. (Attempted(t) => Attempted(t)') /\ (Achieved(t) => Achieved(t)')
    BY <1>0 DEF Attempted, Achieved
  <2> QED
    BY <2>1, <2>2, <2>3, <2>4
    DEF TicketRowOf, TicketReportOK, TicketFields, TicketBacked, Reading
<1>2. CASE ReadAttempts
  <2> DEFINE t == report.row.id
             rows == AttemptRows(t)
  <2>1. /\ report.kind = "Ticket" /\ DOMAIN report = TicketFields
        /\ t \in TicketId
        /\ report.row.state \in {"InFlight", "Delivered"} => Attempted(t)
        /\ report.row.state = "Delivered" => Achieved(t)
    BY <1>2 DEF ReadAttempts, Reading, ReportOK, TicketReportOK
  <2>2. PICK kept \in Page(rows, 1) :
          report' = [report EXCEPT !.pc = "shown", !.attempts = kept]
    BY <1>2 DEF ReadAttempts
  <2>3. /\ report'.kind = "Ticket" /\ report'.pc = "shown" /\ report'.row = report.row
        /\ report'.attempts = kept /\ DOMAIN report' = TicketFields
    BY <2>1, <2>2 DEF TicketFields
  <2>4. /\ IsFiniteSet(rows)
        /\ \A a \in AttemptId :
             attempt[a].ticket = t => \E q \in rows : q.id = a /\ q.stage = attempt[a].stage
        /\ \A q \in rows : ListedAttempt(q) /\ q.stage = attempt[q.id].stage
    BY <2>1, AttemptRowsSound
  <2> HIDE DEF rows, t
  <2>5. /\ kept \subseteq rows /\ (rows # {} => kept # {})
        /\ kept # rows => Cardinality(kept) = RowLimit
        /\ \A r \in kept, q \in rows \ kept : 1 * r.id >= 1 * q.id
    BY <2>4, PageKeeps
  <2>6. \A r \in kept, q \in rows \ kept : r.id >= q.id
  <3> SUFFICES ASSUME NEW r \in kept, NEW q \in rows \ kept PROVE r.id >= q.id
      OBVIOUS
  <3>1. r.id \in Int /\ q.id \in Int
      BY <2>4, <2>5 DEF ListedAttempt, AttemptId
  <3> QED BY <2>5, <3>1
  <2>7. report.row.state \in {"InFlight", "Delivered"} => kept # {}
    BY <2>1, <2>4, <2>5 DEF Attempted
  <2>8. ASSUME report.row.state = "Delivered"
        PROVE  \/ \E r \in kept : r.stage = "Delivered"
               \/ \E a \in AttemptId : /\ attempt[a].stage = "Delivered" /\ attempt[a].ticket = t
                                       /\ Cardinality(kept) = RowLimit
                                       /\ \A r \in kept : r.id > a
    <3>1. PICK a \in AttemptId : attempt[a].stage = "Delivered" /\ attempt[a].ticket = t
      BY <2>1, <2>8 DEF Achieved
    <3>2. PICK q \in rows : q.id = a /\ q.stage = "Delivered"
      BY <2>4, <3>1
    <3>3. CASE q \in kept
      BY <3>2, <3>3
    <3>4. CASE q \notin kept /\ \E r \in kept : r.id = a
      BY <2>4, <2>5, <3>1, <3>4
    <3>5. CASE q \notin kept /\ ~\E r \in kept : r.id = a
      <4>1. \A r \in kept : r.id \in Int /\ a \in Int /\ r.id >= a /\ r.id # a
        BY <2>4, <2>5, <2>6, <3>2, <3>5 DEF ListedAttempt, AttemptId
      <4>2. \A r \in kept : r.id > a
        BY <4>1
      <4> QED BY <2>5, <3>1, <3>5, <4>2
    <3> QED BY <3>3, <3>4, <3>5
  <2>9. TicketBacked'
    BY <1>0, <2>3, <2>7, <2>8 DEF TicketBacked, CutOff, Reading, t
  <2>10. \A r \in kept : ListedAttempt(r)'
    BY <1>0, <2>4, <2>5 DEF ListedAttempt
  <2>11. (Attempted(t) => Attempted(t)') /\ (Achieved(t) => Achieved(t)')
    BY <1>0, <2>3 DEF Attempted, Achieved, t
  <2> QED BY <2>1, <2>3, <2>9, <2>10, <2>11 DEF TicketReportOK, t
<1> QED BY <1>1, <1>2

\* list_tickets: one statement.
LEMMA TicketsStatement ==
    ASSUME RowsSound, UNCHANGED vars, NEW states, "Absent" \notin states, ListTickets(states)
    PROVE  report'.kind = "Tickets" /\ TicketsReportOK'
<1> DEFINE T == {u \in TicketId : ticket[u].state \in states}
           rows == {TicketRowOf(t) : t \in T}
<1>1. PICK kept \in Page(rows, 1) : report' = [kind |-> "Tickets", pc |-> "shown", rows |-> kept]
    BY DEF ListTickets
<1>2. kept \subseteq rows
    BY DEF Page
<1>3. \A t \in T : ticket[t].rev \in Nat
    BY DEF RowsSound, TypeOK, TicketRow
<1>4. \A r \in rows : ListedTicket(r)
    BY <1>3 DEF TicketRowOf, ListedTicket
<1>5. \A r \in kept : ListedTicket(r)'
    BY <1>2, <1>4 DEF ListedTicket, vars
<1> QED BY <1>1, <1>5 DEF TicketsReportOK

\* Two different elements make a finite set count more than one.
LEMMA TwoElements ==
    ASSUME NEW S, IsFiniteSet(S), NEW x \in S, NEW y \in S, x # y
    PROVE  Cardinality(S) > 1
<1>1. PICK one : one = {x}
    OBVIOUS
<1>2. IsFiniteSet(one) /\ Cardinality(one) = 1 /\ y \notin one
    BY <1>1, FS_Singleton
<1>3. PICK two : two = one \cup {y}
    OBVIOUS
<1>4. Cardinality(two) = 2 /\ two \subseteq S
    BY <1>1, <1>2, <1>3, FS_AddElement
<1>5. Cardinality(two) <= Cardinality(S) /\ Cardinality(S) \in Nat
    BY <1>4, FS_Subset, FS_CardinalityType
<1> QED BY <1>4, <1>5

\* Work in flight has a campaign; delivered work has had an Engineering and a
\* Quality session.
LEMMA WorkBehindTickets ==
    ASSUME RowsSound
    PROVE  /\ TicketsIn("InFlight") # {} => \E c \in CampaignId : campaign[c].state # "Absent"
           /\ TicketsIn("Delivered") # {} => \E s, r \in SessionRows : s # r
<1>1. ASSUME NEW t \in TicketId, ticket[t].state = "InFlight"
      PROVE  \E c \in CampaignId : campaign[c].state # "Absent"
  <2>1. PICK a \in AttemptId : attempt[a].ticket = t
    BY <1>1 DEF RowsSound, InFlightOwnership
  <2> QED BY <2>1 DEF RowsSound, RowLinks, AttemptLinks, TicketId
<1>2. ASSUME NEW t \in TicketId, ticket[t].state = "Delivered"
      PROVE  \E s, r \in SessionRows : s # r
  <2>1. PICK a \in AttemptId : attempt[a].stage = "Delivered"
    BY <1>2 DEF RowsSound, DeliveredTickets
  <2>2. PICK k \in CandidateId : candidate[k].state = "Delivered"
    BY <2>1 DEF RowsSound, DeliveredOnce, CandidatesOf
  <2>3. candidate[k].review # "None"
    BY <2>2 DEF RowsSound, SoundCandidates, SoundCandidate
  <2> QED BY <2>2, <2>3 DEF RowsSound, PerformerLinks, Registered
<1> QED BY <1>1, <1>2 DEF TicketsIn

\* factory_status: the tickets are counted before the campaigns and sessions.
LEMMA FactoryStatement ==
    ASSUME RowsSound, ReportOK, UNCHANGED vars,
           FactoryStatus \/ CountCampaigns \/ CountSessions
    PROVE  report'.kind = "Factory" /\ FactoryReportOK'
<1> DEFINE Campaigns == {c \in CampaignId : campaign[c].state # "Absent"}
<1>0. UNCHANGED <<campaign, session>> /\ SessionRows' = SessionRows
    BY DEF vars, SessionRows
<1>1. IsFiniteSet(Campaigns) /\ (Campaigns # {} => Cardinality(Campaigns) > 0)
  <2>1. IsFiniteSet(CampaignId)
    BY FS_Interval, BoundsAssumption DEF CampaignId
  <2>2. IsFiniteSet(Campaigns)
    BY <2>1, FS_Subset
  <2> QED BY <2>2, FS_EmptySet, FS_CardinalityType
<1>2. IsFiniteSet(SessionRows)
  <2>1. IsFiniteSet(SessionId)
    BY FS_Interval, BoundsAssumption DEF SessionId
  <2> QED BY <2>1, FS_Subset DEF SessionRows
<1>3. CASE FactoryStatus
  <2>1. \A state : Cardinality(TicketsIn(state)) > 0 => TicketsIn(state) # {}
    BY FS_EmptySet
  <2> QED
    BY <1>0, <1>3, <2>1, WorkBehindTickets DEF FactoryStatus, FactoryReportOK, FactoryFields
<1>4. CASE CountCampaigns
    BY <1>0, <1>1, <1>4
    DEF CountCampaigns, Reading, ReportOK, FactoryReportOK, FactoryFields
<1>5. CASE CountSessions
  <2>1. (\E s, r \in SessionRows : s # r) => Cardinality(SessionRows) > 1
    BY <1>2, TwoElements
  <2>2. /\ report.kind = "Factory" /\ DOMAIN report = FactoryFields /\ report.pc = "sessions"
        /\ report.inFlight > 0 =>
             report.campaigns > 0 /\ \E c \in CampaignId : campaign[c].state # "Absent"
        /\ report.delivered > 0 => \E s, r \in SessionRows : s # r
    BY <1>5 DEF CountSessions, Reading, ReportOK, FactoryReportOK
  <2>3. /\ report'.kind = "Factory" /\ report'.pc = "shown" /\ DOMAIN report' = FactoryFields
        /\ report'.inFlight = report.inFlight /\ report'.delivered = report.delivered
        /\ report'.campaigns = report.campaigns /\ report'.sessions = Cardinality(SessionRows)
    BY <1>5, <2>2 DEF CountSessions, FactoryFields
  <2> QED BY <1>0, <2>1, <2>2, <2>3 DEF FactoryReportOK
<1> QED BY <1>3, <1>4, <1>5

\* The head the scheduler selects is read with its revisions in one statement.
LEMMA HeadRead ==
    ASSUME RowsSound, NEW h \in DownstreamHeads
    PROVE  HeadOK([attempt |-> h[1], attemptRev |-> attempt[h[1]].rev,
                   candidate |-> h[2], candidateRev |-> candidate[h[2]].rev,
                   action |-> DownstreamAction(attempt[h[1]].stage, candidate[h[2]])])
<1>1. h[1] \in AttemptId /\ h[2] \in CandidateId
    BY DEF DownstreamHeads
<1>2. attempt[h[1]].stage # "Absent" /\ candidate[h[2]].attempt = h[1]
    BY DEF DownstreamHeads, DownstreamStage, HardStage, QualityStage, IsLatestCandidate,
           CandidatesOf
<1>3. candidate[h[2]].state # "Absent"
    BY <1>1, <1>2 DEF RowsSound, RowLinks, CandidateLinks, AttemptId
<1>4. attempt[h[1]].rev \in Nat /\ candidate[h[2]].rev \in Nat
    BY <1>1 DEF RowsSound, TypeOK, AttemptRow, CandidateRow
<1> QED BY <1>1, <1>2, <1>3, <1>4 DEF HeadOK

\* campaign_status and ticket_buffer_status: the state before the deliveries,
\* and the selected work with the revisions it was selected by.
LEMMA BufferStatement ==
    ASSUME RowsSound, ReportOK, UNCHANGED vars,
           \/ \E c \in CampaignId : CampaignStatus(c)
           \/ ReadDownstream \/ ReadDelivered \/ ReadOldest
    PROVE  report'.kind = "Campaign" /\ CampaignReportOK'
<1> USE DEF CampaignFields, DeliveriesRead, CostsRead, IdentityRead, NoHead, NoOldest
<1>0. /\ UNCHANGED <<campaign, attempt, ticket, candidate>>
      /\ \A c \in CampaignId : DeliveredAttempts(c)' = DeliveredAttempts(c)
      /\ \A h : HeadOK(h)' <=> HeadOK(h)
      /\ \A t : OldestOK(t)' <=> OldestOK(t)
    BY DEF vars, DeliveredAttempts, HeadOK, OldestOK
<1>1. ASSUME NEW c \in CampaignId, CampaignStatus(c)
      PROVE  report'.kind = "Campaign" /\ CampaignReportOK'
  <2>1. campaign[c].state = "Completed" => Cardinality(DeliveredAttempts(c)) >= DeliveryTarget
    BY PolicyAssumption DEF RowsSound, TargetAccounting
  <2> QED BY <1>0, <1>1, <2>1 DEF CampaignStatus, CampaignReport, CampaignReportOK
<1>2. ASSUME report.kind = "Campaign" PROVE CampaignReportOK
    BY <1>2 DEF ReportOK
<1>3. CASE ReadDownstream
    BY <1>0, <1>2, <1>3, HeadRead, ZenonT(60) DEF ReadDownstream, Reading, CampaignReportOK
<1>4. CASE ReadDelivered
  <2>1. Cardinality(DeliveredAttempts(report.id)) > 0 => DeliveredAttempts(report.id) # {}
    BY FS_EmptySet
  <2> QED BY <1>0, <1>2, <1>4, <2>1 DEF ReadDelivered, Reading, CampaignReportOK
<1>5. CASE ReadOldest
  <2>1. \A t \in TicketsIn("Sponsored") : OldestOK([id |-> t, rev |-> ticket[t].rev])
    BY DEF TicketsIn, OldestOK, RowsSound, TypeOK, TicketRow
  <2> QED BY <1>0, <1>2, <1>5, <2>1, ZenonT(60) DEF ReadOldest, Reading, CampaignReportOK
<1> QED BY <1>1, <1>3, <1>4, <1>5

\* The rest of campaign_status_response: the page of session costs before the
\* count of all sessions, the delivered commit after the deliveries.
LEMMA SpendStatement ==
    ASSUME RowsSound, ReportOK, UNCHANGED vars,
           ReadSessionCosts \/ ReadProductIdentity \/ ReadAggregates
    PROVE  report'.kind = "Campaign" /\ CampaignReportOK'
<1> USE DEF CampaignFields, DeliveriesRead, CostsRead, IdentityRead
<1> DEFINE c == report.id
           S == SessionsOf(c)
           rows == {[id |-> s, state |-> session[s].state] : s \in S}
<1>0. /\ UNCHANGED <<session, attempt>>
      /\ \A d \in CampaignId : DeliveredAttempts(d)' = DeliveredAttempts(d)
      /\ \A d : SessionsOf(d)' = SessionsOf(d)
      /\ \A h : HeadOK(h)' <=> HeadOK(h)
      /\ \A t : OldestOK(t)' <=> OldestOK(t)
    BY DEF vars, DeliveredAttempts, SessionsOf, SessionRows, HeadOK, OldestOK
<1>1. report.kind = "Campaign" /\ CampaignReportOK
    BY DEF ReadSessionCosts, ReadProductIdentity, ReadAggregates, Reading, ReportOK
<1>2. CASE ReadSessionCosts
  <2>1. IsFiniteSet(S)
    <3>1. IsFiniteSet(SessionId)
      BY FS_Interval, BoundsAssumption DEF SessionId
    <3> QED BY <3>1, FS_Subset DEF SessionsOf, SessionRows
  <2>2. IsFiniteSet(rows) /\ Cardinality(rows) <= Cardinality(S)
    <3> DEFINE f == [s \in S |-> [id |-> s, state |-> session[s].state]]
    <3>1. DOMAIN f = S /\ rows = {f[s] : s \in S}
      OBVIOUS
    <3> HIDE DEF S, rows, f
    <3> QED BY <2>1, <3>1, ValuesFinite
  <2>3. PICK kept \in Page(rows, -1) : report' = [report EXCEPT !.pc = "identity", !.costs = kept]
    BY <1>2 DEF ReadSessionCosts, SessionsOf
  <2>4. Cardinality(kept) \in Nat /\ Cardinality(kept) <= Cardinality(S)
    <3> HIDE DEF rows
    <3>1. Cardinality(kept) \in Nat /\ Cardinality(kept) <= Cardinality(rows)
      BY <2>2, <2>3, PageKeeps
    <3>2. Cardinality(rows) \in Nat /\ Cardinality(S) \in Nat
      BY <2>1, <2>2, FS_CardinalityType
    <3> QED BY <2>2, <3>1, <3>2
  <2> QED
    BY <1>0, <1>1, <1>2, <2>3, <2>4 DEF ReadSessionCosts, Reading, CampaignReportOK
<1>3. CASE ReadProductIdentity
  <2>1. Cardinality(DeliveredAttempts(c)) >= DeliveryTarget => DeliveredAttempts(c) # {}
    BY FS_EmptySet, PolicyAssumption
  <2> QED
    BY <1>0, <1>1, <1>3, <2>1 DEF ReadProductIdentity, Reading, CampaignReportOK
<1>4. CASE ReadAggregates
    BY <1>0, <1>1, <1>4 DEF ReadAggregates, Reading, CampaignReportOK, SessionsOf
<1> QED BY <1>2, <1>3, <1>4

\* Every statement of every report leaves it sound.
LEMMA StatementKeepsReport ==
    ASSUME RowsSound, ReportOK, ReportStep
    PROVE  ReportOK'
<1>0. UNCHANGED vars
    BY DEF ReportStep
<1>1. /\ report'.kind = "Candidate" /\ CandidateReportOK' => ReportOK'
      /\ report'.kind = "Ticket" /\ TicketReportOK' => ReportOK'
      /\ report'.kind = "Tickets" /\ TicketsReportOK' => ReportOK'
      /\ report'.kind = "Factory" /\ FactoryReportOK' => ReportOK'
      /\ report'.kind = "Campaign" /\ CampaignReportOK' => ReportOK'
    BY DEF ReportOK, CandidateReportOK, TicketReportOK, TicketsReportOK, FactoryReportOK,
           CampaignReportOK
<1>2. CASE \E states \in {TicketState \ {"Absent"}, {"Proposed"}} : ListTickets(states)
  <2>1. PICK states \in {TicketState \ {"Absent"}, {"Proposed"}} : ListTickets(states)
    BY <1>2
  <2>2. "Absent" \notin states
    OBVIOUS
  <2>3. report'.kind = "Tickets" /\ TicketsReportOK'
    BY <1>0, <2>1, <2>2, TicketsStatement
  <2> QED BY <1>1, <2>3
<1>3. CASE CloseReport
    BY <1>3 DEF CloseReport, NoReport, ReportOK, CandidateReportOK, TicketReportOK,
           TicketsReportOK, FactoryReportOK, CampaignReportOK
<1>4. CASE \/ \E t \in TicketId : ShowTicket(t)
           \/ ReadAttempts
  <2>1. report'.kind = "Ticket" /\ TicketReportOK'
    BY <1>0, <1>4, TicketStatement
  <2> QED BY <1>1, <2>1
<1>5. CASE FactoryStatus \/ CountCampaigns \/ CountSessions
  <2>1. report'.kind = "Factory" /\ FactoryReportOK'
    BY <1>0, <1>5, FactoryStatement
  <2> QED BY <1>1, <2>1
<1>6. CASE \/ \E c \in CampaignId : CampaignStatus(c)
           \/ ReadDownstream \/ ReadDelivered \/ ReadOldest
  <2>1. report'.kind = "Campaign" /\ CampaignReportOK'
    BY <1>0, <1>6, BufferStatement
  <2> QED BY <1>1, <2>1
<1>7. CASE ReadSessionCosts \/ ReadProductIdentity \/ ReadAggregates
  <2>1. report'.kind = "Campaign" /\ CampaignReportOK'
    BY <1>0, <1>7, SpendStatement
  <2> QED BY <1>1, <2>1
<1>8. CASE \/ \E k \in CandidateId : ShowCandidate(k)
           \/ ReadValidations \/ ReadReview \/ ReadDecision \/ ReadDelivery
  <2>1. report'.kind = "Candidate" /\ CandidateReportOK'
    BY <1>0, <1>8, CandidateStatement
  <2> QED BY <1>1, <2>1
<1> QED BY <1>2, <1>3, <1>4, <1>5, <1>6, <1>7, <1>8 DEF ReportStep

-----------------------------------------------------------------------------
(* The theorems                                                            *)

\* The reports write nothing: whatever the operator looks at, and in whatever
\* order, the rows behave as the authority's (every query function of
\* operator_navigation.rs and operator_rpc.rs).
THEOREM ReportsOnlyRead == ReportSpec => Spec
<1>1. ReportInit => Init
    BY DEF ReportInit
<1>2. [ReportNext]_<<vars, report>> => [Next]_vars
    BY DEF ReportNext, ReportStep
<1> QED BY <1>1, <1>2, PTL DEF ReportSpec, Spec

\* A report is sound at every moment it is open.
LEMMA ReportOKInvariant == ReportSpec => []ReportOK
<1>1. ReportInit => ReportOK
    BY DEF ReportInit, NoReport, ReportOK, CandidateReportOK, TicketReportOK,
           TicketsReportOK, FactoryReportOK, CampaignReportOK
<1>2. RowsSound /\ ReportOK /\ [ReportNext]_<<vars, report>> => ReportOK'
    BY StatementKeepsReport, ReportAges DEF ReportNext
<1>3. ReportSpec => []RowsSound
    BY ReportsOnlyRead, RowsSoundInvariant
<1> QED BY <1>1, <1>2, <1>3, PTL DEF ReportSpec

\* A report never claims more than it shows: the statement that makes a claim
\* comes first, and its evidence is never taken away before it is read.
THEOREM ReportsAreBacked == ReportSpec => []ReportBacked
<1> QED BY ReportsOnlyRead, RowsSoundInvariant, ReportOKInvariant, ReportOKSuffices, PTL

\* A revision copied from a report into the fence of a later command guards
\* everything the report showed of that row, although it was read in several
\* statements without a snapshot.
THEOREM FencesGuardReports == ReportSpec => []ReportCurrent
<1> QED BY ReportsOnlyRead, RowsSoundInvariant, ReportOKInvariant, ReportOKSuffices, PTL
=============================================================================
