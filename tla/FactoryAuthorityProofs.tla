----------------------- MODULE FactoryAuthorityProofs -----------------------
(***************************************************************************)
(* Theorems about the SQL authority for every number of campaigns, tickets,*)
(* attempts, candidates and sessions, every delivery target and every      *)
(* proposal limit, under the most general client.                          *)
(*                                                                         *)
(* First what each row guarantees by itself: its type, the evidence of a   *)
(* candidate, the edges of a ticket's lifecycle, the revisions.  Then how  *)
(* the rows agree with one another: the transactions are reduced to what   *)
(* they do to the lifecycle columns (LifecycleEvent), and the invariants   *)
(* are shown to survive every such event.  The refinement of the delivery  *)
(* contract comes last.                                                    *)
(***************************************************************************)
EXTENDS FactoryRefinement, FiniteSetTheorems, TLAPS

-----------------------------------------------------------------------------
(* Type correctness                                                        *)

\* The empty tables have the declared shape.
LEMMA InitTypeOK == Init => TypeOK
BY BoundsAssumption
DEF Init, TypeOK, NoCampaign, NoTicket, NoAttempt, NoCandidate, NoSession,
    CampaignRow, TicketRow, AttemptRow, CandidateRow, SessionRow,
    CampaignState, CostState, TicketState, AttemptStage, OpenStage,
    DownstreamStage, HardStage, QualityStage, CandidateState, ValidationState,
    ReviewState, Decision, Office, SessionState, SessionTerminal

\* CloseCampaign keeps the shape of the campaign rows.
LEMMA CloseCampaignTypeOK ==
    ASSUME TypeOK, NEW c \in CampaignId, NEW state \in CampaignState,
           CloseCampaign(c, state)
    PROVE  TypeOK'
BY DEF TypeOK, CloseCampaign, CampaignRow

\* process.rs, campaign commands
LEMMA CampaignStepTypeOK == TypeOK /\ CampaignStep => TypeOK'
<1> SUFFICES ASSUME TypeOK, CampaignStep PROVE TypeOK'
    OBVIOUS
<1>0. PICK c \in CampaignId :
      \/ StartCampaign(c)
      \/ DeadlineElapses(c)
      \/ CancelCampaign(c, campaign[c].rev)
      \/ FinishCampaignCancellation(c, campaign[c].rev)
      \/ FailCampaign(c, campaign[c].rev)
    BY DEF CampaignStep
<1>1. CASE StartCampaign(c)
    BY <1>1 DEF TypeOK, StartCampaign, NoCampaign, CampaignRow, CampaignState, CostState
<1>2. CASE DeadlineElapses(c)
    BY <1>2 DEF TypeOK, DeadlineElapses
<1>3. CASE CancelCampaign(c, campaign[c].rev)
    BY <1>3, CloseCampaignTypeOK DEF CancelCampaign, CampaignState
<1>4. CASE FinishCampaignCancellation(c, campaign[c].rev)
    BY <1>4, CloseCampaignTypeOK DEF FinishCampaignCancellation, CampaignState
<1>5. CASE FailCampaign(c, campaign[c].rev)
    BY <1>5, CloseCampaignTypeOK DEF FailCampaign, CampaignState
<1> QED BY <1>0, <1>1, <1>2, <1>3, <1>4, <1>5

\* session_state maps every stop reason to a terminal lifecycle.
LEMMA SessionStateOfType ==
    ASSUME NEW stop \in StopReason
    PROVE  SessionStateOf(stop) \in SessionTerminal
BY DEF StopReason, SessionStateOf, SessionTerminal

\* What terminal_session writes to the campaign is a campaign row.
LEMMA SettledCampaignType ==
    ASSUME NEW r \in CampaignRow, NEW stop, NEW cost
    PROVE  SettledCampaign(r, stop, cost) \in CampaignRow
BY DEF SettledCampaign, CampaignRow, CampaignState, CostState

\* process.rs, assignments and sessions
LEMMA SessionStepTypeOK == TypeOK /\ SessionStep => TypeOK'
<1> SUFFICES ASSUME TypeOK, SessionStep PROVE TypeOK'
    OBVIOUS
<1>0. PICK s \in SessionId :
      \/ \E c \in CampaignId, office \in Office,
            a \in AttemptId \cup {0}, k \in CandidateId \cup {0} :
           CreateAssignment(s, c, campaign[c].rev, office, a, k)
      \/ StartSession(s)
      \/ \E stop \in StopReason, cost \in SessionCost : TerminalSession(s, stop, cost)
    BY DEF SessionStep
<1>1. ASSUME NEW c \in CampaignId, NEW office \in Office,
             NEW a \in AttemptId \cup {0}, NEW k \in CandidateId \cup {0},
             CreateAssignment(s, c, campaign[c].rev, office, a, k)
      PROVE  TypeOK'
  <2>1. campaign' \in [CampaignId -> CampaignRow]
    BY <1>1 DEF TypeOK, CreateAssignment, CampaignRow
  <2>2. session' \in [SessionId -> SessionRow]
    BY <1>1 DEF TypeOK, CreateAssignment, SessionRow, SessionState
  <2> QED BY <1>1, <2>1, <2>2 DEF TypeOK, CreateAssignment
<1>2. CASE StartSession(s)
    BY <1>2 DEF TypeOK, StartSession, SessionRow, SessionState
<1>3. ASSUME NEW stop \in StopReason, NEW cost \in SessionCost,
             TerminalSession(s, stop, cost)
      PROVE  TypeOK'
  <2>1. session' \in [SessionId -> SessionRow]
    BY <1>3, SessionStateOfType DEF TypeOK, TerminalSession, SessionRow, SessionState
  <2>2. campaign' \in [CampaignId -> CampaignRow]
    <3> DEFINE c == session[s].campaign
               settled == SettledCampaign(campaign[c], stop, cost)
    <3>1. c \in CampaignId => settled \in CampaignRow
      BY SettledCampaignType DEF TypeOK
    <3>2. c \in CampaignId => [settled EXCEPT !.rev = settled.rev + 1] \in CampaignRow
      <4> HIDE DEF settled
      <4> QED BY <3>1 DEF CampaignRow
    <3>3. campaign' = [campaign EXCEPT ![c] = [settled EXCEPT !.rev = settled.rev + 1]]
      BY <1>3 DEF TerminalSession
    <3> HIDE DEF c, settled
    <3> QED BY <3>2, <3>3 DEF TypeOK
  <2> QED BY <1>3, <2>1, <2>2 DEF TypeOK, TerminalSession
<1> QED BY <1>0, <1>1, <1>2, <1>3

\* MoveTicket keeps the shape of the ticket rows.
LEMMA MoveTicketType ==
    ASSUME ticket \in [TicketId -> TicketRow], NEW t, NEW state \in TicketState,
           MoveTicket(t, state)
    PROVE  ticket' \in [TicketId -> TicketRow]
<1>1. CASE t \in TicketId
    BY <1>1 DEF MoveTicket, TicketRow
<1>2. CASE t \notin TicketId
    BY <1>2 DEF MoveTicket
<1> QED BY <1>1, <1>2

\* A write of stage and revision keeps the shape of the attempt rows.
LEMMA StageWriteType ==
    ASSUME attempt \in [AttemptId -> AttemptRow], NEW a, NEW stage \in AttemptStage,
           attempt' = [attempt EXCEPT ![a].stage = stage, ![a].rev = @ + 1]
    PROVE  attempt' \in [AttemptId -> AttemptRow]
<1>1. CASE a \in AttemptId
    BY <1>1 DEF AttemptRow
<1>2. CASE a \notin AttemptId
    BY <1>2
<1> QED BY <1>1, <1>2

\* A write of lifecycle and revision keeps the shape of the candidate rows.
LEMMA LifecycleWriteType ==
    ASSUME candidate \in [CandidateId -> CandidateRow], NEW k \in CandidateId,
           NEW state \in CandidateState,
           candidate' = [candidate EXCEPT ![k].state = state, ![k].rev = @ + 1]
    PROVE  candidate' \in [CandidateId -> CandidateRow]
BY DEF CandidateRow

\* ticket_store.rs and sponsor_ticket
LEMMA TicketStepTypeOK == TypeOK /\ TicketStep => TypeOK'
<1> SUFFICES ASSUME TypeOK, TicketStep PROVE TypeOK'
    OBVIOUS
<1>0. PICK t \in TicketId :
      \/ SubmitTicketProposal(t)
      \/ SponsorTicket(t, ticket[t].rev)
      \/ \E a \in AttemptId, c \in CampaignId, outcome \in Requalification :
           ClaimSponsoredTicket(t, a, c, ticket[t].rev, campaign[c].rev, outcome)
    BY DEF TicketStep
<1>1. CASE SubmitTicketProposal(t)
    BY <1>1 DEF TypeOK, SubmitTicketProposal, NoTicket, TicketRow, TicketState
<1>2. CASE SponsorTicket(t, ticket[t].rev)
    BY <1>2, MoveTicketType DEF TypeOK, SponsorTicket, TicketState
<1>3. ASSUME NEW a \in AttemptId, NEW c \in CampaignId, NEW outcome \in Requalification,
             ClaimSponsoredTicket(t, a, c, ticket[t].rev, campaign[c].rev, outcome)
      PROVE  TypeOK'
  <2>1. ticket' \in [TicketId -> TicketRow]
    BY <1>3, MoveTicketType DEF TypeOK, ClaimSponsoredTicket, TicketState
  <2>2. attempt' \in [AttemptId -> AttemptRow]
    <3> DEFINE row == [NoAttempt EXCEPT !.stage = "Engineering", !.ticket = t, !.campaign = c]
    <3>1. row \in AttemptRow
      BY DEF NoAttempt, AttemptRow, AttemptStage, OpenStage
    <3>2. attempt' = [attempt EXCEPT ![a] = row] \/ attempt' = attempt
      BY <1>3 DEF ClaimSponsoredTicket
    <3> HIDE DEF row
    <3> QED BY <3>1, <3>2 DEF TypeOK
  <2> QED BY <1>3, <2>1, <2>2 DEF TypeOK, ClaimSponsoredTicket
<1> QED BY <1>0, <1>1, <1>2, <1>3

\* ticket_store.rs attempts, release_ticket_attempt and submit_candidate
LEMMA AttemptStepTypeOK == TypeOK /\ AttemptStep => TypeOK'
<1> SUFFICES ASSUME TypeOK, AttemptStep PROVE TypeOK'
    OBVIOUS
<1>0. PICK a \in AttemptId :
      \/ FailTicketAttempt(a, attempt[a].rev, TicketOf(a).rev)
      \/ \E k \in CandidateId :
           RetryQualityAttempt(a, k, attempt[a].rev, TicketOf(a).rev)
      \/ RetryEngineeringAttempt(a, attempt[a].rev, TicketOf(a).rev)
      \/ \E outcome \in Requalification :
           ReleaseTicketAttempt(a, attempt[a].rev, TicketOf(a).rev, outcome)
      \/ \E k \in CandidateId, s \in SessionId :
           SubmitCandidate(k, a, s, attempt[a].rev, TicketOf(a).rev)
    BY DEF AttemptStep
<1> USE DEF AttemptStage, OpenStage, DownstreamStage, HardStage, QualityStage
<1>1. CASE FailTicketAttempt(a, attempt[a].rev, TicketOf(a).rev)
    BY <1>1 DEF TypeOK, FailTicketAttempt, CanFail, AttemptRow
<1>2. ASSUME NEW k \in CandidateId,
             RetryQualityAttempt(a, k, attempt[a].rev, TicketOf(a).rev)
      PROVE  TypeOK'
    BY <1>2 DEF TypeOK, RetryQualityAttempt, AttemptRow
<1>3. CASE RetryEngineeringAttempt(a, attempt[a].rev, TicketOf(a).rev)
    BY <1>3 DEF TypeOK, RetryEngineeringAttempt, AttemptRow
<1>4. ASSUME NEW outcome \in Requalification,
             ReleaseTicketAttempt(a, attempt[a].rev, TicketOf(a).rev, outcome)
      PROVE  TypeOK'
  <2>1. ticket' \in [TicketId -> TicketRow]
    BY <1>4, MoveTicketType DEF TypeOK, ReleaseTicketAttempt, TicketState
  <2>2. attempt' \in [AttemptId -> AttemptRow]
    BY <1>4 DEF TypeOK, ReleaseTicketAttempt, AttemptRow
  <2> QED BY <1>4, <2>1, <2>2 DEF TypeOK, ReleaseTicketAttempt
<1>5. ASSUME NEW k \in CandidateId, NEW s \in SessionId,
             SubmitCandidate(k, a, s, attempt[a].rev, TicketOf(a).rev)
      PROVE  TypeOK'
  <2>1. candidate' \in [CandidateId -> CandidateRow]
    <3> DEFINE row == [NoCandidate EXCEPT !.state = "Submitted", !.attempt = a,
                                          !.engineeringSession = s]
    <3>1. row \in CandidateRow
      BY DEF NoCandidate, CandidateRow, CandidateState, ValidationState, ReviewState
    <3>2. candidate' = [candidate EXCEPT ![k] = row]
      BY <1>5 DEF SubmitCandidate
    <3> HIDE DEF row
    <3> QED BY <3>1, <3>2 DEF TypeOK
  <2>2. attempt' \in [AttemptId -> AttemptRow]
    <3> DEFINE stage == IF attempt[a].stage = "Engineering" THEN "HardValidation"
                                                             ELSE "ReworkValidation"
    <3>1. attempt' = [attempt EXCEPT ![a].stage = stage, ![a].rev = @ + 1]
      BY <1>5 DEF SubmitCandidate
    <3>2. stage \in AttemptStage
      OBVIOUS
    <3> HIDE DEF stage
    <3> QED BY <3>1, <3>2, StageWriteType DEF TypeOK
  <2> QED BY <1>5, <2>1, <2>2 DEF TypeOK, SubmitCandidate
<1> QED BY <1>0, <1>1, <1>2, <1>3, <1>4, <1>5

\* decision_store.rs: evidence, decisions and delivery
LEMMA CandidateStepTypeOK == TypeOK /\ CandidateStep => TypeOK'
<1> SUFFICES ASSUME TypeOK, CandidateStep PROVE TypeOK'
    OBVIOUS
<1>0. PICK k \in CandidateId :
      LET a == candidate[k].attempt IN
      \/ AttachCandidateCommit(k, candidate[k].rev)
      \/ \E s \in SessionId, result \in {"Passed", "NotPassed"} :
           \/ RecordHardValidation(k, s, candidate[k].rev, attempt[a].rev, result)
           \/ RecordQualityValidation(k, s, candidate[k].rev, attempt[a].rev, result)
      \/ \E s \in SessionId, verdict \in {"Accept", "Reject"} :
           SubmitQualityReview(k, s, candidate[k].rev, attempt[a].rev, verdict)
      \/ \E decision \in Decision, override \in BOOLEAN :
           DecideCandidate(k, decision, override,
                           candidate[k].rev, attempt[a].rev, TicketOf(a).rev)
      \/ RecordDelivery(k, candidate[k].rev, attempt[a].rev, TicketOf(a).rev,
                        campaign[attempt[a].campaign].rev)
    BY DEF CandidateStep
<1> DEFINE a == candidate[k].attempt
<1> USE DEF AttemptStage, OpenStage, DownstreamStage, HardStage, QualityStage
<1>1. CASE AttachCandidateCommit(k, candidate[k].rev)
  <2>1. candidate' = [candidate EXCEPT ![k].commit = TRUE, ![k].rev = @ + 1]
    BY <1>1 DEF AttachCandidateCommit
  <2>2. candidate' \in [CandidateId -> CandidateRow]
    BY <2>1 DEF TypeOK, CandidateRow
  <2> QED BY <1>1, <2>2 DEF TypeOK, AttachCandidateCommit
<1>2. ASSUME NEW s \in SessionId, NEW result \in {"Passed", "NotPassed"},
             RecordHardValidation(k, s, candidate[k].rev, attempt[a].rev, result)
      PROVE  TypeOK'
  <2>1. candidate' \in [CandidateId -> CandidateRow]
    <3> DEFINE state == IF result = "Passed" THEN "Validated" ELSE "Rejected"
    <3>1. candidate' = [candidate EXCEPT ![k].hard = result, ![k].state = state, ![k].rev = @ + 1]
      BY <1>2 DEF RecordHardValidation
    <3>2. state \in CandidateState
      BY DEF CandidateState
    <3> HIDE DEF state
    <3> QED BY <3>1, <3>2 DEF TypeOK, CandidateRow, ValidationState
  <2>2. attempt' \in [AttemptId -> AttemptRow]
    <3> DEFINE stage == IF result # "Passed" THEN "Failed"
                        ELSE IF attempt[a].stage = "HardValidation" THEN "Quality"
                                                                     ELSE "ReworkQuality"
    <3>1. attempt' = [attempt EXCEPT ![a].stage = stage, ![a].rev = @ + 1]
      BY <1>2 DEF RecordHardValidation
    <3>2. stage \in AttemptStage
      OBVIOUS
    <3> HIDE DEF stage
    <3> QED BY <3>1, <3>2, StageWriteType DEF TypeOK
  <2> QED BY <1>2, <2>1, <2>2 DEF TypeOK, RecordHardValidation
<1>3. ASSUME NEW s \in SessionId, NEW result \in {"Passed", "NotPassed"},
             RecordQualityValidation(k, s, candidate[k].rev, attempt[a].rev, result)
      PROVE  TypeOK'
  <2>1. candidate' \in [CandidateId -> CandidateRow]
    <3> DEFINE state == IF result = "Passed" THEN "Validated" ELSE "Rejected"
    <3>1. candidate' = [candidate EXCEPT ![k].quality = result, ![k].state = state,
                                         ![k].rev = @ + 1]
      BY <1>3 DEF RecordQualityValidation
    <3>2. state \in CandidateState
      BY DEF CandidateState
    <3> HIDE DEF state
    <3> QED BY <3>1, <3>2 DEF TypeOK, CandidateRow, ValidationState
  <2>2. attempt' \in [AttemptId -> AttemptRow]
    <3> DEFINE stage == IF result = "Passed" THEN "AwaitingArchitect" ELSE "Failed"
    <3>1. attempt' = [attempt EXCEPT ![a].stage = stage, ![a].rev = @ + 1]
      BY <1>3 DEF RecordQualityValidation
    <3>2. stage \in AttemptStage
      OBVIOUS
    <3> HIDE DEF stage
    <3> QED BY <3>1, <3>2, StageWriteType DEF TypeOK
  <2> QED BY <1>3, <2>1, <2>2 DEF TypeOK, RecordQualityValidation
<1>4. ASSUME NEW s \in SessionId, NEW verdict \in {"Accept", "Reject"},
             SubmitQualityReview(k, s, candidate[k].rev, attempt[a].rev, verdict)
      PROVE  TypeOK'
  <2>1. candidate' \in [CandidateId -> CandidateRow]
    <3>1. candidate' = [candidate EXCEPT ![k].review = verdict, ![k].qualitySession = s,
                                         ![k].rev = @ + 1]
      BY <1>4 DEF SubmitQualityReview
    <3> QED BY <3>1 DEF TypeOK, CandidateRow, ReviewState
  <2>2. attempt' \in [AttemptId -> AttemptRow]
    <3>1. attempt' = [attempt EXCEPT ![a].rev = @ + 1]
      BY <1>4 DEF SubmitQualityReview
    <3>2. CASE a \in AttemptId
      BY <3>1, <3>2 DEF TypeOK, AttemptRow
    <3>3. CASE a \notin AttemptId
      BY <3>1, <3>3 DEF TypeOK
    <3> QED BY <3>2, <3>3
  <2> QED BY <1>4, <2>1, <2>2 DEF TypeOK, SubmitQualityReview
<1>5. ASSUME NEW decision \in Decision, NEW override \in BOOLEAN,
             DecideCandidate(k, decision, override,
                             candidate[k].rev, attempt[a].rev, TicketOf(a).rev)
      PROVE  TypeOK'
  <2>1. candidate' \in [CandidateId -> CandidateRow]
    <3> DEFINE state == IF decision = "Deliver" THEN "Accepted" ELSE "Rejected"
               rejected == candidate[k].review = "Reject"
    <3>1. candidate' = [candidate EXCEPT ![k].state = state, ![k].decision = decision,
                                         ![k].override = rejected, ![k].rev = @ + 1]
      BY <1>5 DEF DecideCandidate
    <3>2. state \in CandidateState /\ rejected \in BOOLEAN
      BY DEF CandidateState
    <3> HIDE DEF state, rejected
    <3> QED BY <3>1, <3>2, SMTT(30) DEF TypeOK, CandidateRow
  <2>2. attempt' \in [AttemptId -> AttemptRow]
    <3>1. CASE attempt' = [attempt EXCEPT ![a].stage = "Failed", ![a].rev = @ + 1]
      BY <3>1, StageWriteType DEF TypeOK
    <3>2. CASE attempt' = [attempt EXCEPT ![a].rev = @ + 1]
      <4>1. CASE a \in AttemptId
        BY <3>2, <4>1 DEF TypeOK, AttemptRow
      <4>2. CASE a \notin AttemptId
        BY <3>2, <4>2 DEF TypeOK
      <4> QED BY <4>1, <4>2
    <3>3. CASE attempt' = [attempt EXCEPT ![a].stage = "ReworkEngineering",
                                          ![a].rework = @ + 1, ![a].rev = @ + 1]
      <4> HIDE DEF a
      <4>1. CASE a \in AttemptId
        BY <3>3, <4>1 DEF TypeOK, AttemptRow
      <4>2. CASE a \notin AttemptId
        BY <3>3, <4>2 DEF TypeOK
      <4> QED BY <4>1, <4>2
    <3> QED BY <1>5, <3>1, <3>2, <3>3 DEF DecideCandidate
  <2>3. ticket' \in [TicketId -> TicketRow]
    BY <1>5, MoveTicketType DEF TypeOK, DecideCandidate, TicketState
  <2> QED BY <1>5, <2>1, <2>2, <2>3 DEF TypeOK, DecideCandidate
<1>6. CASE RecordDelivery(k, candidate[k].rev, attempt[a].rev, TicketOf(a).rev,
                          campaign[attempt[a].campaign].rev)
  <2>1. candidate' \in [CandidateId -> CandidateRow]
    <3>1. candidate' = [candidate EXCEPT ![k].state = "Delivered", ![k].rev = @ + 1]
      BY <1>6, ZenonT(60) DEF RecordDelivery
    <3>2. "Delivered" \in CandidateState
      BY DEF CandidateState
    <3> QED BY <3>1, <3>2, LifecycleWriteType, ZenonT(60) DEF TypeOK
  <2>2. attempt' \in [AttemptId -> AttemptRow]
    BY <1>6, StageWriteType, Zenon DEF TypeOK, RecordDelivery
  <2>3. ticket' \in [TicketId -> TicketRow]
    BY <1>6, MoveTicketType, ZenonT(60) DEF TypeOK, RecordDelivery, TicketState
  <2>4. campaign' \in [CampaignId -> CampaignRow]
    <3> DEFINE c == attempt[a].campaign
    <3>1. CASE campaign' = [campaign EXCEPT ![c].state = "Completed", ![c].rev = @ + 1]
      <4> HIDE DEF a, c
      <4>1. CASE c \in CampaignId
        BY <3>1, <4>1 DEF TypeOK, CampaignRow, CampaignState
      <4>2. CASE c \notin CampaignId
        BY <3>1, <4>2 DEF TypeOK
      <4> QED BY <4>1, <4>2
    <3>2. CASE campaign' = campaign
      BY <3>2 DEF TypeOK
    <3> QED BY <1>6, <3>1, <3>2, Zenon DEF RecordDelivery
  <2> QED BY <1>6, <2>1, <2>2, <2>3, <2>4, Zenon DEF TypeOK, RecordDelivery
<1> QED BY <1>0, <1>1, <1>2, <1>3, <1>4, <1>5, <1>6, SMTT(30)

\* Every store transaction keeps every row in the shape the schema declares.
THEOREM TypeCorrect == Spec => []TypeOK
<1>1. TypeOK /\ [Next]_vars => TypeOK'
  <2> SUFFICES ASSUME TypeOK, [Next]_vars PROVE TypeOK'
      OBVIOUS
  <2>1. CASE UNCHANGED vars
    BY <2>1 DEF TypeOK, vars
  <2> QED
    BY <2>1, CampaignStepTypeOK, SessionStepTypeOK, TicketStepTypeOK, AttemptStepTypeOK,
       CandidateStepTypeOK DEF Next
<1> QED BY <1>1, InitTypeOK, PTL DEF Spec

-----------------------------------------------------------------------------
(* Which rows a step may write                                             *)

\* Campaign and session commands, sponsorship and claims write no candidate.
LEMMA CandidateFrame ==
    CampaignStep \/ SessionStep \/ TicketStep => UNCHANGED candidate
<1>1. CampaignStep => UNCHANGED candidate
    BY DEF CampaignStep, StartCampaign, DeadlineElapses, CancelCampaign,
           FinishCampaignCancellation, FailCampaign, CloseCampaign
<1>2. SessionStep => UNCHANGED candidate
    BY ZenonT(60) DEF SessionStep, CreateAssignment, StartSession, TerminalSession
<1>3. TicketStep => UNCHANGED candidate
    BY ZenonT(60) DEF TicketStep, SubmitTicketProposal, SponsorTicket, ClaimSponsoredTicket
<1> QED BY <1>1, <1>2, <1>3

\* Campaign and session commands write no ticket.
LEMMA TicketFrame == CampaignStep \/ SessionStep => UNCHANGED ticket
<1>1. CampaignStep => UNCHANGED ticket
    BY DEF CampaignStep, StartCampaign, DeadlineElapses, CancelCampaign,
           FinishCampaignCancellation, FailCampaign, CloseCampaign
<1>2. SessionStep => UNCHANGED ticket
    BY ZenonT(60) DEF SessionStep, CreateAssignment, StartSession, TerminalSession
<1> QED BY <1>1, <1>2

\* The rows a candidate can be in.  A row that does not exist carries no
\* evidence, a decision is made once the candidate has been validated, a
\* validated row has passed its hard validation, and an accepted row carries
\* all the evidence delivery needs.
SoundCandidate(r) ==
    /\ r.state = "Absent" => /\ r.hard = "None" /\ r.quality = "None"
                             /\ r.review = "None" /\ r.decision = "None"
    /\ r.state \in {"Submitted", "Validated"} => r.decision = "None"
    /\ r.state = "Validated" => r.hard = "Passed"
    /\ r.state \in {"Accepted", "Delivered"} =>
         /\ r.commit
         /\ r.hard = "Passed"
         /\ r.quality = "Passed"
         /\ r.review # "None"
         /\ r.decision = "Deliver"
         /\ r.override <=> r.review = "Reject"

\* The write of one candidate row from r to q: recorded evidence is kept.
KeepsEvidence(r, q) ==
    /\ r.hard # "None" => q.hard = r.hard
    /\ r.quality # "None" => q.quality = r.quality
    /\ r.review # "None" => q.review = r.review
    /\ r.decision # "None" => q.decision = r.decision

SoundCandidates == \A k \in CandidateId : SoundCandidate(candidate[k])

\* Every step leaves a candidate alone or replaces it by a sound row that
\* keeps the evidence of the old one.
LEMMA CandidateWrite ==
    ASSUME TypeOK, SoundCandidates, Next, NEW j \in CandidateId
    PROVE  SoundCandidate(candidate'[j]) /\ KeepsEvidence(candidate[j], candidate'[j])
<1> DEFINE Good == SoundCandidate(candidate'[j]) /\ KeepsEvidence(candidate[j], candidate'[j])
<1>0. SoundCandidate(candidate[j])
    BY DEF SoundCandidates
<1>1. CASE candidate'[j] = candidate[j]
    BY <1>0, <1>1 DEF KeepsEvidence
<1>2. CASE CampaignStep \/ SessionStep \/ TicketStep
    BY <1>1, <1>2, CandidateFrame
<1>3. CASE AttemptStep
  <2>0. PICK a \in AttemptId :
        \/ FailTicketAttempt(a, attempt[a].rev, TicketOf(a).rev)
        \/ \E k \in CandidateId :
             RetryQualityAttempt(a, k, attempt[a].rev, TicketOf(a).rev)
        \/ RetryEngineeringAttempt(a, attempt[a].rev, TicketOf(a).rev)
        \/ \E outcome \in Requalification :
             ReleaseTicketAttempt(a, attempt[a].rev, TicketOf(a).rev, outcome)
        \/ \E k \in CandidateId, s \in SessionId :
             SubmitCandidate(k, a, s, attempt[a].rev, TicketOf(a).rev)
      BY <1>3 DEF AttemptStep
  <2>1. ASSUME NEW k \in CandidateId, NEW s \in SessionId,
               SubmitCandidate(k, a, s, attempt[a].rev, TicketOf(a).rev)
        PROVE  Good
    <3>1. CASE k = j
      <4>1. candidate[j].state = "Absent"
        BY <2>1, <3>1 DEF SubmitCandidate, FreshCandidate
      <4>2. candidate'[j] = [NoCandidate EXCEPT !.state = "Submitted", !.attempt = a,
                                                !.engineeringSession = s]
        BY <2>1, <3>1 DEF SubmitCandidate, TypeOK
      <4> QED BY <1>0, <4>1, <4>2 DEF SoundCandidate, KeepsEvidence, NoCandidate
    <3>2. CASE k # j
      BY <1>1, <2>1, <3>2 DEF SubmitCandidate, TypeOK
    <3> QED BY <3>1, <3>2
  <2>2. CASE UNCHANGED candidate
    BY <1>1, <2>2
  <2> QED
    BY <2>0, <2>1, <2>2 DEF FailTicketAttempt, CanFail, RetryQualityAttempt, RetryEngineeringAttempt,
                      ReleaseTicketAttempt
<1>4. CASE CandidateStep
  <2>0. PICK k \in CandidateId :
        LET a == candidate[k].attempt IN
        \/ AttachCandidateCommit(k, candidate[k].rev)
        \/ \E s \in SessionId, result \in {"Passed", "NotPassed"} :
             \/ RecordHardValidation(k, s, candidate[k].rev, attempt[a].rev, result)
             \/ RecordQualityValidation(k, s, candidate[k].rev, attempt[a].rev, result)
        \/ \E s \in SessionId, verdict \in {"Accept", "Reject"} :
             SubmitQualityReview(k, s, candidate[k].rev, attempt[a].rev, verdict)
        \/ \E decision \in Decision, override \in BOOLEAN :
             DecideCandidate(k, decision, override,
                             candidate[k].rev, attempt[a].rev, TicketOf(a).rev)
        \/ RecordDelivery(k, candidate[k].rev, attempt[a].rev, TicketOf(a).rev,
                          campaign[attempt[a].campaign].rev)
      BY <1>4, Zenon DEF CandidateStep
  <2> DEFINE a == candidate[k].attempt
  <2>1. CASE k # j
    BY <1>1, <2>0, <2>1, ZenonT(60) DEF TypeOK, AttachCandidateCommit, RecordHardValidation,
       RecordQualityValidation, SubmitQualityReview, DecideCandidate, RecordDelivery
  <2>2. CASE k = j
    <3> candidate[j] \in CandidateRow
      BY DEF TypeOK
    <3>1. CASE AttachCandidateCommit(j, candidate[j].rev)
      BY <1>0, <3>1 DEF AttachCandidateCommit, TypeOK, CandidateRow, SoundCandidate, KeepsEvidence
    <3>2. ASSUME NEW s \in SessionId, NEW result \in {"Passed", "NotPassed"},
                 RecordHardValidation(j, s, candidate[j].rev, attempt[a].rev, result)
          PROVE  Good
      BY <1>0, <3>2 DEF RecordHardValidation, TypeOK, CandidateRow, SoundCandidate, KeepsEvidence
    <3>3. ASSUME NEW s \in SessionId, NEW result \in {"Passed", "NotPassed"},
                 RecordQualityValidation(j, s, candidate[j].rev, attempt[a].rev, result)
          PROVE  Good
      BY <1>0, <3>3 DEF RecordQualityValidation, NoQualityReceipt, TypeOK, CandidateRow,
                        SoundCandidate, KeepsEvidence
    <3>4. ASSUME NEW s \in SessionId, NEW verdict \in {"Accept", "Reject"},
                 SubmitQualityReview(j, s, candidate[j].rev, attempt[a].rev, verdict)
          PROVE  Good
      BY <1>0, <3>4 DEF SubmitQualityReview, TypeOK, CandidateRow, SoundCandidate, KeepsEvidence
    <3>5. ASSUME NEW decision \in Decision, NEW override \in BOOLEAN,
                 DecideCandidate(j, decision, override,
                                 candidate[j].rev, attempt[a].rev, TicketOf(a).rev)
          PROVE  Good
      BY <1>0, <3>5 DEF DecideCandidate, DecisionAdmitted, Decision, TypeOK, CandidateRow,
                        SoundCandidate, KeepsEvidence
    <3>6. CASE RecordDelivery(j, candidate[j].rev, attempt[a].rev, TicketOf(a).rev,
                              campaign[attempt[a].campaign].rev)
      BY <1>0, <3>6 DEF RecordDelivery, TypeOK, CandidateRow, SoundCandidate, KeepsEvidence
    <3> QED BY <2>0, <2>2, <3>1, <3>2, <3>3, <3>4, <3>5, <3>6
  <2> QED BY <2>1, <2>2
<1> QED BY <1>2, <1>3, <1>4 DEF Next

\* Soundness of the candidate rows is inductive.
LEMMA SoundCandidatesInvariant == Spec => []SoundCandidates
<1>1. Init => SoundCandidates
    BY DEF Init, SoundCandidates, SoundCandidate, NoCandidate
<1>2. TypeOK /\ SoundCandidates /\ [Next]_vars => SoundCandidates'
  <2> SUFFICES ASSUME TypeOK, SoundCandidates, [Next]_vars PROVE SoundCandidates'
      OBVIOUS
  <2>1. CASE Next
    BY <2>1, CandidateWrite DEF SoundCandidates
  <2>2. CASE UNCHANGED vars
    BY <2>2 DEF SoundCandidates, vars
  <2> QED BY <2>1, <2>2
<1> QED BY <1>1, <1>2, TypeCorrect, PTL DEF Spec

-----------------------------------------------------------------------------
(* Evidence                                                                *)

\* Whatever commands are issued in whatever order, a candidate is accepted or
\* delivered only with every piece of evidence decide_candidate asks for.
THEOREM DeliveryNeedsEvidence == Spec => []DeliveryEvidence
<1>1. SoundCandidates => DeliveryEvidence
    BY DEF SoundCandidates, SoundCandidate, DeliveryEvidence
<1> QED BY <1>1, SoundCandidatesInvariant, PTL

\* record_validation, submit_quality_review and decide_candidate never replace
\* a receipt, a review or a decision that is on record.
THEOREM EvidenceIsImmutable == Spec => EvidenceImmutable
<1>1. TypeOK /\ SoundCandidates /\ [Next]_vars =>
        [\A k \in CandidateId :
            /\ candidate[k].hard # "None" => candidate'[k].hard = candidate[k].hard
            /\ candidate[k].quality # "None" => candidate'[k].quality = candidate[k].quality
            /\ candidate[k].review # "None" => candidate'[k].review = candidate[k].review
            /\ candidate[k].decision # "None" => candidate'[k].decision = candidate[k].decision
        ]_vars
    BY CandidateWrite DEF KeepsEvidence
<1> QED BY <1>1, TypeCorrect, SoundCandidatesInvariant, PTL DEF Spec, EvidenceImmutable

-----------------------------------------------------------------------------
(* Tickets                                                                 *)

\* How a ticket may move: the ticket lifecycle of the stores.
TicketMove(old, new) ==
    \/ old = "Absent" /\ new = "Proposed"
    \/ old \in {"Proposed", "Blocked"} /\ new = "Sponsored"
    \/ old = "Sponsored" /\ new \in {"InFlight", "Resolved", "Blocked"}
    \/ old = "InFlight" /\ new \in {"Sponsored", "Resolved", "Blocked", "Rejected", "Delivered"}

\* MoveTicket writes one row, and moves it when the move is allowed.
LEMMA MoveTicketEffect ==
    ASSUME TypeOK, NEW t, NEW state, MoveTicket(t, state), TicketMove(ticket[t].state, state),
           NEW u \in TicketId
    PROVE  \/ ticket'[u] = ticket[u]
           \/ u = t /\ ticket'[u].state = state /\ TicketMove(ticket[u].state, ticket'[u].state)
<1>1. CASE u = t
    BY <1>1 DEF TypeOK, TicketRow, MoveTicket
<1>2. CASE u # t
    BY <1>2 DEF TypeOK, MoveTicket
<1> QED BY <1>1, <1>2

\* Every step leaves a ticket alone or moves it along its lifecycle, and only a
\* claim that found no ticket in flight puts one there, with no other write.
LEMMA TicketWrite ==
    ASSUME TypeOK, Next, NEW u \in TicketId
    PROVE  \/ ticket'[u] = ticket[u]
           \/ /\ TicketMove(ticket[u].state, ticket'[u].state)
              /\ ticket'[u].state = "InFlight" =>
                   /\ ClaimCapacity
                   /\ \A v \in TicketId : v # u => ticket'[v] = ticket[v]
<1> DEFINE Good == \/ ticket'[u] = ticket[u]
                   \/ /\ TicketMove(ticket[u].state, ticket'[u].state)
                      /\ ticket'[u].state = "InFlight" =>
                           /\ ClaimCapacity
                           /\ \A v \in TicketId : v # u => ticket'[v] = ticket[v]
<1>1. CASE CampaignStep \/ SessionStep
    BY <1>1, TicketFrame
<1>2. CASE TicketStep
  <2>0. PICK t \in TicketId :
        \/ SubmitTicketProposal(t)
        \/ SponsorTicket(t, ticket[t].rev)
        \/ \E a \in AttemptId, c \in CampaignId, outcome \in Requalification :
             ClaimSponsoredTicket(t, a, c, ticket[t].rev, campaign[c].rev, outcome)
      BY <1>2 DEF TicketStep
  <2>1. CASE SubmitTicketProposal(t)
    BY <2>1 DEF SubmitTicketProposal, FreshTicket, NoTicket, TypeOK, TicketMove
  <2>2. CASE SponsorTicket(t, ticket[t].rev)
    BY <2>2, MoveTicketEffect DEF SponsorTicket, Sponsorable, TicketMove
  <2>3. ASSUME NEW a \in AttemptId, NEW c \in CampaignId, NEW outcome \in Requalification,
               ClaimSponsoredTicket(t, a, c, ticket[t].rev, campaign[c].rev, outcome)
        PROVE  Good
    <3>1. PICK state \in {"InFlight", "Resolved", "Blocked"} : MoveTicket(t, state)
      BY <2>3 DEF ClaimSponsoredTicket
    <3>2. ClaimCapacity /\ TicketMove(ticket[t].state, state)
      BY <2>3 DEF ClaimSponsoredTicket, TicketMove
    <3>3. \A v \in TicketId : v # t => ticket'[v] = ticket[v]
      BY <3>1 DEF MoveTicket, TypeOK
    <3> QED BY <3>1, <3>2, <3>3, MoveTicketEffect
  <2> QED BY <2>0, <2>1, <2>2, <2>3
<1>3. CASE AttemptStep
  <2>1. ASSUME NEW a \in AttemptId, NEW outcome \in Requalification,
               ReleaseTicketAttempt(a, attempt[a].rev, TicketOf(a).rev, outcome)
        PROVE  Good
    <3>1. PICK state \in {"Sponsored", "Resolved", "Blocked"} :
            MoveTicket(attempt[a].ticket, state)
      BY <2>1 DEF ReleaseTicketAttempt
    <3>2. TicketMove(ticket[attempt[a].ticket].state, state)
      BY <2>1 DEF ReleaseTicketAttempt, AttemptFence, TicketOf, TicketMove
    <3> QED BY <3>1, <3>2, MoveTicketEffect
  <2>2. CASE UNCHANGED ticket
    BY <2>2
  <2> QED
    BY <1>3, <2>1, <2>2, ZenonT(60) DEF AttemptStep, FailTicketAttempt, CanFail, RetryQualityAttempt,
                            RetryEngineeringAttempt, SubmitCandidate
<1>4. CASE CandidateStep
  <2>0. PICK k \in CandidateId :
        LET a == candidate[k].attempt IN
        \/ AttachCandidateCommit(k, candidate[k].rev)
        \/ \E s \in SessionId, result \in {"Passed", "NotPassed"} :
             \/ RecordHardValidation(k, s, candidate[k].rev, attempt[a].rev, result)
             \/ RecordQualityValidation(k, s, candidate[k].rev, attempt[a].rev, result)
        \/ \E s \in SessionId, verdict \in {"Accept", "Reject"} :
             SubmitQualityReview(k, s, candidate[k].rev, attempt[a].rev, verdict)
        \/ \E decision \in Decision, override \in BOOLEAN :
             DecideCandidate(k, decision, override,
                             candidate[k].rev, attempt[a].rev, TicketOf(a).rev)
        \/ RecordDelivery(k, candidate[k].rev, attempt[a].rev, TicketOf(a).rev,
                          campaign[attempt[a].campaign].rev)
      BY <1>4 DEF CandidateStep
  <2> DEFINE a == candidate[k].attempt
             t == attempt[a].ticket
  <2>1. CASE UNCHANGED ticket
    BY <2>1
  <2>2. ASSUME NEW state \in {"Rejected", "Delivered"}, MoveTicket(t, state),
               ticket[t].state = "InFlight"
        PROVE  Good
    BY <2>2, MoveTicketEffect DEF TicketMove
  <2>3. ASSUME NEW decision \in Decision, NEW override \in BOOLEAN,
               DecideCandidate(k, decision, override,
                               candidate[k].rev, attempt[a].rev, TicketOf(a).rev)
        PROVE  Good
    <3>1. ticket[t].state = "InFlight"
      BY <2>3, Zenon DEF DecideCandidate, AttemptFence, TicketOf
    <3>2. UNCHANGED ticket \/ MoveTicket(t, "Rejected")
      BY <2>3 DEF DecideCandidate
    <3> QED BY <2>1, <2>2, <3>1, <3>2, SMTT(30)
  <2>4. CASE RecordDelivery(k, candidate[k].rev, attempt[a].rev, TicketOf(a).rev,
                            campaign[attempt[a].campaign].rev)
    <3>1. ticket[t].state = "InFlight" /\ MoveTicket(t, "Delivered")
      BY <2>4, Zenon DEF RecordDelivery, AttemptFence, TicketOf
    <3> QED BY <2>2, <3>1, SMTT(30)
  <2> QED
    BY <2>0, <2>1, <2>3, <2>4, ZenonT(60) DEF AttachCandidateCommit, RecordHardValidation,
                            RecordQualityValidation, SubmitQualityReview
<1> QED BY <1>1, <1>2, <1>3, <1>4 DEF Next

\* A free claim capacity means that no ticket is in flight.
LEMMA ClaimCapacityFree == ClaimCapacity => TicketsIn("InFlight") = {}
<1>1. IsFiniteSet(TicketsIn("InFlight"))
  <2>1. IsFiniteSet(1..MaxTickets)
    BY FS_Interval, BoundsAssumption
  <2> QED BY <2>1, FS_Subset DEF TicketsIn, TicketId
<1>2. Cardinality(TicketsIn("InFlight")) \in Nat
    BY <1>1, FS_CardinalityType
<1>3. ClaimCapacity => Cardinality(TicketsIn("InFlight")) = 0
    BY <1>2 DEF ClaimCapacity, InFlightTicketMaximum
<1> QED BY <1>1, <1>3, FS_EmptySet

\* claim_sponsored_ticket keeps IN_FLIGHT_TICKET_MAXIMUM for any number of
\* sponsored tickets, campaigns, releases and repeated claims.
THEOREM NeverTwoInFlight == Spec => []OneTicketInFlight
<1>1. Init => OneTicketInFlight
    BY DEF Init, OneTicketInFlight, TicketsIn, NoTicket
<1>2. TypeOK /\ OneTicketInFlight /\ [Next]_vars => OneTicketInFlight'
  <2> SUFFICES ASSUME TypeOK, OneTicketInFlight, [Next]_vars,
                      NEW t \in TicketId, NEW u \in TicketId,
                      ticket'[t].state = "InFlight", ticket'[u].state = "InFlight"
               PROVE  t = u
      BY DEF OneTicketInFlight, TicketsIn
  <2>1. CASE ticket[t].state = "InFlight" /\ ticket[u].state = "InFlight"
    BY <2>1 DEF OneTicketInFlight, TicketsIn
  <2>2. ASSUME NEW v \in TicketId, NEW w \in TicketId, v # w,
               ticket'[v].state = "InFlight", ticket[v].state # "InFlight",
               ticket'[w].state = "InFlight"
        PROVE  FALSE
    <3>1. Next
      BY <2>2 DEF vars
    <3>2. ClaimCapacity /\ ticket'[w] = ticket[w]
      BY <2>2, <3>1, TicketWrite
    <3> QED BY <2>2, <3>2, ClaimCapacityFree DEF TicketsIn
  <2> QED BY <2>1, <2>2
<1> QED BY <1>1, <1>2, TypeCorrect, PTL DEF Spec

\* No command sequence (sponsor, claim, release, retry, decide, deliver) moves a
\* ticket that was delivered, resolved or rejected.
THEOREM ClosedTicketIsFinal == Spec => ClosedTicketFinal
<1>1. TypeOK /\ [Next]_vars =>
        [\A t \in TicketId :
            ticket[t].state \in {"Delivered", "Resolved", "Rejected"} =>
              ticket'[t] = ticket[t]]_vars
    BY TicketWrite DEF TicketMove
<1> QED BY <1>1, TypeCorrect, PTL DEF Spec, ClosedTicketFinal

-----------------------------------------------------------------------------
(* Optimistic concurrency                                                  *)

\* What RevisionFence says of each table.
CampaignsFenced ==
    \A c \in CampaignId : campaign'[c] # campaign[c] =>
      \/ campaign[c].state = "Absent"
      \/ campaign'[c].rev = campaign[c].rev + 1
TicketsFenced ==
    \A t \in TicketId : ticket'[t] # ticket[t] =>
      \/ ticket[t].state = "Absent"
      \/ ticket'[t].rev = ticket[t].rev + 1
AttemptsFenced ==
    \A a \in AttemptId : attempt'[a] # attempt[a] =>
      \/ attempt[a].stage = "Absent"
      \/ attempt'[a].rev = attempt[a].rev + 1
CandidatesFenced ==
    \A k \in CandidateId : candidate'[k] # candidate[k] =>
      \/ candidate[k].state = "Absent"
      \/ candidate'[k].rev = candidate[k].rev + 1

\* MoveTicket advances the revision of the ticket it writes.
LEMMA MoveTicketFenced ==
    ASSUME TypeOK, NEW t, NEW state, MoveTicket(t, state)
    PROVE  TicketsFenced
BY DEF TypeOK, TicketRow, MoveTicket, TicketsFenced

\* A table that is not written is fenced.
LEMMA UnwrittenFenced ==
    /\ UNCHANGED campaign => CampaignsFenced
    /\ UNCHANGED ticket => TicketsFenced
    /\ UNCHANGED attempt => AttemptsFenced
    /\ UNCHANGED candidate => CandidatesFenced
BY DEF CampaignsFenced, TicketsFenced, AttemptsFenced, CandidatesFenced

\* process.rs: campaign commands, assignments and sessions
LEMMA ProcessStepFenced ==
    ASSUME TypeOK, CampaignStep \/ SessionStep
    PROVE  CampaignsFenced /\ UNCHANGED <<ticket, attempt, candidate>>
<1>1. CASE CampaignStep
  <2>0. PICK c \in CampaignId :
        \/ StartCampaign(c)
        \/ DeadlineElapses(c)
        \/ CancelCampaign(c, campaign[c].rev)
        \/ FinishCampaignCancellation(c, campaign[c].rev)
        \/ FailCampaign(c, campaign[c].rev)
    BY <1>1 DEF CampaignStep
  <2>1. CASE StartCampaign(c)
    BY <2>1 DEF StartCampaign, FreshCampaign, TypeOK, CampaignsFenced
  <2>2. CASE DeadlineElapses(c)
    BY <2>2 DEF DeadlineElapses, CampaignsFenced
  <2>3. ASSUME NEW state, CloseCampaign(c, state)
        PROVE  CampaignsFenced /\ UNCHANGED <<ticket, attempt, candidate>>
    BY <2>3 DEF CloseCampaign, TypeOK, CampaignRow, CampaignsFenced
  <2> QED
    BY <2>0, <2>1, <2>2, <2>3 DEF CancelCampaign, FinishCampaignCancellation, FailCampaign
<1>2. CASE SessionStep
  <2>0. PICK s \in SessionId :
        \/ \E c \in CampaignId, office \in Office,
              a \in AttemptId \cup {0}, k \in CandidateId \cup {0} :
             CreateAssignment(s, c, campaign[c].rev, office, a, k)
        \/ StartSession(s)
        \/ \E stop \in StopReason, cost \in SessionCost : TerminalSession(s, stop, cost)
    BY <1>2 DEF SessionStep
  <2>1. ASSUME NEW c \in CampaignId, NEW office \in Office,
               NEW a \in AttemptId \cup {0}, NEW k \in CandidateId \cup {0},
               CreateAssignment(s, c, campaign[c].rev, office, a, k)
        PROVE  CampaignsFenced /\ UNCHANGED <<ticket, attempt, candidate>>
    BY <2>1 DEF CreateAssignment, TypeOK, CampaignRow, CampaignsFenced
  <2>2. CASE StartSession(s)
    BY <2>2 DEF StartSession, CampaignsFenced
  <2>3. ASSUME NEW stop \in StopReason, NEW cost \in SessionCost, TerminalSession(s, stop, cost)
        PROVE  CampaignsFenced /\ UNCHANGED <<ticket, attempt, candidate>>
    <3> DEFINE c == session[s].campaign
               settled == SettledCampaign(campaign[c], stop, cost)
    <3>1. /\ campaign' = [campaign EXCEPT ![c] = [settled EXCEPT !.rev = settled.rev + 1]]
          /\ UNCHANGED <<ticket, attempt, candidate>>
      BY <2>3, Zenon DEF TerminalSession
    <3>2. CASE c \in CampaignId
      <4>1. campaign[c] \in CampaignRow
        BY <3>2 DEF TypeOK
      <4>2. settled \in CampaignRow /\ settled.rev = campaign[c].rev
        BY <4>1 DEF SettledCampaign, CampaignRow, CampaignState, CostState
      <4> HIDE DEF c, settled
      <4> QED BY <3>1, <3>2, <4>2 DEF TypeOK, CampaignRow, CampaignsFenced
    <3>3. CASE c \notin CampaignId
      <4> HIDE DEF c, settled
      <4> QED BY <3>1, <3>3 DEF TypeOK, CampaignsFenced
    <3> QED BY <3>2, <3>3
  <2> QED BY <2>0, <2>1, <2>2, <2>3
<1> QED BY <1>1, <1>2

\* ticket_store.rs: proposals, sponsorships and claims
LEMMA TicketStepFenced ==
    ASSUME TypeOK, TicketStep
    PROVE  TicketsFenced /\ AttemptsFenced /\ UNCHANGED <<campaign, candidate>>
<1>0. PICK t \in TicketId :
      \/ SubmitTicketProposal(t)
      \/ SponsorTicket(t, ticket[t].rev)
      \/ \E a \in AttemptId, c \in CampaignId, outcome \in Requalification :
           ClaimSponsoredTicket(t, a, c, ticket[t].rev, campaign[c].rev, outcome)
    BY DEF TicketStep
<1>1. CASE SubmitTicketProposal(t)
    BY <1>1, UnwrittenFenced DEF SubmitTicketProposal, FreshTicket, TypeOK, TicketsFenced
<1>2. CASE SponsorTicket(t, ticket[t].rev)
    BY <1>2, UnwrittenFenced, MoveTicketFenced DEF SponsorTicket
<1>3. ASSUME NEW a \in AttemptId, NEW c \in CampaignId, NEW outcome \in Requalification,
             ClaimSponsoredTicket(t, a, c, ticket[t].rev, campaign[c].rev, outcome)
      PROVE  TicketsFenced /\ AttemptsFenced /\ UNCHANGED <<campaign, candidate>>
  <2>1. TicketsFenced /\ UNCHANGED <<campaign, candidate>>
    BY <1>3, MoveTicketFenced DEF ClaimSponsoredTicket
  <2>2. AttemptsFenced
    BY <1>3 DEF ClaimSponsoredTicket, FreshAttempt, TypeOK, AttemptsFenced
  <2> QED BY <2>1, <2>2
<1> QED BY <1>0, <1>1, <1>2, <1>3

\* ticket_store.rs and decision_store.rs: attempts
LEMMA AttemptStepFenced ==
    ASSUME TypeOK, AttemptStep
    PROVE  TicketsFenced /\ AttemptsFenced /\ CandidatesFenced /\ UNCHANGED campaign
<1>0. PICK a \in AttemptId :
      \/ FailTicketAttempt(a, attempt[a].rev, TicketOf(a).rev)
      \/ \E k \in CandidateId :
           RetryQualityAttempt(a, k, attempt[a].rev, TicketOf(a).rev)
      \/ RetryEngineeringAttempt(a, attempt[a].rev, TicketOf(a).rev)
      \/ \E outcome \in Requalification :
           ReleaseTicketAttempt(a, attempt[a].rev, TicketOf(a).rev, outcome)
      \/ \E k \in CandidateId, s \in SessionId :
           SubmitCandidate(k, a, s, attempt[a].rev, TicketOf(a).rev)
    BY DEF AttemptStep
<1>1. CASE FailTicketAttempt(a, attempt[a].rev, TicketOf(a).rev)
    BY <1>1, UnwrittenFenced DEF FailTicketAttempt, CanFail, TypeOK, AttemptRow, AttemptsFenced
<1>2. ASSUME NEW k \in CandidateId, RetryQualityAttempt(a, k, attempt[a].rev, TicketOf(a).rev)
      PROVE  TicketsFenced /\ AttemptsFenced /\ CandidatesFenced /\ UNCHANGED campaign
    BY <1>2, UnwrittenFenced DEF RetryQualityAttempt, TypeOK, AttemptRow, AttemptsFenced
<1>3. CASE RetryEngineeringAttempt(a, attempt[a].rev, TicketOf(a).rev)
    BY <1>3, UnwrittenFenced DEF RetryEngineeringAttempt, TypeOK, AttemptRow, AttemptsFenced
<1>4. ASSUME NEW outcome \in Requalification,
             ReleaseTicketAttempt(a, attempt[a].rev, TicketOf(a).rev, outcome)
      PROVE  TicketsFenced /\ AttemptsFenced /\ CandidatesFenced /\ UNCHANGED campaign
  <2>1. TicketsFenced /\ CandidatesFenced /\ UNCHANGED campaign
    BY <1>4, MoveTicketFenced, UnwrittenFenced DEF ReleaseTicketAttempt
  <2>2. AttemptsFenced
    BY <1>4 DEF ReleaseTicketAttempt, TypeOK, AttemptRow, AttemptsFenced
  <2> QED BY <2>1, <2>2
<1>5. ASSUME NEW k \in CandidateId, NEW s \in SessionId,
             SubmitCandidate(k, a, s, attempt[a].rev, TicketOf(a).rev)
      PROVE  TicketsFenced /\ AttemptsFenced /\ CandidatesFenced /\ UNCHANGED campaign
  <2>1. AttemptsFenced
    BY <1>5 DEF SubmitCandidate, TypeOK, AttemptRow, AttemptsFenced
  <2>2. CandidatesFenced
    BY <1>5 DEF SubmitCandidate, FreshCandidate, TypeOK, CandidatesFenced
  <2> QED BY <1>5, <2>1, <2>2, UnwrittenFenced DEF SubmitCandidate
<1> QED BY <1>0, <1>1, <1>2, <1>3, <1>4, <1>5

\* decision_store.rs: evidence, decisions and deliveries
LEMMA CandidateStepFenced ==
    ASSUME TypeOK, CandidateStep
    PROVE  CampaignsFenced /\ TicketsFenced /\ AttemptsFenced /\ CandidatesFenced
<1>0. PICK k \in CandidateId :
      LET a == candidate[k].attempt IN
      \/ AttachCandidateCommit(k, candidate[k].rev)
      \/ \E s \in SessionId, result \in {"Passed", "NotPassed"} :
           \/ RecordHardValidation(k, s, candidate[k].rev, attempt[a].rev, result)
           \/ RecordQualityValidation(k, s, candidate[k].rev, attempt[a].rev, result)
      \/ \E s \in SessionId, verdict \in {"Accept", "Reject"} :
           SubmitQualityReview(k, s, candidate[k].rev, attempt[a].rev, verdict)
      \/ \E decision \in Decision, override \in BOOLEAN :
           DecideCandidate(k, decision, override,
                           candidate[k].rev, attempt[a].rev, TicketOf(a).rev)
      \/ RecordDelivery(k, candidate[k].rev, attempt[a].rev, TicketOf(a).rev,
                        campaign[attempt[a].campaign].rev)
    BY DEF CandidateStep
<1> DEFINE a == candidate[k].attempt
           c == attempt[a].campaign
<1>1. CASE AttachCandidateCommit(k, candidate[k].rev)
    BY <1>1, UnwrittenFenced DEF AttachCandidateCommit, TypeOK, CandidateRow, CandidatesFenced
<1>2. ASSUME NEW s \in SessionId, NEW result \in {"Passed", "NotPassed"},
             RecordHardValidation(k, s, candidate[k].rev, attempt[a].rev, result)
      PROVE  CampaignsFenced /\ TicketsFenced /\ AttemptsFenced /\ CandidatesFenced
  <2>1. CandidatesFenced
    BY <1>2 DEF RecordHardValidation, TypeOK, CandidateRow, CandidatesFenced
  <2>2. AttemptsFenced
    BY <1>2 DEF RecordHardValidation, TypeOK, AttemptRow, AttemptsFenced
  <2> QED BY <1>2, <2>1, <2>2, UnwrittenFenced DEF RecordHardValidation
<1>3. ASSUME NEW s \in SessionId, NEW result \in {"Passed", "NotPassed"},
             RecordQualityValidation(k, s, candidate[k].rev, attempt[a].rev, result)
      PROVE  CampaignsFenced /\ TicketsFenced /\ AttemptsFenced /\ CandidatesFenced
  <2>1. CandidatesFenced
    BY <1>3 DEF RecordQualityValidation, TypeOK, CandidateRow, CandidatesFenced
  <2>2. AttemptsFenced
    BY <1>3 DEF RecordQualityValidation, TypeOK, AttemptRow, AttemptsFenced
  <2> QED BY <1>3, <2>1, <2>2, UnwrittenFenced DEF RecordQualityValidation
<1>4. ASSUME NEW s \in SessionId, NEW verdict \in {"Accept", "Reject"},
             SubmitQualityReview(k, s, candidate[k].rev, attempt[a].rev, verdict)
      PROVE  CampaignsFenced /\ TicketsFenced /\ AttemptsFenced /\ CandidatesFenced
  <2>1. CandidatesFenced
    BY <1>4 DEF SubmitQualityReview, TypeOK, CandidateRow, CandidatesFenced
  <2>2. AttemptsFenced
    BY <1>4 DEF SubmitQualityReview, TypeOK, AttemptRow, AttemptsFenced
  <2> QED BY <1>4, <2>1, <2>2, UnwrittenFenced DEF SubmitQualityReview
<1>5. ASSUME NEW decision \in Decision, NEW override \in BOOLEAN,
             DecideCandidate(k, decision, override,
                             candidate[k].rev, attempt[a].rev, TicketOf(a).rev)
      PROVE  CampaignsFenced /\ TicketsFenced /\ AttemptsFenced /\ CandidatesFenced
  <2>1. CandidatesFenced
    BY <1>5 DEF DecideCandidate, TypeOK, CandidateRow, CandidatesFenced
  <2>2. AttemptsFenced
    BY <1>5 DEF DecideCandidate, TypeOK, AttemptRow, AttemptsFenced
  <2>3. TicketsFenced
    BY <1>5, MoveTicketFenced, UnwrittenFenced DEF DecideCandidate
  <2> QED BY <1>5, <2>1, <2>2, <2>3, UnwrittenFenced DEF DecideCandidate
<1>6. CASE RecordDelivery(k, candidate[k].rev, attempt[a].rev, TicketOf(a).rev, campaign[c].rev)
  <2>1. /\ candidate' = [candidate EXCEPT ![k].state = "Delivered", ![k].rev = @ + 1]
        /\ attempt' = [attempt EXCEPT ![a].stage = "Delivered", ![a].rev = @ + 1]
        /\ MoveTicket(attempt[a].ticket, "Delivered")
        /\ \/ campaign' = [campaign EXCEPT ![c].state = "Completed", ![c].rev = @ + 1]
           \/ UNCHANGED campaign
    BY <1>6, Zenon DEF RecordDelivery
  <2>2. CandidatesFenced
    BY <2>1 DEF TypeOK, CandidateRow, CandidatesFenced
  <2>3. AttemptsFenced
    BY <2>1, ZenonT(60) DEF TypeOK, AttemptRow, AttemptsFenced
  <2>4. CampaignsFenced
    <3>1. CASE campaign' = [campaign EXCEPT ![c].state = "Completed", ![c].rev = @ + 1]
      BY <3>1 DEF TypeOK, CampaignRow, CampaignsFenced
    <3> QED BY <2>1, <3>1, UnwrittenFenced
  <2> QED BY <2>1, <2>2, <2>3, <2>4, MoveTicketFenced
<1> QED BY <1>0, <1>1, <1>2, <1>3, <1>4, <1>5, <1>6

\* No transaction of the three stores writes a row without advancing its
\* revision by one, so the expected revision a command carries is a sound fence.
THEOREM RevisionsFenceWrites == Spec => RevisionFence
<1> DEFINE Fenced == CampaignsFenced /\ TicketsFenced /\ AttemptsFenced /\ CandidatesFenced
<1>1. TypeOK /\ Next => Fenced
    BY ProcessStepFenced, TicketStepFenced, AttemptStepFenced, CandidateStepFenced,
       UnwrittenFenced DEF Next
<1>2. TypeOK /\ [Next]_vars => [Fenced]_vars
    BY <1>1
<1> QED
    BY <1>2, TypeCorrect, PTL
    DEF Spec, RevisionFence, CampaignsFenced, TicketsFenced, AttemptsFenced, CandidatesFenced

-----------------------------------------------------------------------------
(* Links between rows                                                      *)

\* A session belongs to a campaign that was started, and no campaign completes
\* under a running session.
SessionLinks ==
    \A s \in SessionId :
      /\ session[s].state # "Absent" =>
           /\ session[s].campaign \in CampaignId
           /\ campaign[session[s].campaign].state # "Absent"
      /\ Running(s) => campaign[session[s].campaign].state # "Completed"

\* An attempt row that does not exist names nothing; one that does names a
\* ticket and a campaign that was started.
AttemptLinks ==
    \A a \in AttemptId :
      /\ attempt[a].stage = "Absent" =>
           attempt[a].ticket = 0 /\ attempt[a].campaign = 0 /\ ~attempt[a].released
      /\ attempt[a].stage # "Absent" =>
           /\ attempt[a].ticket \in TicketId
           /\ attempt[a].campaign \in CampaignId
           /\ campaign[attempt[a].campaign].state # "Absent"

\* A candidate row names an existing attempt, and rows are filled in order.
CandidateLinks ==
    /\ \A k \in CandidateId :
         /\ candidate[k].state = "Absent" => candidate[k].attempt = 0
         /\ candidate[k].state # "Absent" =>
              /\ candidate[k].attempt \in AttemptId
              /\ attempt[candidate[k].attempt].stage # "Absent"
    /\ \A j, k \in CandidateId :
         j < k /\ candidate[k].state # "Absent" => candidate[j].state # "Absent"

RowLinks == SessionLinks /\ AttemptLinks /\ CandidateLinks

-----------------------------------------------------------------------------
(* What a transaction does to the lifecycle columns                        *)

TicketSet(t, state) ==
    /\ ticket'[t].state = state
    /\ \A u \in TicketId : u # t => ticket'[u] = ticket[u]

AttemptSet(a, stage, released) ==
    /\ attempt'[a].stage = stage
    /\ attempt'[a].released = released
    /\ attempt'[a].ticket = attempt[a].ticket
    /\ attempt'[a].campaign = attempt[a].campaign
    /\ attempt[a].qualityRetried => attempt'[a].qualityRetried
    /\ \A b \in AttemptId : b # a => attempt'[b] = attempt[b]

CandidateSet(k, state) ==
    /\ candidate'[k].state = state
    /\ candidate'[k].attempt = candidate[k].attempt
    /\ \A j \in CandidateId : j # k => candidate'[j] = candidate[j]

\* Campaign commands and settled sessions.
CampaignEvent(c) ==
    /\ \A d \in CampaignId : d # c => campaign'[d].state = campaign[d].state
    /\ \/ campaign'[c].state = campaign[c].state
       \/ /\ campaign[c].state = "Absent" /\ campaign'[c].state = "Running"
          /\ \A d \in CampaignId : campaign[d].state # "Running"
       \/ /\ campaign[c].state \notin {"Absent", "Completed"}
          /\ campaign'[c].state \in {"Failed", "Cancelled"}
    /\ UNCHANGED <<ticket, attempt, candidate>>

\* Proposals, sponsorships, and claims whose requalification closes or blocks
\* the ticket.
TicketEvent(t, state) ==
    /\ \/ ticket[t].state = "Absent" /\ state = "Proposed"
       \/ ticket[t].state \in {"Proposed", "Blocked"} /\ state = "Sponsored"
       \/ ticket[t].state = "Sponsored" /\ state \in {"Resolved", "Blocked"}
    /\ TicketSet(t, state)
    /\ UNCHANGED <<campaign, attempt, candidate>>

ClaimEvent(t, a, c) ==
    /\ ticket[t].state = "Sponsored"
    /\ campaign[c].state = "Running"
    /\ TicketsIn("InFlight") = {}
    /\ attempt[a].stage = "Absent"
    /\ \A b \in AttemptId : b < a => attempt[b].stage # "Absent"
    /\ \A b \in AttemptId : attempt[b].ticket = t => attempt[b].released
    /\ TicketSet(t, "InFlight")
    /\ attempt'[a] = [NoAttempt EXCEPT !.stage = "Engineering", !.ticket = t, !.campaign = c]
    /\ \A b \in AttemptId : b # a => attempt'[b] = attempt[b]
    /\ UNCHANGED <<campaign, candidate>>

\* The ticket of an attempt that is worked on is in flight.
Working(a) == attempt[a].stage # "Absent" /\ TicketOf(a).state = "InFlight"

\* Failures and retries of an attempt.
StageEvent(a, stage) ==
    /\ Working(a)
    /\ \/ attempt[a].stage \in OpenStage /\ stage = "Failed"
       \/ /\ attempt[a].stage \in {"Quality", "Failed"} /\ stage = "ReworkQuality"
          /\ ~attempt[a].qualityRetried /\ attempt'[a].qualityRetried
          /\ \E k \in CandidatesOf(a) : candidate[k].state = "Validated"
       \/ /\ attempt[a].stage = "Failed" /\ stage = "Engineering"
          /\ ~attempt[a].released /\ CandidatesOf(a) = {}
    /\ AttemptSet(a, stage, attempt[a].released)
    /\ UNCHANGED <<campaign, ticket, candidate>>

ReleaseEvent(a, state) ==
    /\ Working(a)
    /\ attempt[a].stage = "Failed"
    /\ ~attempt[a].released
    /\ state \in {"Sponsored", "Resolved", "Blocked"}
    /\ AttemptSet(a, "Failed", TRUE)
    /\ TicketSet(attempt[a].ticket, state)
    /\ UNCHANGED <<campaign, candidate>>

SubmitEvent(k, a) ==
    /\ Working(a)
    /\ attempt[a].stage \in EngineeringStage
    /\ FreshCandidate(k)
    /\ \E stage \in HardStage : AttemptSet(a, stage, attempt[a].released)
    /\ candidate'[k].state = "Submitted"
    /\ candidate'[k].attempt = a
    /\ \A j \in CandidateId : j # k => candidate'[j] = candidate[j]
    /\ UNCHANGED <<campaign, ticket>>

\* Commit attachment: the lifecycle columns keep their values.
AttachEvent(k) ==
    /\ candidate[k].state = "Validated"
    /\ CandidateSet(k, "Validated")
    /\ UNCHANGED <<campaign, ticket, attempt>>

\* Validations, reviews, and decisions to deliver or rework.
EvidenceMove(state, stage, newState, newStage) ==
    \/ /\ state = "Submitted" /\ stage \in HardStage
       /\ \/ newState = "Validated" /\ newStage \in QualityStage
          \/ newState = "Rejected" /\ newStage = "Failed"
    \/ /\ state = "Validated" /\ stage \in QualityStage
       /\ \/ newState = "Validated" /\ newStage = "AwaitingArchitect"
          \/ newState = "Rejected" /\ newStage = "Failed"
    \/ /\ state = "Validated" /\ stage = "AwaitingArchitect"
       /\ \/ newState \in {"Validated", "Accepted"} /\ newStage = "AwaitingArchitect"
          \/ newState = "Rejected" /\ newStage = "ReworkEngineering"

EvidenceEvent(k, state, stage) ==
    LET a == candidate[k].attempt IN
    /\ a \in AttemptId
    /\ EvidenceMove(candidate[k].state, attempt[a].stage, state, stage)
    /\ CandidateSet(k, state)
    /\ AttemptSet(a, stage, attempt[a].released)
    /\ stage = "ReworkEngineering" => attempt'[a].rework > attempt[a].rework
    /\ UNCHANGED <<campaign, ticket>>

\* A decision to reject closes the ticket as well.
RejectEvent(k) ==
    LET a == candidate[k].attempt IN
    /\ a \in AttemptId
    /\ Working(a)
    /\ candidate[k].state = "Validated" /\ attempt[a].stage = "AwaitingArchitect"
    /\ CandidateSet(k, "Rejected")
    /\ AttemptSet(a, "Failed", attempt[a].released)
    /\ TicketSet(attempt[a].ticket, "Rejected")
    /\ UNCHANGED campaign

DeliverEvent(k) ==
    LET a == candidate[k].attempt
        c == attempt[a].campaign
    IN
    /\ a \in AttemptId
    /\ Working(a)
    /\ candidate[k].state = "Accepted" /\ attempt[a].stage = "AwaitingArchitect"
    /\ campaign[c].state = "Running"
    /\ CandidateSet(k, "Delivered")
    /\ AttemptSet(a, "Delivered", attempt[a].released)
    /\ TicketSet(attempt[a].ticket, "Delivered")
    /\ \A d \in CampaignId : d # c => campaign'[d] = campaign[d]
    /\ campaign'[c].state = IF TargetReached(c) THEN "Completed" ELSE "Running"

LifecycleEvent ==
    \/ \E c \in CampaignId : CampaignEvent(c)
    \/ \E t \in TicketId, state \in TicketState : TicketEvent(t, state)
    \/ \E t \in TicketId, a \in AttemptId, c \in CampaignId : ClaimEvent(t, a, c)
    \/ \E a \in AttemptId, stage \in AttemptStage : StageEvent(a, stage)
    \/ \E a \in AttemptId, state \in TicketState : ReleaseEvent(a, state)
    \/ \E k \in CandidateId, a \in AttemptId : SubmitEvent(k, a)
    \/ \E k \in CandidateId : AttachEvent(k)
    \/ \E k \in CandidateId, state \in CandidateState, stage \in AttemptStage :
         EvidenceEvent(k, state, stage)
    \/ \E k \in CandidateId : RejectEvent(k) \/ DeliverEvent(k)

-----------------------------------------------------------------------------
(* Every transaction is a lifecycle event                                  *)

\* MoveTicket writes the state of one ticket.
LEMMA MoveTicketSets ==
    ASSUME TypeOK, NEW t \in TicketId, NEW state, MoveTicket(t, state)
    PROVE  TicketSet(t, state)
BY DEF TypeOK, TicketRow, MoveTicket, TicketSet

\* start_campaign, the deadline, cancellations and failures
LEMMA CampaignStepEvent ==
    ASSUME TypeOK, CampaignStep
    PROVE  \E c \in CampaignId : CampaignEvent(c)
<1>0. PICK c \in CampaignId :
      \/ StartCampaign(c)
      \/ DeadlineElapses(c)
      \/ CancelCampaign(c, campaign[c].rev)
      \/ FinishCampaignCancellation(c, campaign[c].rev)
      \/ FailCampaign(c, campaign[c].rev)
    BY DEF CampaignStep
<1>1. CASE StartCampaign(c)
    BY <1>1 DEF StartCampaign, FreshCampaign, NoCampaign, TypeOK, CampaignEvent
<1>2. CASE DeadlineElapses(c)
    BY <1>2 DEF DeadlineElapses, CampaignEvent
<1>3. ASSUME NEW state \in {"Failed", "Cancelled"}, campaign[c].state = "Running",
             CloseCampaign(c, state)
      PROVE  CampaignEvent(c)
    BY <1>3 DEF CloseCampaign, TypeOK, CampaignRow, CampaignEvent
<1> QED
    BY <1>0, <1>1, <1>2, <1>3 DEF CancelCampaign, FinishCampaignCancellation, FailCampaign

\* terminal_session leaves the lifecycle of a campaign alone or fails it.
LEMMA SettledCampaignState ==
    ASSUME NEW r \in CampaignRow, NEW stop, NEW cost
    PROVE  SettledCampaign(r, stop, cost).state \in {r.state, "Failed"}
BY DEF SettledCampaign, CampaignRow

\* create_assignment, start_session and terminal_session
LEMMA SessionStepEvent ==
    ASSUME TypeOK, SessionLinks, SessionStep
    PROVE  \E c \in CampaignId : CampaignEvent(c)
<1>0. PICK s \in SessionId :
      \/ \E c \in CampaignId, office \in Office,
            a \in AttemptId \cup {0}, k \in CandidateId \cup {0} :
           CreateAssignment(s, c, campaign[c].rev, office, a, k)
      \/ StartSession(s)
      \/ \E stop \in StopReason, cost \in SessionCost : TerminalSession(s, stop, cost)
    BY DEF SessionStep
<1>1. ASSUME NEW c \in CampaignId, NEW office \in Office,
             NEW a \in AttemptId \cup {0}, NEW k \in CandidateId \cup {0},
             CreateAssignment(s, c, campaign[c].rev, office, a, k)
      PROVE  CampaignEvent(c)
    BY <1>1 DEF CreateAssignment, TypeOK, CampaignRow, CampaignEvent
<1>2. ASSUME StartSession(s)
      PROVE  CampaignEvent(session[s].campaign) /\ session[s].campaign \in CampaignId
    BY <1>2 DEF StartSession, SessionLinks, CampaignEvent
<1>3. ASSUME NEW stop \in StopReason, NEW cost \in SessionCost,
             TerminalSession(s, stop, cost)
      PROVE  \E c \in CampaignId : CampaignEvent(c)
  <2> DEFINE c == session[s].campaign
             settled == SettledCampaign(campaign[c], stop, cost)
  <2>1. /\ c \in CampaignId
        /\ campaign[c].state \notin {"Absent", "Completed"}
    BY <1>3 DEF TerminalSession, SessionLinks, Running
  <2>2. /\ campaign' = [campaign EXCEPT ![c] = [settled EXCEPT !.rev = settled.rev + 1]]
        /\ UNCHANGED <<ticket, attempt, candidate>>
    BY <1>3, Zenon DEF TerminalSession
  <2>3. settled \in CampaignRow /\ settled.state \in {campaign[c].state, "Failed"}
    BY <2>1, SettledCampaignType, SettledCampaignState DEF TypeOK
  <2> HIDE DEF c, settled
  <2>4. CampaignEvent(c)
    BY <2>1, <2>2, <2>3 DEF TypeOK, CampaignRow, CampaignEvent
  <2> QED BY <2>1, <2>4
<1> QED BY <1>0, <1>1, <1>2, <1>3

\* submit_ticket_proposal, sponsor_ticket and claim_sponsored_ticket
LEMMA TicketStepEvent ==
    ASSUME TypeOK, TicketStep
    PROVE  \/ \E t \in TicketId, state \in TicketState : TicketEvent(t, state)
           \/ \E t \in TicketId, a \in AttemptId, c \in CampaignId : ClaimEvent(t, a, c)
<1>0. PICK t \in TicketId :
      \/ SubmitTicketProposal(t)
      \/ SponsorTicket(t, ticket[t].rev)
      \/ \E a \in AttemptId, c \in CampaignId, outcome \in Requalification :
           ClaimSponsoredTicket(t, a, c, ticket[t].rev, campaign[c].rev, outcome)
    BY DEF TicketStep
<1>1. CASE SubmitTicketProposal(t)
  <2>1. TicketEvent(t, "Proposed")
    BY <1>1 DEF SubmitTicketProposal, FreshTicket, NoTicket, TypeOK, TicketEvent, TicketSet
  <2> QED BY <2>1 DEF TicketState
<1>2. CASE SponsorTicket(t, ticket[t].rev)
  <2>1. TicketEvent(t, "Sponsored")
    BY <1>2, MoveTicketSets DEF SponsorTicket, Sponsorable, TicketEvent
  <2> QED BY <2>1 DEF TicketState
<1>3. ASSUME NEW a \in AttemptId, NEW c \in CampaignId, NEW outcome \in Requalification,
             ClaimSponsoredTicket(t, a, c, ticket[t].rev, campaign[c].rev, outcome)
      PROVE  \/ \E state \in {"Resolved", "Blocked"} : TicketEvent(t, state)
             \/ ClaimEvent(t, a, c)
  <2>1. CASE outcome = "Reproduced"
    <3>1. /\ ticket[t].state = "Sponsored" /\ campaign[c].state = "Running"
          /\ ClaimCapacity
          /\ attempt[a].stage = "Absent"
          /\ \A b \in AttemptId : b < a => attempt[b].stage # "Absent"
          /\ \A b \in AttemptId : attempt[b].ticket = t => attempt[b].released
          /\ attempt' = [attempt EXCEPT ![a] =
               [NoAttempt EXCEPT !.stage = "Engineering", !.ticket = t, !.campaign = c]]
          /\ MoveTicket(t, "InFlight")
          /\ UNCHANGED <<campaign, candidate>>
      BY <1>3, <2>1 DEF ClaimSponsoredTicket, FreshAttempt
    <3>2. /\ attempt'[a] = [NoAttempt EXCEPT !.stage = "Engineering", !.ticket = t, !.campaign = c]
          /\ \A b \in AttemptId : b # a => attempt'[b] = attempt[b]
      BY <3>1, Zenon DEF TypeOK
    <3> QED BY <3>1, <3>2, ClaimCapacityFree, MoveTicketSets DEF ClaimEvent
  <2>2. CASE outcome # "Reproduced"
    <3>1. PICK state \in {"Resolved", "Blocked"} : MoveTicket(t, state) /\ UNCHANGED attempt
      BY <1>3, <2>2 DEF ClaimSponsoredTicket
    <3> QED BY <1>3, <3>1, MoveTicketSets DEF ClaimSponsoredTicket, TicketEvent
  <2> QED BY <2>1, <2>2
<1> QED BY <1>0, <1>1, <1>2, <1>3 DEF TicketState

\* fail_ticket_attempt, the retries, release_ticket_attempt and submit_candidate
LEMMA AttemptStepEvent ==
    ASSUME TypeOK, RowLinks, AttemptStep
    PROVE  \/ \E a \in AttemptId, stage \in AttemptStage : StageEvent(a, stage)
           \/ \E a \in AttemptId, state \in TicketState : ReleaseEvent(a, state)
           \/ \E k \in CandidateId, a \in AttemptId : SubmitEvent(k, a)
<1>0. PICK a \in AttemptId :
      \/ FailTicketAttempt(a, attempt[a].rev, TicketOf(a).rev)
      \/ \E k \in CandidateId :
           RetryQualityAttempt(a, k, attempt[a].rev, TicketOf(a).rev)
      \/ RetryEngineeringAttempt(a, attempt[a].rev, TicketOf(a).rev)
      \/ \E outcome \in Requalification :
           ReleaseTicketAttempt(a, attempt[a].rev, TicketOf(a).rev, outcome)
      \/ \E k \in CandidateId, s \in SessionId :
           SubmitCandidate(k, a, s, attempt[a].rev, TicketOf(a).rev)
    BY DEF AttemptStep
<1>t. attempt[a].stage # "Absent" => attempt[a].ticket \in TicketId
    BY DEF RowLinks, AttemptLinks
<1>1. CASE FailTicketAttempt(a, attempt[a].rev, TicketOf(a).rev)
  <2>1. StageEvent(a, "Failed")
    BY <1>1 DEF FailTicketAttempt, CanFail, AttemptFence, Working, StageEvent, AttemptSet,
                TypeOK, AttemptRow
  <2> QED BY <2>1 DEF AttemptStage
<1>2. ASSUME NEW k \in CandidateId,
             RetryQualityAttempt(a, k, attempt[a].rev, TicketOf(a).rev)
      PROVE  StageEvent(a, "ReworkQuality")
  <2>1. AttemptSet(a, "ReworkQuality", attempt[a].released) /\ attempt'[a].qualityRetried
    BY <1>2 DEF RetryQualityAttempt, AttemptSet, TypeOK, AttemptRow
  <2> QED BY <1>2, <2>1 DEF RetryQualityAttempt, CanRetryQuality, AttemptFence, Working,
                            StageEvent, CandidatesOf
<1>3. CASE RetryEngineeringAttempt(a, attempt[a].rev, TicketOf(a).rev)
  <2>1. AttemptSet(a, "Engineering", attempt[a].released)
    BY <1>3 DEF RetryEngineeringAttempt, AttemptSet, TypeOK, AttemptRow
  <2>2. CandidatesOf(a) = {}
    BY <1>3 DEF RetryEngineeringAttempt, HasCandidate, CandidatesOf
  <2>3. StageEvent(a, "Engineering")
    BY <1>3, <2>1, <2>2 DEF RetryEngineeringAttempt, AttemptFence, Working, StageEvent
  <2> QED BY <2>3 DEF AttemptStage, OpenStage
<1>4. ASSUME NEW outcome \in Requalification,
             ReleaseTicketAttempt(a, attempt[a].rev, TicketOf(a).rev, outcome)
      PROVE  \E state \in TicketState : ReleaseEvent(a, state)
  <2>1. PICK state \in {"Sponsored", "Resolved", "Blocked"} :
          MoveTicket(attempt[a].ticket, state)
    BY <1>4 DEF ReleaseTicketAttempt
  <2>2. TicketSet(attempt[a].ticket, state)
    BY <1>4, <1>t, <2>1, MoveTicketSets DEF ReleaseTicketAttempt, AttemptFence
  <2>3. AttemptSet(a, "Failed", TRUE)
    BY <1>4 DEF ReleaseTicketAttempt, AttemptSet, TypeOK, AttemptRow
  <2>4. ReleaseEvent(a, state)
    BY <1>4, <2>2, <2>3 DEF ReleaseTicketAttempt, AttemptFence, Working, ReleaseEvent
  <2> QED BY <2>4 DEF TicketState
<1>5. ASSUME NEW k \in CandidateId, NEW s \in SessionId,
             SubmitCandidate(k, a, s, attempt[a].rev, TicketOf(a).rev)
      PROVE  SubmitEvent(k, a)
  <2>1. \E stage \in HardStage : AttemptSet(a, stage, attempt[a].released)
    BY <1>5 DEF SubmitCandidate, AttemptSet, TypeOK, AttemptRow, HardStage
  <2>2. /\ candidate'[k].state = "Submitted"
        /\ candidate'[k].attempt = a
        /\ \A j \in CandidateId : j # k => candidate'[j] = candidate[j]
    BY <1>5 DEF SubmitCandidate, TypeOK, NoCandidate
  <2> QED BY <1>5, <2>1, <2>2 DEF SubmitCandidate, AttemptFence, Working, SubmitEvent
<1> QED BY <1>0, <1>1, <1>2, <1>3, <1>4, <1>5
        DEF AttemptStage, OpenStage, DownstreamStage, QualityStage

\* attach_candidate_commit, record_validation, submit_quality_review,
\* decide_candidate and record_delivery
LEMMA CandidateStepEvent ==
    ASSUME TypeOK, RowLinks, CandidateStep
    PROVE  \/ \E k \in CandidateId : AttachEvent(k)
           \/ \E k \in CandidateId, state \in CandidateState, stage \in AttemptStage :
                EvidenceEvent(k, state, stage)
           \/ \E k \in CandidateId : RejectEvent(k) \/ DeliverEvent(k)
<1>0. PICK k \in CandidateId :
      LET a == candidate[k].attempt IN
      \/ AttachCandidateCommit(k, candidate[k].rev)
      \/ \E s \in SessionId, result \in {"Passed", "NotPassed"} :
           \/ RecordHardValidation(k, s, candidate[k].rev, attempt[a].rev, result)
           \/ RecordQualityValidation(k, s, candidate[k].rev, attempt[a].rev, result)
      \/ \E s \in SessionId, verdict \in {"Accept", "Reject"} :
           SubmitQualityReview(k, s, candidate[k].rev, attempt[a].rev, verdict)
      \/ \E decision \in Decision, override \in BOOLEAN :
           DecideCandidate(k, decision, override,
                           candidate[k].rev, attempt[a].rev, TicketOf(a).rev)
      \/ RecordDelivery(k, candidate[k].rev, attempt[a].rev, TicketOf(a).rev,
                        campaign[attempt[a].campaign].rev)
    BY DEF CandidateStep
<1> DEFINE a == candidate[k].attempt
<1>a. candidate[k].state # "Absent" =>
        /\ a \in AttemptId
        /\ attempt[a].stage # "Absent" => attempt[a].ticket \in TicketId /\ attempt[a].campaign \in CampaignId
    BY DEF RowLinks, CandidateLinks, AttemptLinks
<1>w. /\ candidate[k] \in CandidateRow
      /\ \A b \in AttemptId : attempt[b] \in AttemptRow
    BY DEF TypeOK
<1>1. CASE AttachCandidateCommit(k, candidate[k].rev)
  <2>1. AttachEvent(k)
    BY <1>1, <1>w DEF AttachCandidateCommit, TypeOK, CandidateRow, CandidateSet, AttachEvent
  <2> QED BY <2>1
<1>2. ASSUME NEW s \in SessionId, NEW result \in {"Passed", "NotPassed"},
             RecordHardValidation(k, s, candidate[k].rev, attempt[a].rev, result)
      PROVE  \E state \in CandidateState, stage \in AttemptStage : EvidenceEvent(k, state, stage)
  <2> DEFINE state == IF result = "Passed" THEN "Validated" ELSE "Rejected"
             stage == IF result # "Passed" THEN "Failed"
                      ELSE IF attempt[a].stage = "HardValidation" THEN "Quality"
                                                                   ELSE "ReworkQuality"
  <2>1. /\ a \in AttemptId
        /\ candidate[k].state = "Submitted" /\ attempt[a].stage \in HardStage
        /\ UNCHANGED <<campaign, ticket>>
    BY <1>2, <1>a DEF RecordHardValidation
  <2>2. CandidateSet(k, state)
    BY <1>2, <1>w DEF RecordHardValidation, TypeOK, CandidateRow, CandidateSet
  <2>3. AttemptSet(a, stage, attempt[a].released)
    <3>1. attempt' = [attempt EXCEPT ![a].stage = stage, ![a].rev = @ + 1]
      BY <1>2 DEF RecordHardValidation
    <3> HIDE DEF stage, a
    <3> QED BY <2>1, <3>1, <1>w DEF TypeOK, AttemptRow, AttemptSet
  <2>4. EvidenceMove(candidate[k].state, attempt[a].stage, state, stage)
    BY <2>1 DEF EvidenceMove, QualityStage
  <2>5. state \in CandidateState /\ stage \in AttemptStage \ {"ReworkEngineering"}
    BY DEF CandidateState, AttemptStage, OpenStage, DownstreamStage, QualityStage
  <2> HIDE DEF state, stage
  <2>6. EvidenceEvent(k, state, stage)
    BY <2>1, <2>2, <2>3, <2>4, <2>5 DEF EvidenceEvent
  <2> QED BY <2>5, <2>6
<1>3. ASSUME NEW s \in SessionId, NEW result \in {"Passed", "NotPassed"},
             RecordQualityValidation(k, s, candidate[k].rev, attempt[a].rev, result)
      PROVE  \E state \in CandidateState, stage \in AttemptStage : EvidenceEvent(k, state, stage)
  <2> DEFINE state == IF result = "Passed" THEN "Validated" ELSE "Rejected"
             stage == IF result = "Passed" THEN "AwaitingArchitect" ELSE "Failed"
  <2>1. /\ a \in AttemptId
        /\ candidate[k].state = "Validated" /\ attempt[a].stage \in QualityStage
        /\ UNCHANGED <<campaign, ticket>>
    BY <1>3, <1>a DEF RecordQualityValidation
  <2>2. CandidateSet(k, state)
    BY <1>3, <1>w DEF RecordQualityValidation, TypeOK, CandidateRow, CandidateSet
  <2>3. AttemptSet(a, stage, attempt[a].released)
    <3>1. attempt' = [attempt EXCEPT ![a].stage = stage, ![a].rev = @ + 1]
      BY <1>3 DEF RecordQualityValidation
    <3> HIDE DEF stage, a
    <3> QED BY <2>1, <3>1, <1>w DEF TypeOK, AttemptRow, AttemptSet
  <2>4. EvidenceMove(candidate[k].state, attempt[a].stage, state, stage)
    BY <2>1 DEF EvidenceMove
  <2>5. state \in CandidateState /\ stage \in AttemptStage \ {"ReworkEngineering"}
    BY DEF CandidateState, AttemptStage, OpenStage, DownstreamStage
  <2> HIDE DEF state, stage
  <2>6. EvidenceEvent(k, state, stage)
    BY <2>1, <2>2, <2>3, <2>4, <2>5 DEF EvidenceEvent
  <2> QED BY <2>5, <2>6
<1>4. ASSUME NEW s \in SessionId, NEW verdict \in {"Accept", "Reject"},
             SubmitQualityReview(k, s, candidate[k].rev, attempt[a].rev, verdict)
      PROVE  EvidenceEvent(k, "Validated", "AwaitingArchitect")
  <2>1. /\ a \in AttemptId
        /\ candidate[k].state = "Validated" /\ attempt[a].stage = "AwaitingArchitect"
        /\ UNCHANGED <<campaign, ticket>>
    BY <1>4, <1>a DEF SubmitQualityReview
  <2>2. CandidateSet(k, "Validated")
    BY <1>4, <1>w DEF SubmitQualityReview, TypeOK, CandidateRow, CandidateSet
  <2>3. AttemptSet(a, "AwaitingArchitect", attempt[a].released)
    <3>1. attempt' = [attempt EXCEPT ![a].rev = @ + 1]
      BY <1>4 DEF SubmitQualityReview
    <3> HIDE DEF a
    <3> QED BY <2>1, <3>1, <1>w DEF TypeOK, AttemptRow, AttemptSet
  <2>4. EvidenceMove("Validated", "AwaitingArchitect", "Validated", "AwaitingArchitect")
    BY DEF EvidenceMove
  <2> QED BY <2>1, <2>2, <2>3, <2>4 DEF EvidenceEvent
<1>5. ASSUME NEW decision \in Decision, NEW override \in BOOLEAN,
             DecideCandidate(k, decision, override,
                             candidate[k].rev, attempt[a].rev, TicketOf(a).rev)
      PROVE  \/ RejectEvent(k)
             \/ \E state \in CandidateState, stage \in AttemptStage :
                  EvidenceEvent(k, state, stage)
  <2>1. /\ a \in AttemptId
        /\ Working(a)
        /\ candidate[k].state = "Validated" /\ attempt[a].stage = "AwaitingArchitect"
        /\ attempt[a].ticket \in TicketId
        /\ UNCHANGED campaign
    BY <1>5, <1>a DEF DecideCandidate, AttemptFence, Working
  <2>2. CandidateSet(k, IF decision = "Deliver" THEN "Accepted" ELSE "Rejected")
    BY <1>5, <1>w DEF DecideCandidate, TypeOK, CandidateRow, CandidateSet
  <2>3. CASE decision = "Deliver"
    <3>1. attempt' = [attempt EXCEPT ![a].rev = @ + 1] /\ UNCHANGED ticket
      BY <1>5, <2>3 DEF DecideCandidate
    <3>2. AttemptSet(a, "AwaitingArchitect", attempt[a].released)
      <4> HIDE DEF a
      <4> QED BY <2>1, <3>1, <1>w DEF TypeOK, AttemptRow, AttemptSet
    <3>3. EvidenceMove("Validated", "AwaitingArchitect", "Accepted", "AwaitingArchitect")
      BY DEF EvidenceMove
    <3>4. EvidenceEvent(k, "Accepted", "AwaitingArchitect")
      BY <2>1, <2>2, <2>3, <3>1, <3>2, <3>3 DEF EvidenceEvent
    <3> QED BY <3>4 DEF CandidateState, AttemptStage, OpenStage, DownstreamStage
  <2>4. CASE decision = "Rework"
    <3>1. /\ attempt' = [attempt EXCEPT ![a].stage = "ReworkEngineering",
                                        ![a].rework = @ + 1, ![a].rev = @ + 1]
          /\ UNCHANGED ticket
      BY <1>5, <2>4 DEF DecideCandidate
    <3>2. /\ AttemptSet(a, "ReworkEngineering", attempt[a].released)
          /\ attempt'[a].rework > attempt[a].rework
      <4> HIDE DEF a
      <4> QED BY <2>1, <3>1, <1>w DEF TypeOK, AttemptRow, AttemptSet
    <3>3. EvidenceMove("Validated", "AwaitingArchitect", "Rejected", "ReworkEngineering")
      BY DEF EvidenceMove
    <3>4. EvidenceEvent(k, "Rejected", "ReworkEngineering")
      BY <2>1, <2>2, <2>4, <3>1, <3>2, <3>3 DEF EvidenceEvent
    <3> QED BY <3>4 DEF CandidateState, AttemptStage, OpenStage, DownstreamStage
  <2>5. CASE decision = "Reject"
    <3>1. /\ attempt' = [attempt EXCEPT ![a].stage = "Failed", ![a].rev = @ + 1]
          /\ MoveTicket(attempt[a].ticket, "Rejected")
      BY <1>5, <2>5 DEF DecideCandidate
    <3>2. AttemptSet(a, "Failed", attempt[a].released)
      <4> HIDE DEF a
      <4> QED BY <2>1, <3>1, <1>w DEF TypeOK, AttemptRow, AttemptSet
    <3>3. TicketSet(attempt[a].ticket, "Rejected")
      BY <2>1, <3>1, MoveTicketSets
    <3> QED BY <2>1, <2>2, <2>5, <3>2, <3>3 DEF RejectEvent
  <2> QED BY <2>3, <2>4, <2>5 DEF Decision
<1>6. ASSUME RecordDelivery(k, candidate[k].rev, attempt[a].rev, TicketOf(a).rev,
                            campaign[attempt[a].campaign].rev)
      PROVE  DeliverEvent(k)
  <2> DEFINE c == attempt[a].campaign
  <2>1. /\ candidate[k].state = "Accepted" /\ attempt[a].stage = "AwaitingArchitect"
        /\ Working(a)
        /\ campaign[c].state = "Running"
    BY <1>6, Zenon DEF RecordDelivery, AttemptFence, Working
  <2>2. a \in AttemptId /\ attempt[a].ticket \in TicketId /\ c \in CampaignId
    BY <1>a, <2>1
  <2>3. CandidateSet(k, "Delivered")
    <3>1. candidate' = [candidate EXCEPT ![k].state = "Delivered", ![k].rev = @ + 1]
      BY <1>6, ZenonT(60) DEF RecordDelivery
    <3> QED BY <3>1, <1>w DEF TypeOK, CandidateRow, CandidateSet
  <2>4. AttemptSet(a, "Delivered", attempt[a].released)
    <3>1. attempt' = [attempt EXCEPT ![a].stage = "Delivered", ![a].rev = @ + 1]
      BY <1>6, Zenon DEF RecordDelivery
    <3> HIDE DEF a
    <3> QED BY <2>2, <3>1, <1>w DEF TypeOK, AttemptRow, AttemptSet
  <2>5. TicketSet(attempt[a].ticket, "Delivered")
    <3>1. MoveTicket(attempt[a].ticket, "Delivered")
      BY <1>6, Zenon DEF RecordDelivery
    <3> QED BY <2>2, <3>1, MoveTicketSets
  <2>6. /\ \A d \in CampaignId : d # c => campaign'[d] = campaign[d]
        /\ campaign'[c].state = IF TargetReached(c) THEN "Completed" ELSE "Running"
    <3>1. campaign' = IF TargetReached(c)
                      THEN [campaign EXCEPT ![c].state = "Completed", ![c].rev = @ + 1]
                      ELSE campaign
      BY <1>6, Zenon DEF RecordDelivery
    <3> HIDE DEF c
    <3> QED BY <2>1, <2>2, <3>1 DEF TypeOK, CampaignRow
  <2> QED BY <2>1, <2>2, <2>3, <2>4, <2>5, <2>6 DEF DeliverEvent
<1> QED
  <2>1. "Validated" \in CandidateState /\ "AwaitingArchitect" \in AttemptStage
    BY DEF CandidateState, AttemptStage, OpenStage, DownstreamStage
  <2> QED BY <1>0, <1>1, <1>2, <1>3, <1>4, <1>5, <1>6, <2>1, ZenonT(30)

\* Every store transaction is a lifecycle event.
LEMMA StepIsEvent ==
    ASSUME TypeOK, RowLinks, Next
    PROVE  LifecycleEvent
<1>1. CASE CampaignStep
    BY <1>1, CampaignStepEvent DEF LifecycleEvent
<1>2. CASE SessionStep
    BY <1>2, SessionStepEvent DEF LifecycleEvent, RowLinks
<1>3. CASE TicketStep
    BY <1>3, TicketStepEvent DEF LifecycleEvent
<1>4. CASE AttemptStep
    BY <1>4, AttemptStepEvent DEF LifecycleEvent
<1>5. CASE CandidateStep
    BY <1>5, CandidateStepEvent DEF LifecycleEvent
<1> QED BY <1>1, <1>2, <1>3, <1>4, <1>5 DEF Next

-----------------------------------------------------------------------------
(* The links hold                                                          *)

\* No event removes a campaign row, and only a delivery completes one.
LEMMA CampaignsStay ==
    ASSUME LifecycleEvent, AttemptLinks, NEW c \in CampaignId
    PROVE  /\ campaign[c].state # "Absent" => campaign'[c].state # "Absent"
           /\ campaign[c].state # "Completed" /\ campaign'[c].state = "Completed" =>
                \E k \in CandidateId : DeliverEvent(k)
<1>1. ASSUME NEW d \in CampaignId, CampaignEvent(d)
      PROVE  /\ campaign[c].state # "Absent" => campaign'[c].state # "Absent"
             /\ campaign'[c].state = "Completed" => campaign[c].state = "Completed"
    BY <1>1 DEF CampaignEvent
<1>2. ASSUME NEW k \in CandidateId, DeliverEvent(k)
      PROVE  campaign[c].state # "Absent" => campaign'[c].state # "Absent"
    BY <1>2 DEF DeliverEvent
<1>3. CASE UNCHANGED campaign
    BY <1>3
<1> QED
    BY <1>1, <1>2, <1>3 DEF LifecycleEvent, TicketEvent, ClaimEvent, StageEvent, ReleaseEvent,
                            SubmitEvent, AttachEvent, EvidenceEvent, RejectEvent

\* Attempts and their links survive every event.
LEMMA AttemptLinksKept ==
    ASSUME AttemptLinks, CandidateLinks, LifecycleEvent
    PROVE  AttemptLinks'
<1>0. \A c \in CampaignId : campaign[c].state # "Absent" => campaign'[c].state # "Absent"
    BY CampaignsStay
<1>1. ASSUME NEW a \in AttemptId, NEW stage \in AttemptStage \ {"Absent"}, NEW released,
             attempt[a].stage # "Absent", AttemptSet(a, stage, released)
      PROVE  AttemptLinks'
    BY <1>0, <1>1 DEF AttemptLinks, AttemptSet
<1>2. ASSUME NEW t \in TicketId, NEW a \in AttemptId, NEW c \in CampaignId, ClaimEvent(t, a, c)
      PROVE  AttemptLinks'
  <2>1. /\ attempt'[a].stage = "Engineering" /\ attempt'[a].ticket = t
        /\ attempt'[a].campaign = c /\ campaign'[c].state # "Absent"
    BY <1>2 DEF ClaimEvent, NoAttempt
  <2>2. \A b \in AttemptId : b # a => attempt'[b] = attempt[b]
    BY <1>2 DEF ClaimEvent
  <2> QED BY <1>0, <2>1, <2>2 DEF AttemptLinks
<1>3. CASE UNCHANGED attempt
    BY <1>0, <1>3 DEF AttemptLinks
<1>4. ASSUME NEW a \in AttemptId, NEW stage \in AttemptStage, StageEvent(a, stage)
      PROVE  AttemptLinks'
    BY <1>1, <1>4 DEF StageEvent, Working
<1>5. ASSUME NEW a \in AttemptId, NEW state, ReleaseEvent(a, state)
      PROVE  AttemptLinks'
    BY <1>1, <1>5 DEF ReleaseEvent, Working, AttemptStage
<1>6. ASSUME NEW k \in CandidateId, NEW a \in AttemptId, SubmitEvent(k, a)
      PROVE  AttemptLinks'
    BY <1>1, <1>6 DEF SubmitEvent, Working, AttemptStage, OpenStage, DownstreamStage, HardStage
<1>7. ASSUME NEW k \in CandidateId, NEW state, NEW stage \in AttemptStage,
             EvidenceEvent(k, state, stage)
      PROVE  AttemptLinks'
    BY <1>1, <1>7 DEF EvidenceEvent, EvidenceMove, HardStage, QualityStage
<1>8. ASSUME NEW k \in CandidateId, RejectEvent(k)
      PROVE  AttemptLinks'
    BY <1>1, <1>8 DEF RejectEvent, AttemptStage
<1>9. ASSUME NEW k \in CandidateId, DeliverEvent(k)
      PROVE  AttemptLinks'
    BY <1>1, <1>9 DEF DeliverEvent, AttemptStage
<1> QED
    BY <1>2, <1>3, <1>4, <1>5, <1>6, <1>7, <1>8, <1>9
    DEF LifecycleEvent, CampaignEvent, TicketEvent, AttachEvent

\* An attempt row, once written, stays written.
LEMMA AttemptsStay ==
    ASSUME LifecycleEvent, CandidateLinks, NEW a \in AttemptId, attempt[a].stage # "Absent"
    PROVE  attempt'[a].stage # "Absent"
<1>1. ASSUME NEW b \in AttemptId, NEW stage, stage # "Absent", NEW released,
             AttemptSet(b, stage, released)
      PROVE  attempt'[a].stage # "Absent"
    BY <1>1 DEF AttemptSet
<1>2. ASSUME NEW t \in TicketId, NEW b \in AttemptId, NEW c \in CampaignId, ClaimEvent(t, b, c)
      PROVE  attempt'[a].stage # "Absent"
    BY <1>2 DEF ClaimEvent
<1>3. CASE UNCHANGED attempt
    BY <1>3
<1>4. ASSUME NEW b \in AttemptId, NEW stage, StageEvent(b, stage)
      PROVE  attempt'[a].stage # "Absent"
    BY <1>1, <1>4 DEF StageEvent
<1>5. ASSUME NEW k \in CandidateId, NEW state, NEW stage, EvidenceEvent(k, state, stage)
      PROVE  attempt'[a].stage # "Absent"
    BY <1>1, <1>5 DEF EvidenceEvent, EvidenceMove, QualityStage
<1>6. ASSUME NEW k \in CandidateId, RejectEvent(k) \/ DeliverEvent(k)
      PROVE  attempt'[a].stage # "Absent"
    BY <1>1, <1>6 DEF RejectEvent, DeliverEvent
<1>7. ASSUME NEW k \in CandidateId, NEW b \in AttemptId, SubmitEvent(k, b)
      PROVE  attempt'[a].stage # "Absent"
    BY <1>1, <1>7 DEF SubmitEvent, HardStage
<1>8. ASSUME NEW b \in AttemptId, NEW state, ReleaseEvent(b, state)
      PROVE  attempt'[a].stage # "Absent"
    BY <1>1, <1>8 DEF ReleaseEvent
<1> QED
    BY <1>2, <1>3, <1>4, <1>5, <1>6, <1>7, <1>8
    DEF LifecycleEvent, CampaignEvent, TicketEvent, AttachEvent

\* Candidates and their links survive every event.
LEMMA CandidateLinksKept ==
    ASSUME CandidateLinks, LifecycleEvent
    PROVE  CandidateLinks'
<1>0. \A a \in AttemptId : attempt[a].stage # "Absent" => attempt'[a].stage # "Absent"
    BY AttemptsStay
<1>1. ASSUME NEW k \in CandidateId, NEW state, state # "Absent", candidate[k].state # "Absent",
             CandidateSet(k, state)
      PROVE  CandidateLinks'
    BY <1>0, <1>1 DEF CandidateLinks, CandidateSet
<1>2. ASSUME NEW k \in CandidateId, NEW a \in AttemptId, SubmitEvent(k, a)
      PROVE  CandidateLinks'
    BY <1>0, <1>2 DEF CandidateLinks, SubmitEvent, FreshCandidate, Working, CandidateId
<1>3. CASE UNCHANGED candidate
    BY <1>0, <1>3 DEF CandidateLinks
<1>4. ASSUME NEW k \in CandidateId, NEW state, NEW stage, EvidenceEvent(k, state, stage)
      PROVE  CandidateLinks'
    BY <1>1, <1>4 DEF EvidenceEvent, EvidenceMove
<1>5. ASSUME NEW k \in CandidateId, AttachEvent(k) \/ RejectEvent(k) \/ DeliverEvent(k)
      PROVE  CandidateLinks'
    BY <1>1, <1>5 DEF AttachEvent, RejectEvent, DeliverEvent
<1> QED
    BY <1>2, <1>3, <1>4, <1>5
    DEF LifecycleEvent, CampaignEvent, TicketEvent, ClaimEvent, StageEvent, ReleaseEvent

\* Sessions start in a running campaign, and record_delivery, which alone
\* completes a campaign, refuses while one runs.
LEMMA SessionLinksKept ==
    ASSUME TypeOK, RowLinks, Next
    PROVE  SessionLinks'
<1> USE DEF RowLinks
<1>0. LifecycleEvent
    BY StepIsEvent
<1>1. \A c \in CampaignId : campaign[c].state # "Absent" => campaign'[c].state # "Absent"
    BY <1>0, CampaignsStay
<1>2. CASE SessionStep
  <2>0. PICK s \in SessionId :
        \/ \E c \in CampaignId, office \in Office,
              a \in AttemptId \cup {0}, k \in CandidateId \cup {0} :
             CreateAssignment(s, c, campaign[c].rev, office, a, k)
        \/ StartSession(s)
        \/ \E stop \in StopReason, cost \in SessionCost : TerminalSession(s, stop, cost)
      BY <1>2 DEF SessionStep
  <2>1. PICK d \in CampaignId : CampaignEvent(d)
    BY <1>2, SessionStepEvent
  <2>2. \A c \in CampaignId : campaign'[c].state = "Completed" => campaign[c].state = "Completed"
    BY <2>1 DEF CampaignEvent
  <2>3. ASSUME NEW c \in CampaignId, NEW office \in Office,
               NEW a \in AttemptId \cup {0}, NEW k \in CandidateId \cup {0},
               CreateAssignment(s, c, campaign[c].rev, office, a, k)
        PROVE  SessionLinks'
    BY <1>1, <2>2, <2>3 DEF CreateAssignment, SessionLinks, TypeOK, Running
  <2>4. CASE StartSession(s)
    BY <1>1, <2>2, <2>4 DEF StartSession, SessionLinks, TypeOK, SessionRow, Running
  <2>5. ASSUME NEW stop \in StopReason, NEW cost \in SessionCost, TerminalSession(s, stop, cost)
        PROVE  SessionLinks'
    <3>1. /\ session' = [session EXCEPT ![s].state = SessionStateOf(stop)]
          /\ session[s].state = "Running"
      BY <2>5, Zenon DEF TerminalSession, Running
    <3>2. SessionStateOf(stop) # "Running"
      BY <2>5, SessionStateOfType DEF SessionTerminal
    <3> QED BY <1>1, <2>2, <3>1, <3>2 DEF SessionLinks, TypeOK, SessionRow, Running
  <2> QED BY <2>0, <2>3, <2>4, <2>5
<1>3. CASE CampaignStep
  <2>1. PICK d \in CampaignId : CampaignEvent(d)
    BY <1>3, CampaignStepEvent
  <2>2. UNCHANGED session
    BY <1>3 DEF CampaignStep, StartCampaign, DeadlineElapses, CancelCampaign,
                FinishCampaignCancellation, FailCampaign, CloseCampaign
  <2> QED BY <1>1, <2>1, <2>2 DEF SessionLinks, CampaignEvent, Running
<1>4. ASSUME UNCHANGED <<campaign, session>>
      PROVE  SessionLinks'
    BY <1>4 DEF SessionLinks, Running
<1>5. CASE TicketStep
    BY <1>4, <1>5, ZenonT(60) DEF TicketStep, SubmitTicketProposal, SponsorTicket,
                                  ClaimSponsoredTicket
<1>6. CASE AttemptStep
    BY <1>4, <1>6, ZenonT(60) DEF AttemptStep, FailTicketAttempt, CanFail, RetryQualityAttempt,
       RetryEngineeringAttempt, ReleaseTicketAttempt, SubmitCandidate
<1>7. CASE CandidateStep
  <2>0. PICK k \in CandidateId :
        LET a == candidate[k].attempt IN
        \/ AttachCandidateCommit(k, candidate[k].rev)
        \/ \E s \in SessionId, result \in {"Passed", "NotPassed"} :
             \/ RecordHardValidation(k, s, candidate[k].rev, attempt[a].rev, result)
             \/ RecordQualityValidation(k, s, candidate[k].rev, attempt[a].rev, result)
        \/ \E s \in SessionId, verdict \in {"Accept", "Reject"} :
             SubmitQualityReview(k, s, candidate[k].rev, attempt[a].rev, verdict)
        \/ \E decision \in Decision, override \in BOOLEAN :
             DecideCandidate(k, decision, override,
                             candidate[k].rev, attempt[a].rev, TicketOf(a).rev)
        \/ RecordDelivery(k, candidate[k].rev, attempt[a].rev, TicketOf(a).rev,
                          campaign[attempt[a].campaign].rev)
      BY <1>7 DEF CandidateStep
  <2> DEFINE a == candidate[k].attempt
  <2>1. ASSUME RecordDelivery(k, candidate[k].rev, attempt[a].rev, TicketOf(a).rev,
                              campaign[attempt[a].campaign].rev)
        PROVE  SessionLinks'
    <3>1. UNCHANGED session /\ ~PaidSessionActive
      BY <2>1, Zenon DEF RecordDelivery
    <3> QED BY <1>1, <3>1 DEF SessionLinks, PaidSessionActive, Running
  <2> QED
    BY <1>4, <2>0, <2>1, ZenonT(60) DEF AttachCandidateCommit, RecordHardValidation,
       RecordQualityValidation, SubmitQualityReview, DecideCandidate
<1> QED BY <1>2, <1>3, <1>5, <1>6, <1>7 DEF Next

\* Every step keeps the links between rows.
LEMMA NextRowLinks == TypeOK /\ RowLinks /\ [Next]_vars => RowLinks'
<1> SUFFICES ASSUME TypeOK, RowLinks, [Next]_vars PROVE RowLinks'
    OBVIOUS
<1>1. CASE Next
    BY <1>1, StepIsEvent, SessionLinksKept, AttemptLinksKept, CandidateLinksKept DEF RowLinks
<1>2. CASE UNCHANGED vars
    BY <1>2 DEF vars, RowLinks, SessionLinks, AttemptLinks, CandidateLinks, Running
<1> QED BY <1>1, <1>2

\* Rows always refer to rows that exist.
LEMMA RowLinksInvariant == Spec => []RowLinks
<1>1. Init => RowLinks
    BY DEF Init, RowLinks, SessionLinks, AttemptLinks, CandidateLinks, Running,
           NoSession, NoAttempt, NoCandidate
<1> QED BY <1>1, NextRowLinks, TypeCorrect, PTL DEF Spec

-----------------------------------------------------------------------------
(* What no later step takes back                                           *)

\* Every step keeps the shape of the rows.
LEMMA NextTypeOK == TypeOK /\ [Next]_vars => TypeOK'
<1>1. TypeOK /\ Next => TypeOK'
    BY CampaignStepTypeOK, SessionStepTypeOK, TicketStepTypeOK, AttemptStepTypeOK,
       CandidateStepTypeOK DEF Next
<1>2. TypeOK /\ UNCHANGED vars => TypeOK'
    BY DEF TypeOK, vars
<1> QED BY <1>1, <1>2

\* A candidate row that exists keeps its attempt and the session that submitted
\* it, and a reviewed one the session that reviewed it.
KeepsAuthors(r, q) ==
    /\ q.state # "Absent"
    /\ q.attempt = r.attempt
    /\ q.engineeringSession = r.engineeringSession
    /\ r.review # "None" => q.qualitySession = r.qualitySession

\* A submitted candidate names the session that submitted it.
SubmitterLinks ==
    \A k \in CandidateId :
      candidate[k].state # "Absent" => candidate[k].engineeringSession \in SessionId

\* Session s has worked for an office, or works for it.
Performs(s, office) ==
    /\ s \in SessionId
    /\ session[s].office = office /\ session[s].state \in {"Running", "Succeeded"}

\* Only submit_candidate writes engineering_session_id, with the session that
\* submits, and only submit_quality_review the session of the review.
LEMMA AuthorsKept ==
    ASSUME TypeOK, [Next]_vars, NEW j \in CandidateId
    PROVE  \/ candidate'[j] = candidate[j]
           \/ /\ candidate[j].state = "Absent" /\ candidate'[j].review = "None"
              /\ Performs(candidate'[j].engineeringSession, "Engineering")
           \/ /\ candidate[j].state # "Absent" /\ KeepsAuthors(candidate[j], candidate'[j])
              /\ \/ candidate'[j].review = candidate[j].review
                 \/ Performs(candidate'[j].qualitySession, "Quality")
<1> DEFINE Goal == \/ candidate'[j] = candidate[j]
                   \/ /\ candidate[j].state = "Absent" /\ candidate'[j].review = "None"
                      /\ Performs(candidate'[j].engineeringSession, "Engineering")
                   \/ /\ candidate[j].state # "Absent"
                      /\ KeepsAuthors(candidate[j], candidate'[j])
                      /\ \/ candidate'[j].review = candidate[j].review
                         \/ Performs(candidate'[j].qualitySession, "Quality")
<1>1. CASE UNCHANGED candidate
    BY <1>1
<1>2. ASSUME NEW a \in AttemptId, NEW k \in CandidateId, NEW s \in SessionId,
             SubmitCandidate(k, a, s, attempt[a].rev, TicketOf(a).rev)
      PROVE  Goal
    BY <1>2 DEF SubmitCandidate, FreshCandidate, NoCandidate, TypeOK, RequireSession, Performs
<1>3. CASE CandidateStep
  <2>1. PICK k \in CandidateId :
        LET a == candidate[k].attempt IN
        \/ AttachCandidateCommit(k, candidate[k].rev)
        \/ \E s \in SessionId, result \in {"Passed", "NotPassed"} :
             \/ RecordHardValidation(k, s, candidate[k].rev, attempt[a].rev, result)
             \/ RecordQualityValidation(k, s, candidate[k].rev, attempt[a].rev, result)
        \/ \E s \in SessionId, verdict \in {"Accept", "Reject"} :
             SubmitQualityReview(k, s, candidate[k].rev, attempt[a].rev, verdict)
        \/ \E decision \in Decision, override \in BOOLEAN :
             DecideCandidate(k, decision, override,
                             candidate[k].rev, attempt[a].rev, TicketOf(a).rev)
        \/ RecordDelivery(k, candidate[k].rev, attempt[a].rev, TicketOf(a).rev,
                          campaign[attempt[a].campaign].rev)
    BY <1>3 DEF CandidateStep
  <2> DEFINE a == candidate[k].attempt
  <2>2. CASE k # j
    BY <2>1, <2>2, ZenonT(60) DEF TypeOK, AttachCandidateCommit, RecordHardValidation,
       RecordQualityValidation, SubmitQualityReview, DecideCandidate, RecordDelivery
  <2>3. CASE k = j
    <3> candidate[j] \in CandidateRow
      BY DEF TypeOK
    <3>1. CASE AttachCandidateCommit(j, candidate[j].rev)
      BY <3>1 DEF AttachCandidateCommit, TypeOK, CandidateRow, KeepsAuthors
    <3>2. ASSUME NEW s \in SessionId, NEW result \in {"Passed", "NotPassed"},
                 \/ RecordHardValidation(j, s, candidate[j].rev, attempt[a].rev, result)
                 \/ RecordQualityValidation(j, s, candidate[j].rev, attempt[a].rev, result)
          PROVE  Goal
      BY <3>2 DEF RecordHardValidation, RecordQualityValidation, TypeOK, CandidateRow, KeepsAuthors
    <3>3. ASSUME NEW s \in SessionId, NEW verdict \in {"Accept", "Reject"},
                 SubmitQualityReview(j, s, candidate[j].rev, attempt[a].rev, verdict)
          PROVE  Goal
      BY <3>3 DEF SubmitQualityReview, TypeOK, CandidateRow, KeepsAuthors, RequireSession, Performs
    <3>4. ASSUME NEW decision \in Decision, NEW override \in BOOLEAN,
                 DecideCandidate(j, decision, override,
                                 candidate[j].rev, attempt[a].rev, TicketOf(a).rev)
          PROVE  Goal
      BY <3>4 DEF DecideCandidate, TypeOK, CandidateRow, KeepsAuthors
    <3>5. CASE RecordDelivery(j, candidate[j].rev, attempt[a].rev, TicketOf(a).rev,
                              campaign[attempt[a].campaign].rev)
      <4>1. /\ candidate[j].state = "Accepted"
            /\ candidate' = [candidate EXCEPT ![j].state = "Delivered", ![j].rev = @ + 1]
        BY <3>5, Zenon DEF RecordDelivery
      <4> QED BY <4>1 DEF TypeOK, CandidateRow, KeepsAuthors
    <3> QED BY <2>1, <2>3, <3>1, <3>2, <3>3, <3>4, <3>5
  <2> QED BY <2>2, <2>3
<1>4. CASE AttemptStep
    BY <1>4, <1>1, <1>2, ZenonT(60)
    DEF AttemptStep, FailTicketAttempt, CanFail, RetryQualityAttempt, RetryEngineeringAttempt,
        ReleaseTicketAttempt
<1>5. CASE CampaignStep \/ SessionStep \/ TicketStep
    BY <1>1, <1>5, CandidateFrame
<1>6. CASE UNCHANGED vars
    BY <1>1, <1>6 DEF vars
<1> QED BY <1>3, <1>4, <1>5, <1>6 DEF Next

\* Every submitted candidate keeps naming its session.
LEMMA SubmitterLinksKept ==
    ASSUME TypeOK, SubmitterLinks, [Next]_vars
    PROVE  SubmitterLinks'
BY AuthorsKept DEF SubmitterLinks, KeepsAuthors, Performs

\* An attempt row that exists keeps its ticket and its campaign.
LEMMA AttemptTicketKept ==
    ASSUME TypeOK, RowLinks, [Next]_vars, NEW a \in AttemptId, attempt[a].stage # "Absent"
    PROVE  /\ attempt'[a].stage # "Absent" /\ attempt'[a].ticket = attempt[a].ticket
           /\ attempt'[a].campaign = attempt[a].campaign
<1> DEFINE Kept == /\ attempt'[a].ticket = attempt[a].ticket
                   /\ attempt'[a].campaign = attempt[a].campaign
<1>0. CASE UNCHANGED attempt
    BY <1>0
<1>1. CASE Next
  <2>0. LifecycleEvent
    BY <1>1, StepIsEvent
  <2>1. attempt'[a].stage # "Absent"
    BY <2>0, AttemptsStay DEF RowLinks
  <2>2. ASSUME NEW b \in AttemptId, NEW stage, NEW released, AttemptSet(b, stage, released)
        PROVE  Kept
    BY <2>2 DEF AttemptSet
  <2>3. ASSUME NEW t \in TicketId, NEW b \in AttemptId, NEW c \in CampaignId, ClaimEvent(t, b, c)
        PROVE  Kept
    BY <2>3 DEF ClaimEvent
  <2>4. ASSUME NEW k \in CandidateId, NEW state, NEW stage, EvidenceEvent(k, state, stage)
        PROVE  Kept
    BY <2>2, <2>4 DEF EvidenceEvent
  <2>5. ASSUME NEW k \in CandidateId, RejectEvent(k) \/ DeliverEvent(k)
        PROVE  Kept
    BY <2>2, <2>5 DEF RejectEvent, DeliverEvent
  <2>6. ASSUME NEW k \in CandidateId, NEW b \in AttemptId, SubmitEvent(k, b)
        PROVE  Kept
    BY <2>2, <2>6 DEF SubmitEvent
  <2> QED
    BY <1>0, <2>0, <2>1, <2>2, <2>3, <2>4, <2>5, <2>6
    DEF LifecycleEvent, CampaignEvent, TicketEvent, StageEvent, ReleaseEvent, AttachEvent
<1>2. CASE UNCHANGED vars
    BY <1>0, <1>2 DEF vars
<1> QED BY <1>1, <1>2

-----------------------------------------------------------------------------
(* Ownership of the ticket in flight                                       *)

\* No event but a claim or a release concerns who owns which ticket.
LEMMA OwnershipKept ==
    ASSUME RowLinks, InFlightOwnership, LifecycleEvent
    PROVE  InFlightOwnership'
<1> USE DEF RowLinks
<1>1. ASSUME UNCHANGED ticket,
             \A b \in AttemptId : /\ attempt'[b].ticket = attempt[b].ticket
                                  /\ attempt'[b].released = attempt[b].released
                                  /\ attempt'[b].stage # "Absent" => attempt[b].stage # "Absent"
      PROVE  InFlightOwnership'
    BY <1>1 DEF InFlightOwnership, TicketOf
<1>2. ASSUME NEW a \in AttemptId, NEW stage, attempt[a].stage # "Absent",
             AttemptSet(a, stage, attempt[a].released), UNCHANGED ticket
      PROVE  InFlightOwnership'
    BY <1>1, <1>2 DEF AttemptSet
<1>3. ASSUME NEW t \in TicketId, NEW state \in TicketState, TicketEvent(t, state)
      PROVE  InFlightOwnership'
    BY <1>3 DEF InFlightOwnership, TicketOf, TicketEvent, TicketSet, AttemptLinks
<1>4. ASSUME NEW t \in TicketId, NEW a \in AttemptId, NEW c \in CampaignId, ClaimEvent(t, a, c)
      PROVE  InFlightOwnership'
  <2>1. /\ attempt'[a].stage = "Engineering" /\ attempt'[a].ticket = t /\ ~attempt'[a].released
        /\ \A b \in AttemptId : b # a => attempt'[b] = attempt[b]
    BY <1>4 DEF ClaimEvent, NoAttempt
  <2>2. /\ attempt[a].stage = "Absent"
        /\ \A b \in AttemptId : attempt[b].ticket = t => attempt[b].released
        /\ ticket'[t].state = "InFlight"
        /\ \A u \in TicketId : u # t => ticket'[u] = ticket[u]
    BY <1>4 DEF ClaimEvent, TicketSet
  <2>3. attempt[a].ticket = 0 /\ 0 \notin TicketId
    BY <2>2 DEF AttemptLinks, TicketId
  <2>4. \A u \in TicketId : ticket'[u].state = "InFlight" =>
          \E b \in AttemptId : attempt'[b].ticket = u /\ ~attempt'[b].released
    <3> SUFFICES ASSUME NEW u \in TicketId, ticket'[u].state = "InFlight", u # t
                 PROVE  \E b \in AttemptId : attempt'[b].ticket = u /\ ~attempt'[b].released
        BY <2>1
    <3>1. PICK b \in AttemptId : attempt[b].ticket = u /\ ~attempt[b].released
      BY <2>2 DEF InFlightOwnership
    <3>2. b # a
      BY <2>3, <3>1
    <3> QED BY <2>1, <3>1, <3>2
  <2>5. \A b \in AttemptId : (attempt'[b].stage # "Absent" /\ ~attempt'[b].released) =>
          ticket'[attempt'[b].ticket].state \in {"InFlight", "Delivered", "Rejected"}
    BY <2>1, <2>2 DEF InFlightOwnership, TicketOf, AttemptLinks
  <2>6. \A b, e \in AttemptId :
          (/\ attempt'[b].stage # "Absent" /\ attempt'[e].stage # "Absent"
           /\ attempt'[b].ticket = attempt'[e].ticket
           /\ ~attempt'[b].released /\ ~attempt'[e].released) => b = e
    BY <2>1, <2>2 DEF InFlightOwnership
  <2> QED BY <2>4, <2>5, <2>6 DEF InFlightOwnership, TicketOf
<1>5. ASSUME NEW a \in AttemptId, NEW state \in TicketState, ReleaseEvent(a, state)
      PROVE  InFlightOwnership'
  <2> DEFINE t == attempt[a].ticket
  <2>1. /\ attempt[a].stage # "Absent" /\ ~attempt[a].released
        /\ t \in TicketId /\ state # "InFlight"
        /\ ticket'[t].state = state
        /\ \A u \in TicketId : u # t => ticket'[u] = ticket[u]
        /\ attempt'[a].released
        /\ \A b \in AttemptId :
             /\ attempt'[b].ticket = attempt[b].ticket
             /\ b # a => attempt'[b] = attempt[b]
    BY <1>5 DEF ReleaseEvent, Working, TicketSet, AttemptSet, AttemptLinks
  <2>2. \A b \in AttemptId :
          attempt[b].stage # "Absent" /\ ~attempt[b].released /\ attempt[b].ticket = t => b = a
    BY <2>1 DEF InFlightOwnership
  <2> QED BY <2>1, <2>2 DEF InFlightOwnership, TicketOf, AttemptLinks
<1>6. ASSUME NEW k \in CandidateId, RejectEvent(k) \/ DeliverEvent(k)
      PROVE  InFlightOwnership'
  <2> DEFINE a == candidate[k].attempt
             t == attempt[a].ticket
  <2>1. /\ a \in AttemptId /\ attempt[a].stage # "Absent" /\ t \in TicketId
        /\ ticket'[t].state \in {"Rejected", "Delivered"}
        /\ \A u \in TicketId : u # t => ticket'[u] = ticket[u]
        /\ \A b \in AttemptId :
             /\ attempt'[b].ticket = attempt[b].ticket
             /\ attempt'[b].released = attempt[b].released
             /\ attempt'[b].stage # "Absent" => attempt[b].stage # "Absent"
    BY <1>6 DEF RejectEvent, DeliverEvent, Working, TicketSet, AttemptSet, AttemptLinks
  <2> QED BY <2>1 DEF InFlightOwnership, TicketOf, AttemptLinks
<1>7. ASSUME NEW k \in CandidateId, NEW state, NEW stage, EvidenceEvent(k, state, stage)
      PROVE  InFlightOwnership'
    BY <1>2, <1>7 DEF EvidenceEvent, EvidenceMove, HardStage, QualityStage
<1>8. ASSUME NEW a \in AttemptId, NEW stage, StageEvent(a, stage)
      PROVE  InFlightOwnership'
    BY <1>2, <1>8 DEF StageEvent, Working
<1>9. ASSUME NEW k \in CandidateId, NEW a \in AttemptId, SubmitEvent(k, a)
      PROVE  InFlightOwnership'
    BY <1>2, <1>9 DEF SubmitEvent, Working
<1> QED
    BY <1>1, <1>3, <1>4, <1>5, <1>6, <1>7, <1>8, <1>9
    DEF LifecycleEvent, CampaignEvent, AttachEvent

\* Claims, releases, retries and decisions in any order leave exactly one
\* unreleased attempt behind the ticket in flight, and none behind a ticket
\* that can be claimed again.
THEOREM OneOwnerInFlight == Spec => []InFlightOwnership
<1>1. Init => InFlightOwnership
    BY DEF Init, InFlightOwnership, NoTicket, NoAttempt
<1>2. TypeOK /\ RowLinks /\ InFlightOwnership /\ [Next]_vars => InFlightOwnership'
  <2> SUFFICES ASSUME TypeOK, RowLinks, InFlightOwnership, [Next]_vars
               PROVE  InFlightOwnership'
      OBVIOUS
  <2>1. CASE Next
    BY <2>1, StepIsEvent, OwnershipKept
  <2>2. CASE UNCHANGED vars
    BY <2>2 DEF vars, InFlightOwnership, TicketOf
  <2> QED BY <2>1, <2>2
<1> QED BY <1>1, <1>2, TypeCorrect, RowLinksInvariant, PTL DEF Spec

-----------------------------------------------------------------------------
(* Deliveries                                                              *)

\* Only record_delivery makes an attempt or a candidate Delivered, from a ticket
\* in flight, and nothing undoes it.
LEMMA DeliveredOnceKept ==
    ASSUME RowLinks, DeliveredOnce, LifecycleEvent
    PROVE  DeliveredOnce'
<1> USE DEF RowLinks
<1>1. ASSUME \A a \in AttemptId :
               /\ attempt'[a].ticket = attempt[a].ticket \/ attempt[a].stage = "Absent"
               /\ attempt'[a].stage = "Delivered" <=> attempt[a].stage = "Delivered",
             \A k \in CandidateId :
               \/ candidate'[k] = candidate[k]
               \/ /\ candidate[k].state # "Delivered"
                  /\ candidate'[k].state # "Delivered",
             \A t \in TicketId : ticket[t].state = "Delivered" => ticket'[t].state = "Delivered"
      PROVE  DeliveredOnce'
    BY <1>1 DEF DeliveredOnce, CandidatesOf, TicketOf, AttemptLinks
<1>2. ASSUME NEW c \in CampaignId, CampaignEvent(c)
      PROVE  DeliveredOnce'
    BY <1>1, <1>2 DEF CampaignEvent
<1>3. ASSUME NEW t \in TicketId, NEW state \in TicketState, TicketEvent(t, state)
      PROVE  DeliveredOnce'
    BY <1>1, <1>3 DEF TicketEvent, TicketSet
<1>4. ASSUME NEW t \in TicketId, NEW a \in AttemptId, NEW c \in CampaignId, ClaimEvent(t, a, c)
      PROVE  DeliveredOnce'
    BY <1>1, <1>4 DEF ClaimEvent, TicketSet, NoAttempt
<1>5. ASSUME NEW a \in AttemptId, NEW stage, StageEvent(a, stage)
      PROVE  DeliveredOnce'
    BY <1>1, <1>5 DEF StageEvent, AttemptSet, OpenStage, DownstreamStage, HardStage, QualityStage
<1>6. ASSUME NEW a \in AttemptId, NEW state \in TicketState, ReleaseEvent(a, state)
      PROVE  DeliveredOnce'
    BY <1>1, <1>6 DEF ReleaseEvent, AttemptSet, TicketSet, Working, TicketOf
<1>7. ASSUME NEW k \in CandidateId, NEW a \in AttemptId, SubmitEvent(k, a)
      PROVE  DeliveredOnce'
    BY <1>1, <1>7 DEF SubmitEvent, AttemptSet, FreshCandidate, EngineeringStage, HardStage
<1>8. ASSUME NEW k \in CandidateId, AttachEvent(k)
      PROVE  DeliveredOnce'
    BY <1>1, <1>8 DEF AttachEvent, CandidateSet
<1>9. ASSUME NEW k \in CandidateId, NEW state, NEW stage, EvidenceEvent(k, state, stage)
      PROVE  DeliveredOnce'
    BY <1>1, <1>9 DEF EvidenceEvent, EvidenceMove, CandidateSet, AttemptSet, HardStage, QualityStage
<1>10. ASSUME NEW k \in CandidateId, RejectEvent(k)
      PROVE  DeliveredOnce'
    BY <1>1, <1>10 DEF RejectEvent, CandidateSet, AttemptSet, TicketSet, Working, TicketOf
<1>11. ASSUME NEW k \in CandidateId, DeliverEvent(k)
      PROVE  DeliveredOnce'
  <2> DEFINE a == candidate[k].attempt
             t == attempt[a].ticket
  <2>1. /\ a \in AttemptId /\ attempt[a].stage = "AwaitingArchitect"
        /\ t \in TicketId /\ ticket[t].state = "InFlight"
        /\ candidate'[k].state = "Delivered" /\ candidate'[k].attempt = a
        /\ \A j \in CandidateId : j # k => candidate'[j] = candidate[j]
        /\ attempt'[a].stage = "Delivered" /\ attempt'[a].ticket = t
        /\ \A b \in AttemptId : b # a => attempt'[b] = attempt[b]
        /\ ticket'[t].state = "Delivered"
        /\ \A u \in TicketId : u # t => ticket'[u] = ticket[u]
    BY <1>11 DEF DeliverEvent, Working, TicketOf, CandidateSet, AttemptSet, TicketSet, AttemptLinks
  <2>2. 0 \notin AttemptId
    BY DEF AttemptId
  <2> HIDE DEF a, t
  <2>3. \A b \in AttemptId :
          attempt'[b].stage = "Delivered" <=>
            \E j \in CandidateId : candidate'[j].attempt = b /\ candidate'[j].state = "Delivered"
    BY <2>1, <2>2 DEF DeliveredOnce, CandidatesOf, a
  <2>4. \A b \in AttemptId : attempt[b].stage = "Delivered" => attempt[b].ticket # t
    BY <2>1 DEF DeliveredOnce, TicketOf
  <2>5. \A b, e \in AttemptId :
          (/\ attempt'[b].stage = "Delivered" /\ attempt'[e].stage = "Delivered"
           /\ attempt'[b].ticket = attempt'[e].ticket) => b = e
    BY <2>1, <2>4 DEF DeliveredOnce
  <2>6. \A b \in AttemptId :
          attempt'[b].stage = "Delivered" => ticket'[attempt'[b].ticket].state = "Delivered"
    BY <2>1, <2>4 DEF DeliveredOnce, TicketOf, AttemptLinks
  <2> QED BY <2>2, <2>3, <2>5, <2>6 DEF DeliveredOnce, CandidatesOf, TicketOf
<1> QED
    BY <1>2, <1>3, <1>4, <1>5, <1>6, <1>7, <1>8, <1>9, <1>10, <1>11 DEF LifecycleEvent

\* A delivered attempt, its candidate and its ticket agree, and no ticket is
\* delivered through two attempts, whatever was released and retried before.
THEOREM DeliveryHappensOnce == Spec => []DeliveredOnce
<1>1. Init => DeliveredOnce
    BY DEF Init, DeliveredOnce, CandidatesOf, NoAttempt, NoCandidate
<1>2. TypeOK /\ RowLinks /\ DeliveredOnce /\ [Next]_vars => DeliveredOnce'
  <2> SUFFICES ASSUME TypeOK, RowLinks, DeliveredOnce, [Next]_vars
               PROVE  DeliveredOnce'
      OBVIOUS
  <2>1. CASE Next
    BY <2>1, StepIsEvent, DeliveredOnceKept
  <2>2. CASE UNCHANGED vars
    BY <2>2 DEF vars, DeliveredOnce, CandidatesOf, TicketOf
  <2> QED BY <2>1, <2>2
<1> QED BY <1>1, <1>2, TypeCorrect, RowLinksInvariant, PTL DEF Spec

-----------------------------------------------------------------------------
(* The head the scheduler acts on                                          *)

\* The candidate lifecycles that belong to an attempt stage.
HeadState(stage, state) ==
    \/ stage \in HardStage /\ state = "Submitted"
    \/ stage \in QualityStage /\ state = "Validated"
    \/ stage = "AwaitingArchitect" /\ state \in {"Validated", "Accepted"}
    \/ stage = "ReworkEngineering" /\ state = "Rejected"

\* The first engineering round has produced nothing; a candidate that was
\* superseded is Rejected; the last one matches the stage of its attempt.
StageMatchesHead ==
    \A a \in AttemptId :
      /\ attempt[a].stage = "Engineering" => \A k \in CandidateId : candidate[k].attempt # a
      /\ \A j, k \in CandidateId :
           candidate[j].attempt = a /\ candidate[k].attempt = a /\ j < k =>
             candidate[j].state = "Rejected"
      /\ attempt[a].stage \in DownstreamStage =>
           \E k \in CandidateId :
             IsLatestCandidate(k, a) /\ HeadState(attempt[a].stage, candidate[k].state)

\* A head whose candidate matches its stage is one the scheduler acts on.
LEMMA HeadStateActs ==
    ASSUME NEW stage, NEW r, HeadState(stage, r.state)
    PROVE  DownstreamAction(stage, r) # "None"
BY DEF HeadState, DownstreamAction, HardStage, QualityStage

\* Stage and candidate are written together, and only the head can be moved.
LEMMA StageMatchesHeadKept ==
    ASSUME TypeOK, RowLinks, StageMatchesHead, LifecycleEvent
    PROVE  StageMatchesHead'
<1> USE DEF RowLinks
<1>0. CandidateId \subseteq Nat /\ 0 \notin AttemptId
    BY DEF CandidateId, AttemptId
<1>1. ASSUME UNCHANGED candidate,
             \A b \in AttemptId :
               attempt'[b].stage = attempt[b].stage \/ attempt'[b].stage = "Failed"
      PROVE  StageMatchesHead'
    BY <1>1 DEF StageMatchesHead, IsLatestCandidate, CandidatesOf, DownstreamStage,
                HardStage, QualityStage
<1>2. ASSUME NEW t \in TicketId, NEW a \in AttemptId, NEW c \in CampaignId, ClaimEvent(t, a, c)
      PROVE  StageMatchesHead'
  <2>1. /\ attempt[a].stage = "Absent" /\ attempt'[a].stage = "Engineering"
        /\ \A b \in AttemptId : b # a => attempt'[b] = attempt[b]
        /\ UNCHANGED candidate
    BY <1>2 DEF ClaimEvent, NoAttempt
  <2>2. \A k \in CandidateId : candidate[k].attempt # a
    BY <1>0, <2>1 DEF CandidateLinks
  <2> QED BY <2>1, <2>2 DEF StageMatchesHead, IsLatestCandidate, CandidatesOf, DownstreamStage,
                            HardStage, QualityStage
<1>3. ASSUME NEW a \in AttemptId, NEW stage, StageEvent(a, stage)
      PROVE  StageMatchesHead'
  <2>1. /\ UNCHANGED candidate
        /\ attempt'[a].stage = stage
        /\ \A b \in AttemptId : b # a => attempt'[b] = attempt[b]
    BY <1>3 DEF StageEvent, AttemptSet
  <2>2. CASE stage = "Failed"
    BY <1>1, <2>1, <2>2
  <2>3. CASE stage = "Engineering" /\ CandidatesOf(a) = {}
    BY <2>1, <2>3 DEF StageMatchesHead, IsLatestCandidate, CandidatesOf, DownstreamStage,
                      HardStage, QualityStage
  <2>4. ASSUME stage = "ReworkQuality", NEW k \in CandidatesOf(a), candidate[k].state = "Validated"
        PROVE  StageMatchesHead'
    <3>1. k \in CandidateId /\ candidate[k].attempt = a
      BY DEF CandidatesOf
    <3>2. \A j \in CandidateId : candidate[j].attempt = a => j <= k
      <4>1. \A j \in CandidateId : candidate[j].attempt = a => ~(k < j)
        BY <2>4, <3>1, Zenon DEF StageMatchesHead
      <4> QED BY <1>0, <3>1, <4>1
    <3>3. IsLatestCandidate(k, a)
      BY <3>1, <3>2 DEF IsLatestCandidate, CandidatesOf
    <3> QED BY <2>1, <2>4, <3>1, <3>3 DEF StageMatchesHead, IsLatestCandidate, CandidatesOf,
                               HeadState, DownstreamStage, QualityStage, HardStage
  <2> QED BY <1>3, <2>2, <2>3, <2>4 DEF StageEvent
<1>4. ASSUME NEW k \in CandidateId, NEW a \in AttemptId, SubmitEvent(k, a)
      PROVE  StageMatchesHead'
  <2>1. PICK stage \in HardStage : AttemptSet(a, stage, attempt[a].released)
    BY <1>4 DEF SubmitEvent
  <2>2. /\ attempt[a].stage \in EngineeringStage
        /\ attempt'[a].stage = stage
        /\ \A b \in AttemptId : b # a => attempt'[b] = attempt[b]
        /\ candidate[k].state = "Absent"
        /\ candidate'[k].state = "Submitted" /\ candidate'[k].attempt = a
        /\ \A j \in CandidateId : j # k => candidate'[j] = candidate[j]
    BY <1>4, <2>1 DEF SubmitEvent, AttemptSet, FreshCandidate
  <2>3. candidate[k].attempt = 0
    BY <2>2 DEF CandidateLinks
  <2>4. \A j \in CandidateId : j > k => candidate[j].attempt = 0
    BY <1>0, <2>2 DEF CandidateLinks
  <2>5. \A j \in CandidateId : candidate[j].attempt = a => candidate[j].state = "Rejected"
    <3>1. CASE attempt[a].stage = "Engineering"
      BY <3>1 DEF StageMatchesHead
    <3>2. CASE attempt[a].stage = "ReworkEngineering"
      <4>1. PICK h \in CandidateId : IsLatestCandidate(h, a) /\ candidate[h].state = "Rejected"
        BY <3>2 DEF StageMatchesHead, DownstreamStage, HeadState, HardStage, QualityStage
      <4> QED BY <1>0, <4>1 DEF StageMatchesHead, IsLatestCandidate, CandidatesOf
    <3> QED BY <2>2, <3>1, <3>2 DEF EngineeringStage
  <2>6. \A i, j \in CandidateId :
          candidate'[i].attempt = a /\ candidate'[j].attempt = a /\ i < j =>
            candidate'[i].state = "Rejected"
    BY <1>0, <2>2, <2>4, <2>5
  <2>7. /\ candidate'[k].attempt = a
        /\ \A j \in CandidateId : candidate'[j].attempt = a => j <= k
    BY <1>0, <2>2, <2>4
  <2>8. HeadState(attempt'[a].stage, candidate'[k].state)
    BY <2>2, <2>1 DEF HeadState
  <2>9. attempt'[a].stage # "Engineering"
    BY <2>2, <2>1 DEF HardStage
  <2>10. \A b \in AttemptId : b # a =>
           \A j \in CandidateId :
             /\ candidate'[j].attempt = b <=> candidate[j].attempt = b
             /\ candidate[j].attempt = b => candidate'[j] = candidate[j]
    BY <1>0, <2>2, <2>3
  <2> QED BY <2>2, <2>6, <2>7, <2>8, <2>9, <2>10 DEF StageMatchesHead, IsLatestCandidate, CandidatesOf
<1>5. ASSUME NEW k \in CandidateId, NEW state, NEW stage, NEW a \in AttemptId,
             a = candidate[k].attempt,
             candidate[k].state # "Rejected",
             candidate'[k].state = state, candidate'[k].attempt = a,
             \A j \in CandidateId : j # k => candidate'[j] = candidate[j],
             attempt'[a].stage = stage,
             \A b \in AttemptId : b # a => attempt'[b] = attempt[b],
             stage \notin DownstreamStage \cup {"Engineering"} \/ HeadState(stage, state)
      PROVE  StageMatchesHead'
  <2>1. \A j \in CandidateId : candidate[j].attempt = a => j <= k
    BY <1>0, <1>5 DEF StageMatchesHead
  <2>2. \A i, j \in CandidateId :
          candidate'[i].attempt = a /\ candidate'[j].attempt = a /\ i < j =>
            candidate'[i].state = "Rejected"
    BY <1>0, <1>5, <2>1 DEF StageMatchesHead
  <2>3. \A b \in AttemptId : b # a =>
           \A j \in CandidateId :
             /\ candidate'[j].attempt = b <=> candidate[j].attempt = b
             /\ candidate[j].attempt = b => candidate'[j] = candidate[j]
    BY <1>5
  <2>4. attempt'[a].stage # "Engineering"
    BY <1>5 DEF HeadState, HardStage, QualityStage
  <2>5. \A j \in CandidateId : candidate'[j].attempt = a => j <= k
    BY <1>5, <2>1
  <2>6. attempt'[a].stage \in DownstreamStage => HeadState(attempt'[a].stage, candidate'[k].state)
    BY <1>5
  <2> QED BY <1>5, <2>2, <2>3, <2>4, <2>5, <2>6
          DEF StageMatchesHead, IsLatestCandidate, CandidatesOf
<1>6. ASSUME NEW k \in CandidateId, AttachEvent(k)
      PROVE  StageMatchesHead'
    BY <1>6 DEF AttachEvent, CandidateSet, StageMatchesHead, IsLatestCandidate, CandidatesOf
<1>7. ASSUME NEW k \in CandidateId, NEW state, NEW stage, EvidenceEvent(k, state, stage)
      PROVE  StageMatchesHead'
    BY <1>5, <1>7 DEF EvidenceEvent, EvidenceMove, CandidateSet, AttemptSet, HeadState,
                      DownstreamStage, HardStage, QualityStage
<1>8. ASSUME NEW k \in CandidateId, RejectEvent(k) \/ DeliverEvent(k)
      PROVE  StageMatchesHead'
    BY <1>5, <1>8 DEF RejectEvent, DeliverEvent, CandidateSet, AttemptSet, DownstreamStage,
                      HardStage, QualityStage
<1>9. ASSUME NEW a \in AttemptId, NEW state \in TicketState, ReleaseEvent(a, state)
      PROVE  StageMatchesHead'
    BY <1>1, <1>9 DEF ReleaseEvent, AttemptSet
<1> QED
    BY <1>1, <1>2, <1>3, <1>4, <1>6, <1>7, <1>8, <1>9
    DEF LifecycleEvent, CampaignEvent, TicketEvent

\* The stage of an attempt and the state of its last candidate always agree.
LEMMA StageMatchesHeadInvariant == Spec => []StageMatchesHead
<1>1. Init => StageMatchesHead
    BY DEF Init, StageMatchesHead, NoAttempt, NoCandidate, AttemptId, DownstreamStage,
           HardStage, QualityStage
<1>2. TypeOK /\ RowLinks /\ StageMatchesHead /\ [Next]_vars => StageMatchesHead'
  <2> SUFFICES ASSUME TypeOK, RowLinks, StageMatchesHead, [Next]_vars
               PROVE  StageMatchesHead'
      OBVIOUS
  <2>1. CASE Next
    BY <2>1, StepIsEvent, StageMatchesHeadKept
  <2>2. CASE UNCHANGED vars
    BY <2>2 DEF vars, StageMatchesHead, IsLatestCandidate, CandidatesOf
  <2> QED BY <2>1, <2>2
<1> QED BY <1>1, <1>2, TypeCorrect, RowLinksInvariant, PTL DEF Spec

\* The FIFO head the scheduler reads is never the inconsistent row that
\* ticket_buffer_status maps to None: the stage of an attempt and the state of
\* its last candidate agree after any sequence of failures, retries and reworks.
THEOREM SchedulerHeadConsistent == Spec => []DownstreamHeadConsistent
<1>1. StageMatchesHead => DownstreamHeadConsistent
    BY HeadStateActs DEF StageMatchesHead, DownstreamHeadConsistent
<1> QED BY <1>1, StageMatchesHeadInvariant, PTL

-----------------------------------------------------------------------------
(* The delivery target                                                     *)

\* The deliveries of a campaign can be counted.
LEMMA DeliveredAttemptsFinite ==
    ASSUME NEW c
    PROVE  /\ IsFiniteSet(DeliveredAttempts(c))
           /\ Cardinality(DeliveredAttempts(c)) \in Nat
<1>1. IsFiniteSet(AttemptId)
    BY BoundsAssumption, FS_Interval DEF AttemptId
<1>2. DeliveredAttempts(c) \in SUBSET AttemptId
    BY DEF DeliveredAttempts
<1> QED BY <1>1, <1>2, FS_Subset, FS_CardinalityType

\* What an event that records no delivery leaves alone: the deliveries of every
\* campaign, and which campaigns are completed.
DeliveriesKept ==
    /\ \A a \in AttemptId :
         /\ attempt'[a].stage = "Delivered" <=> attempt[a].stage = "Delivered"
         /\ attempt[a].stage = "Delivered" =>
              attempt'[a].ticket = attempt[a].ticket /\ attempt'[a].campaign = attempt[a].campaign
    /\ \A c \in CampaignId :
         /\ campaign'[c].state = "Running" => campaign[c].state \in {"Absent", "Running"}
         /\ campaign'[c].state = "Completed" => campaign[c].state = "Completed"

\* Only record_delivery touches the count of deliveries.
LEMMA OnlyDeliveriesCount ==
    ASSUME LifecycleEvent
    PROVE  DeliveriesKept \/ \E k \in CandidateId : DeliverEvent(k)
<1>1. ASSUME NEW c \in CampaignId, CampaignEvent(c)
      PROVE  DeliveriesKept
    BY <1>1 DEF CampaignEvent, DeliveriesKept
<1>2. ASSUME NEW t \in TicketId, NEW state, TicketEvent(t, state)
      PROVE  DeliveriesKept
    BY <1>2 DEF TicketEvent, DeliveriesKept
<1>3. ASSUME NEW t \in TicketId, NEW a \in AttemptId, NEW c \in CampaignId, ClaimEvent(t, a, c)
      PROVE  DeliveriesKept
    BY <1>3 DEF ClaimEvent, DeliveriesKept, NoAttempt
<1>4. ASSUME NEW a \in AttemptId, NEW stage, NEW released, AttemptSet(a, stage, released),
             stage # "Delivered", attempt[a].stage # "Delivered", UNCHANGED campaign
      PROVE  DeliveriesKept
    BY <1>4 DEF AttemptSet, DeliveriesKept
<1>5. ASSUME NEW a \in AttemptId, NEW stage, StageEvent(a, stage)
      PROVE  DeliveriesKept
    BY <1>4, <1>5 DEF StageEvent, OpenStage, DownstreamStage, HardStage, QualityStage
<1>6. ASSUME NEW a \in AttemptId, NEW state, ReleaseEvent(a, state)
      PROVE  DeliveriesKept
    BY <1>4, <1>6 DEF ReleaseEvent
<1>7. ASSUME NEW k \in CandidateId, NEW a \in AttemptId, SubmitEvent(k, a)
      PROVE  DeliveriesKept
    BY <1>4, <1>7 DEF SubmitEvent, EngineeringStage, HardStage
<1>8. ASSUME NEW k \in CandidateId, AttachEvent(k)
      PROVE  DeliveriesKept
    BY <1>8 DEF AttachEvent, DeliveriesKept
<1>9. ASSUME NEW k \in CandidateId, NEW state, NEW stage, EvidenceEvent(k, state, stage)
      PROVE  DeliveriesKept
    BY <1>4, <1>9 DEF EvidenceEvent, EvidenceMove, HardStage, QualityStage
<1>10. ASSUME NEW k \in CandidateId, RejectEvent(k)
      PROVE  DeliveriesKept
    BY <1>4, <1>10 DEF RejectEvent
<1> QED
    BY <1>1, <1>2, <1>3, <1>5, <1>6, <1>7, <1>8, <1>9, <1>10 DEF LifecycleEvent

\* A delivery adds its attempt to the deliveries of one campaign.
LEMMA DeliveryAdds ==
    ASSUME RowLinks, NEW k \in CandidateId, DeliverEvent(k),
           NEW a \in AttemptId, a = candidate[k].attempt,
           NEW c \in CampaignId, c = attempt[a].campaign,
           NEW d \in CampaignId
    PROVE  DeliveredAttempts(d)' =
             IF d = c THEN DeliveredAttempts(c) \cup {a} ELSE DeliveredAttempts(d)
<1>1. /\ attempt'[a].stage = "Delivered" /\ attempt'[a].campaign = c
      /\ attempt[a].stage # "Delivered"
      /\ \A b \in AttemptId : b # a => attempt'[b] = attempt[b]
    BY DEF DeliverEvent, AttemptSet
<1> QED BY <1>1 DEF DeliveredAttempts

\* A started campaign has nothing to its credit, and record_delivery compares
\* the deliveries with the target in the transaction that adds one.
LEMMA TargetAccountingKept ==
    ASSUME TypeOK, RowLinks, TargetAccounting, LifecycleEvent
    PROVE  TargetAccounting'
<1>1. CASE DeliveriesKept
  <2>1. \A c \in CampaignId : DeliveredAttempts(c)' = DeliveredAttempts(c)
    BY <1>1 DEF DeliveriesKept, DeliveredAttempts
  <2>2. ASSUME NEW c \in CampaignId, campaign[c].state = "Absent"
        PROVE  Cardinality(DeliveredAttempts(c)) = 0
    <3>1. DeliveredAttempts(c) = {}
      BY <2>2 DEF DeliveredAttempts, RowLinks, AttemptLinks
    <3> QED BY <3>1, FS_EmptySet
  <2>3. ASSUME NEW c \in CampaignId, campaign'[c].state = "Running"
        PROVE  Cardinality(DeliveredAttempts(c)') < DeliveryTarget
    <3>1. CASE campaign[c].state = "Absent"
      BY <2>1, <2>2, <3>1, PolicyAssumption
    <3>2. CASE campaign[c].state = "Running"
      BY <2>1, <3>2 DEF TargetAccounting
    <3> QED BY <1>1, <2>3, <3>1, <3>2 DEF DeliveriesKept
  <2>4. ASSUME NEW c \in CampaignId, campaign'[c].state = "Completed"
        PROVE  Cardinality(DeliveredAttempts(c)') = DeliveryTarget
    BY <1>1, <2>1, <2>4 DEF DeliveriesKept, TargetAccounting
  <2> QED BY <2>3, <2>4 DEF TargetAccounting
<1>2. ASSUME NEW k \in CandidateId, DeliverEvent(k)
      PROVE  TargetAccounting'
  <2>1. PICK a \in AttemptId : a = candidate[k].attempt
    BY <1>2 DEF DeliverEvent
  <2>2. PICK c \in CampaignId : c = attempt[a].campaign
    BY <1>2, <2>1 DEF DeliverEvent, RowLinks, AttemptLinks, Working
  <2>3. /\ campaign[c].state = "Running"
        /\ a \notin DeliveredAttempts(c)
        /\ \A d \in CampaignId : d # c => campaign'[d] = campaign[d]
        /\ campaign'[c].state = IF TargetReached(c) THEN "Completed" ELSE "Running"
    BY <1>2, <2>1, <2>2 DEF DeliverEvent, DeliveredAttempts
  <2>4. Cardinality(DeliveredAttempts(c)') = Cardinality(DeliveredAttempts(c)) + 1
    <3>1. DeliveredAttempts(c)' = DeliveredAttempts(c) \cup {a}
      BY <1>2, <2>1, <2>2, DeliveryAdds
    <3>2. IsFiniteSet(DeliveredAttempts(c))
      BY DeliveredAttemptsFinite
    <3>3. Cardinality(DeliveredAttempts(c) \cup {a}) = Cardinality(DeliveredAttempts(c)) + 1
      BY <2>3, <3>2, FS_AddElement
    <3> QED BY <3>1, <3>3
  <2>5. \A d \in CampaignId : d # c => DeliveredAttempts(d)' = DeliveredAttempts(d)
    BY <1>2, <2>1, <2>2, DeliveryAdds
  <2>6. Cardinality(DeliveredAttempts(c)) < DeliveryTarget
    BY <2>3 DEF TargetAccounting
  <2>7. /\ campaign'[c].state = "Running" => Cardinality(DeliveredAttempts(c)') < DeliveryTarget
        /\ campaign'[c].state = "Completed" => Cardinality(DeliveredAttempts(c)') = DeliveryTarget
    BY <2>3, <2>4, <2>6, DeliveredAttemptsFinite, PolicyAssumption DEF TargetReached
  <2>8. ASSUME NEW d \in CampaignId, d # c
        PROVE
        /\ campaign'[d].state = "Running" => Cardinality(DeliveredAttempts(d)') < DeliveryTarget
        /\ campaign'[d].state = "Completed" => Cardinality(DeliveredAttempts(d)') = DeliveryTarget
    BY <2>3, <2>5, <2>8 DEF TargetAccounting
  <2> QED BY <2>7, <2>8 DEF TargetAccounting
<1> QED BY <1>1, <1>2, OnlyDeliveriesCount

\* record_delivery completes a campaign exactly at its target, for every target
\* and every interleaving of claims, closures and late settlements.
THEOREM CampaignMeetsTarget == Spec => []TargetAccounting
<1>1. Init => TargetAccounting
    BY DEF Init, TargetAccounting, NoCampaign
<1>2. TypeOK /\ RowLinks /\ TargetAccounting /\ [Next]_vars => TargetAccounting'
  <2> SUFFICES ASSUME TypeOK, RowLinks, TargetAccounting, [Next]_vars
               PROVE  TargetAccounting'
      OBVIOUS
  <2>1. CASE Next
    BY <2>1, StepIsEvent, TargetAccountingKept
  <2>2. CASE UNCHANGED vars
    BY <2>2 DEF vars, TargetAccounting, DeliveredAttempts
  <2> QED BY <2>1, <2>2
<1> QED BY <1>1, <1>2, TypeCorrect, RowLinksInvariant, PTL DEF Spec

-----------------------------------------------------------------------------
(* The authority implements the delivery contract                          *)

\* The contract's state, read off the tables.
Phase  == [t \in TicketId |-> PhaseOf(ticket[t].state)]
Status == [c \in CampaignId |-> StatusOf(campaign[c].state)]
Credit == [c \in CampaignId |-> {attempt[a].ticket : a \in DeliveredAttempts(c)}]

\* A step that changes none of the three is invisible to the contract.
LEMMA InvisibleStep ==
    ASSUME UNCHANGED <<Phase, Status, Credit>>
    PROVE  UNCHANGED Contract!contractVars
BY DEF Phase, Status, Credit, Contract!contractVars

\* Campaign starts and closures, as the contract sees them.
LEMMA CampaignContractStep ==
    ASSUME NEW c \in CampaignId, UNCHANGED <<Phase, Credit>>,
           \/ /\ Status[c] = "Absent" /\ \A d \in CampaignId : Status[d] # "Running"
              /\ Status' = [Status EXCEPT ![c] = "Running"]
           \/ Status[c] = "Running" /\ Status' = [Status EXCEPT ![c] = "Stopped"]
    PROVE  Contract!ContractNext
<1>1. Contract!Open(c) \/ Contract!Stop(c)
    BY Zenon DEF Phase, Status, Credit, Contract!Open, Contract!Stop
<1> QED BY <1>1 DEF Contract!ContractNext

\* Approvals, claims and returns, as the contract sees them.
LEMMA TicketContractStep ==
    ASSUME NEW t \in TicketId, UNCHANGED <<Status, Credit>>,
           \/ Phase[t] = "Idle" /\ Phase' = [Phase EXCEPT ![t] = "Ready"]
           \/ /\ Phase[t] = "Ready"
              /\ \E c \in CampaignId : Status[c] = "Running"
              /\ \A u \in TicketId : Phase[u] # "Working"
              /\ Phase' = [Phase EXCEPT ![t] = "Working"]
           \/ /\ Phase[t] \in {"Ready", "Working"}
              /\ \E to \in {"Idle", "Ready", "Closed"} : Phase' = [Phase EXCEPT ![t] = to]
    PROVE  Contract!ContractNext
<1>1. CASE Phase[t] = "Idle" /\ Phase' = [Phase EXCEPT ![t] = "Ready"]
  <2>1. Contract!Approve(t)
    BY <1>1, Zenon DEF Phase, Status, Credit, Contract!Approve
  <2> QED BY <2>1 DEF Contract!ContractNext
<1>2. CASE /\ Phase[t] = "Ready"
           /\ \E c \in CampaignId : Status[c] = "Running"
           /\ \A u \in TicketId : Phase[u] # "Working"
           /\ Phase' = [Phase EXCEPT ![t] = "Working"]
  <2>1. Contract!Take(t)
    BY <1>2, Zenon DEF Phase, Status, Credit, Contract!Take
  <2> QED BY <2>1 DEF Contract!ContractNext
<1>3. ASSUME Phase[t] \in {"Ready", "Working"}, NEW to \in {"Idle", "Ready", "Closed"},
             Phase' = [Phase EXCEPT ![t] = to]
      PROVE  Contract!ContractNext
  <2>1. Contract!Return(t, to)
    BY <1>3, Zenon DEF Phase, Status, Credit, Contract!Return
  <2> QED BY <2>1 DEF Contract!ContractNext
<1> QED BY <1>1, <1>2, <1>3

\* Deliveries, as the contract sees them.
LEMMA DeliveryContractStep ==
    ASSUME NEW t \in TicketId, NEW c \in CampaignId,
           Phase[t] = "Working", Status[c] = "Running",
           Phase' = [Phase EXCEPT ![t] = "Delivered"],
           Credit' = [Credit EXCEPT ![c] = @ \cup {t}],
           Status' = IF Cardinality(Credit'[c]) >= DeliveryTarget
                     THEN [Status EXCEPT ![c] = "Completed"] ELSE Status
    PROVE  Contract!ContractNext
<1>1. \A S : Contract!Cardinality(S) = Cardinality(S)
    BY Zenon DEF Contract!Cardinality, Cardinality
<1>2. Contract!Deliver(t, c)
    BY <1>1, Zenon DEF Phase, Status, Credit, Contract!Deliver
<1> QED BY <1>2 DEF Contract!ContractNext

\* Writing the state of a ticket moves its phase.
LEMMA TicketSetPhase ==
    ASSUME NEW t \in TicketId, NEW state, TicketSet(t, state)
    PROVE  Phase' = [Phase EXCEPT ![t] = PhaseOf(state)]
BY DEF TicketSet, Phase

\* Writing the state of a campaign moves its status.
LEMMA CampaignSetStatus ==
    ASSUME NEW c \in CampaignId,
           \A d \in CampaignId : d # c => campaign'[d].state = campaign[d].state
    PROVE  Status' = [Status EXCEPT ![c] = StatusOf(campaign'[c].state)]
BY DEF Status

\* The credits are read off the delivered attempts.
LEMMA CreditKept ==
    ASSUME DeliveriesKept
    PROVE  UNCHANGED Credit
<1>1. \A c \in CampaignId : DeliveredAttempts(c)' = DeliveredAttempts(c)
    BY DEF DeliveriesKept, DeliveredAttempts
<1>2. \A a \in AttemptId : attempt[a].stage = "Delivered" => attempt'[a].ticket = attempt[a].ticket
    BY DEF DeliveriesKept
<1>3. ASSUME NEW c \in CampaignId
      PROVE  {attempt'[a].ticket : a \in DeliveredAttempts(c)'}
               = {attempt[a].ticket : a \in DeliveredAttempts(c)}
    BY <1>1, <1>2 DEF DeliveredAttempts
<1> QED BY <1>3 DEF Credit

\* Distinct tickets: a campaign has as many credits as delivered attempts.
LEMMA InjectiveImage ==
    ASSUME NEW S, IsFiniteSet(S), NEW f,
           \A x, y \in S : f[x].ticket = f[y].ticket => x = y
    PROVE  Cardinality({f[x].ticket : x \in S}) = Cardinality(S)
<1> DEFINE T == {f[x].ticket : x \in S}
           g == [x \in S |-> f[x].ticket]
<1>1. g \in Bijection(S, T)
    BY DEF Bijection, Injection, Surjection, IsInjective
<1>2. ExistsBijection(S, T)
    BY <1>1 DEF ExistsBijection
<1> QED BY <1>2, FS_Bijection

\* The phase a ticket state maps to.
LEMMA PhaseOfState ==
    ASSUME NEW state \in TicketState
    PROVE  /\ PhaseOf(state) = "Idle" <=> state \in {"Absent", "Proposed", "Blocked"}
           /\ PhaseOf(state) = "Ready" <=> state = "Sponsored"
           /\ PhaseOf(state) = "Working" <=> state = "InFlight"
           /\ PhaseOf(state) = "Delivered" <=> state = "Delivered"
           /\ PhaseOf(state) = "Closed" <=> state \in {"Resolved", "Rejected"}
BY DEF TicketState, PhaseOf

\* record_delivery is the contract's delivery: the completed campaign is the one
\* whose credits, one per distinct ticket, reach the target.
LEMMA DeliverEventRefines ==
    ASSUME TypeOK, RowLinks, DeliveredOnce', NEW k \in CandidateId, DeliverEvent(k)
    PROVE  Contract!ContractNext
<1>1. PICK a \in AttemptId : a = candidate[k].attempt
    BY DEF DeliverEvent
<1>2. /\ attempt[a].stage # "Absent" /\ TicketOf(a).state = "InFlight"
    BY <1>1 DEF DeliverEvent, Working
<1>3. PICK c \in CampaignId : c = attempt[a].campaign
    BY <1>2 DEF RowLinks, AttemptLinks
<1>4. PICK t \in TicketId : t = attempt[a].ticket
    BY <1>2 DEF RowLinks, AttemptLinks
<1>5. Phase[t] = "Working" /\ Phase' = [Phase EXCEPT ![t] = "Delivered"]
  <2>1. ticket[t].state = "InFlight" /\ TicketSet(t, "Delivered")
    BY <1>1, <1>2, <1>4 DEF DeliverEvent, TicketOf
  <2> QED BY <2>1, TicketSetPhase DEF PhaseOf, Phase
<1>6. /\ Status[c] = "Running"
      /\ Status' = IF TargetReached(c) THEN [Status EXCEPT ![c] = "Completed"] ELSE Status
  <2>1. /\ campaign[c].state = "Running"
        /\ \A d \in CampaignId : d # c => campaign'[d].state = campaign[d].state
        /\ campaign'[c].state = IF TargetReached(c) THEN "Completed" ELSE "Running"
    BY <1>1, <1>3 DEF DeliverEvent
  <2>2. Status' = [Status EXCEPT ![c] = StatusOf(campaign'[c].state)]
    BY <2>1, CampaignSetStatus
  <2>3. Status \in [CampaignId -> {StatusOf(state) : state \in CampaignState}]
    BY DEF Status, TypeOK, CampaignRow
  <2>4. Status[c] = "Running"
    BY <2>1 DEF Status, StatusOf
  <2>5. CASE TargetReached(c)
    BY <2>1, <2>2, <2>4, <2>5 DEF StatusOf
  <2>6. CASE ~TargetReached(c)
    <3>1. Status' = [Status EXCEPT ![c] = Status[c]]
      BY <2>1, <2>2, <2>4, <2>6 DEF StatusOf
    <3> QED BY <2>3, <2>4, <2>6, <3>1
  <2> QED BY <2>4, <2>5, <2>6
<1>7. /\ DeliveredAttempts(c)' = DeliveredAttempts(c) \cup {a}
      /\ \A d \in CampaignId : d # c => DeliveredAttempts(d)' = DeliveredAttempts(d)
    BY <1>1, <1>3, DeliveryAdds
<1>8. \A b \in AttemptId : attempt'[b].ticket = attempt[b].ticket
    BY <1>1 DEF DeliverEvent, AttemptSet
<1>9. Credit' = [Credit EXCEPT ![c] = @ \cup {t}]
  <2>1. {attempt'[b].ticket : b \in DeliveredAttempts(c)'} =
          {attempt[b].ticket : b \in DeliveredAttempts(c)} \cup {t}
    BY <1>4, <1>7, <1>8 DEF DeliveredAttempts
  <2>2. ASSUME NEW d \in CampaignId, d # c
        PROVE  {attempt'[b].ticket : b \in DeliveredAttempts(d)'} =
                 {attempt[b].ticket : b \in DeliveredAttempts(d)}
    BY <1>7, <1>8, <2>2 DEF DeliveredAttempts
  <2> QED BY <2>1, <2>2 DEF Credit
<1>10. Cardinality(Credit'[c]) = Cardinality(DeliveredAttempts(c)) + 1
  <2>1. a \notin DeliveredAttempts(c)
    BY <1>1 DEF DeliverEvent, DeliveredAttempts
  <2>2. IsFiniteSet(DeliveredAttempts(c))
    BY DeliveredAttemptsFinite
  <2>3. /\ IsFiniteSet(DeliveredAttempts(c)')
        /\ Cardinality(DeliveredAttempts(c)') = Cardinality(DeliveredAttempts(c)) + 1
    BY <1>7, <2>1, <2>2, FS_AddElement
  <2>4. \A b, e \in DeliveredAttempts(c)' : attempt'[b].ticket = attempt'[e].ticket => b = e
    BY DEF DeliveredOnce, DeliveredAttempts
  <2>5. Cardinality({attempt'[b].ticket : b \in DeliveredAttempts(c)'})
          = Cardinality(DeliveredAttempts(c)')
    BY <2>3, <2>4, InjectiveImage
  <2> QED BY <2>3, <2>5 DEF Credit
<1>11. Status' = IF Cardinality(Credit'[c]) >= DeliveryTarget
                 THEN [Status EXCEPT ![c] = "Completed"] ELSE Status
    BY <1>6, <1>10, Zenon DEF TargetReached
<1> QED BY <1>5, <1>6, <1>9, <1>11, DeliveryContractStep

\* Every other event is a campaign or ticket step of the contract, or invisible.
LEMMA EventRefines ==
    ASSUME TypeOK, RowLinks, DeliveredOnce', LifecycleEvent
    PROVE  Contract!ContractNext \/ UNCHANGED Contract!contractVars
<1>1. CASE \E k \in CandidateId : DeliverEvent(k)
    BY <1>1, DeliverEventRefines
<1>2. SUFFICES ASSUME DeliveriesKept, UNCHANGED Credit,
                      ~ \E k \in CandidateId : DeliverEvent(k)
               PROVE  Contract!ContractNext \/ UNCHANGED Contract!contractVars
    BY <1>1, OnlyDeliveriesCount, CreditKept
<1>3. ASSUME UNCHANGED <<ticket, campaign>>
      PROVE  UNCHANGED Contract!contractVars
    BY <1>2, <1>3, InvisibleStep DEF Phase, Status
<1>4. ASSUME NEW c \in CampaignId, CampaignEvent(c)
      PROVE  Contract!ContractNext \/ UNCHANGED Contract!contractVars
  <2>1. /\ UNCHANGED <<Phase, Credit>>
        /\ Status' = [Status EXCEPT ![c] = StatusOf(campaign'[c].state)]
    BY <1>2, <1>4, CampaignSetStatus DEF CampaignEvent, Phase
  <2>2. Status \in [CampaignId -> {StatusOf(state) : state \in CampaignState}]
    BY DEF Status, TypeOK, CampaignRow
  <2>3. Status[c] = StatusOf(campaign[c].state) /\ campaign[c].state \in CampaignState
    BY DEF Status, TypeOK, CampaignRow
  <2>4. CASE StatusOf(campaign'[c].state) = StatusOf(campaign[c].state)
    <3>1. UNCHANGED Status
      BY <2>1, <2>2, <2>3, <2>4
    <3> QED BY <2>1, <3>1, InvisibleStep
  <2>5. CASE /\ campaign[c].state = "Absent" /\ campaign'[c].state = "Running"
             /\ \A d \in CampaignId : campaign[d].state # "Running"
    <3>1. /\ Status[c] = "Absent"
          /\ \A d \in CampaignId : Status[d] # "Running"
          /\ Status' = [Status EXCEPT ![c] = "Running"]
      BY <2>1, <2>5 DEF Status, StatusOf
    <3> QED BY <2>1, <3>1, CampaignContractStep
  <2>6. CASE campaign[c].state = "Running" /\ campaign'[c].state \in {"Failed", "Cancelled"}
    <3>1. Status[c] = "Running" /\ Status' = [Status EXCEPT ![c] = "Stopped"]
      BY <2>1, <2>3, <2>6 DEF StatusOf
    <3> QED BY <2>1, <3>1, CampaignContractStep
  <2>7. CASE /\ campaign[c].state \in {"Failed", "Cancelled"}
             /\ campaign'[c].state \in {"Failed", "Cancelled"}
    BY <2>4, <2>7 DEF StatusOf
  <2> QED BY <1>4, <2>3, <2>4, <2>5, <2>6, <2>7 DEF CampaignEvent, CampaignState
<1>5. \A t \in TicketId : ticket[t].state \in TicketState /\ Phase[t] = PhaseOf(ticket[t].state)
    BY DEF TypeOK, TicketRow, Phase
<1>6. ASSUME NEW t \in TicketId, NEW state \in TicketState, TicketSet(t, state),
             UNCHANGED campaign,
             ticket[t].state \in {"Sponsored", "InFlight"},
             state \in {"Sponsored", "Resolved", "Blocked", "Rejected"}
      PROVE  Contract!ContractNext
  <2>1. Phase[t] \in {"Ready", "Working"}
    BY <1>5, <1>6, PhaseOfState
  <2>2. PhaseOf(state) \in {"Idle", "Ready", "Closed"}
    BY <1>6, PhaseOfState
  <2>3. Phase' = [Phase EXCEPT ![t] = PhaseOf(state)]
    BY <1>6, TicketSetPhase
  <2>4. UNCHANGED Status
    BY <1>6 DEF Status
  <2> QED BY <1>2, <2>1, <2>2, <2>3, <2>4, TicketContractStep
<1>7. ASSUME NEW t \in TicketId, NEW state \in TicketState, TicketEvent(t, state)
      PROVE  Contract!ContractNext \/ UNCHANGED Contract!contractVars
  <2>1. TicketSet(t, state) /\ UNCHANGED campaign
    BY <1>7 DEF TicketEvent
  <2>2. UNCHANGED Status /\ Phase' = [Phase EXCEPT ![t] = PhaseOf(state)]
    BY <2>1, TicketSetPhase DEF Status
  <2>3. CASE ticket[t].state = "Absent" /\ state = "Proposed"
    <3>1. PhaseOf(state) = Phase[t]
      BY <1>5, <2>3, PhaseOfState
    <3>2. UNCHANGED Phase
      BY <2>2, <3>1 DEF Phase
    <3> QED BY <1>2, <2>2, <3>2, InvisibleStep
  <2>4. CASE ticket[t].state \in {"Proposed", "Blocked"} /\ state = "Sponsored"
    <3>1. Phase[t] = "Idle" /\ PhaseOf(state) = "Ready"
      BY <1>5, <2>4, PhaseOfState
    <3> QED BY <1>2, <2>2, <3>1, TicketContractStep
  <2>5. CASE ticket[t].state = "Sponsored" /\ state \in {"Resolved", "Blocked"}
    BY <1>6, <2>1, <2>5
  <2> QED BY <1>7, <2>3, <2>4, <2>5 DEF TicketEvent
<1>8. ASSUME NEW t \in TicketId, NEW a \in AttemptId, NEW c \in CampaignId, ClaimEvent(t, a, c)
      PROVE  Contract!ContractNext
  <2>1. /\ ticket[t].state = "Sponsored" /\ campaign[c].state = "Running"
        /\ TicketsIn("InFlight") = {} /\ TicketSet(t, "InFlight") /\ UNCHANGED campaign
    BY <1>8 DEF ClaimEvent
  <2>2. Phase[t] = "Ready" /\ Status[c] = "Running"
    BY <1>5, <2>1, PhaseOfState DEF Status, StatusOf
  <2>3. \A u \in TicketId : Phase[u] # "Working"
    BY <1>5, <2>1, PhaseOfState DEF TicketsIn
  <2>4. UNCHANGED Status /\ Phase' = [Phase EXCEPT ![t] = "Working"]
    BY <2>1, TicketSetPhase DEF Status, PhaseOf
  <2> QED BY <1>2, <2>2, <2>3, <2>4, TicketContractStep
<1>9. ASSUME NEW a \in AttemptId, NEW state \in TicketState, ReleaseEvent(a, state)
      PROVE  Contract!ContractNext
    BY <1>6, <1>9 DEF ReleaseEvent, Working, TicketOf, RowLinks, AttemptLinks
<1>10. ASSUME NEW k \in CandidateId, RejectEvent(k)
      PROVE  Contract!ContractNext
    BY <1>6, <1>10 DEF RejectEvent, Working, TicketOf, RowLinks, AttemptLinks, TicketState
<1> QED
    BY <1>2, <1>3, <1>4, <1>7, <1>8, <1>9, <1>10
    DEF LifecycleEvent, StageEvent, SubmitEvent, AttachEvent, EvidenceEvent

\* Every store transaction, for every number of rows and every target, is a step
\* of the delivery contract or invisible to it.
THEOREM AuthorityImplementsContract == Spec => ImplementsContract
<1>1. Init => Contract!ContractInit
  <2> SUFFICES ASSUME Init PROVE Contract!ContractInit
      OBVIOUS
  <2>1. \A t \in TicketId : PhaseOf(ticket[t].state) = "Idle"
    BY DEF Init, NoTicket, PhaseOf
  <2>2. \A c \in CampaignId : StatusOf(campaign[c].state) = "Absent"
    BY DEF Init, NoCampaign, StatusOf
  <2>3. \A c \in CampaignId : {attempt[a].ticket : a \in DeliveredAttempts(c)} = {}
    BY DEF Init, NoAttempt, DeliveredAttempts
  <2> QED BY <2>1, <2>2, <2>3 DEF Contract!ContractInit
<1>2. TypeOK /\ RowLinks /\ DeliveredOnce' /\ [Next]_vars
        => [Contract!ContractNext]_Contract!contractVars
  <2> SUFFICES ASSUME TypeOK, RowLinks, DeliveredOnce', [Next]_vars
               PROVE  Contract!ContractNext \/ UNCHANGED Contract!contractVars
      OBVIOUS
  <2>1. CASE Next
    BY <2>1, StepIsEvent, EventRefines
  <2>2. CASE UNCHANGED vars
    BY <2>2, InvisibleStep DEF vars, Phase, Status, Credit, DeliveredAttempts
  <2> QED BY <2>1, <2>2
<1> QED
    BY <1>1, <1>2, TypeCorrect, RowLinksInvariant, DeliveryHappensOnce, PTL
    DEF Spec, ImplementsContract, Contract!ContractSpec
=============================================================================
