-------------------------- MODULE FactoryAuthority --------------------------
(***************************************************************************)
(* The SQL authority of the Factory V3 control plane: the lifecycle rows   *)
(* (campaigns, tickets, ticket attempts, candidates with their validations,*)
(* reviews and decisions, assignments with their sessions) and the store   *)
(* transactions that are allowed to change them.                           *)
(*                                                                         *)
(* Every store operation of ticket_store.rs, decision_store.rs and         *)
(* process.rs runs in one PostgreSQL transaction that locks the rows it    *)
(* reads, so each one is a single action.  Its guards are the operation's  *)
(* checks plus the schema's unique indexes and CHECK constraints; a        *)
(* rejected command leaves every row alone and is a stuttering step.       *)
(*                                                                         *)
(* The specification here is the authority under its most general client:  *)
(* any caller may issue any command at any time.  FactoryControl composes  *)
(* it with the callers that exist (campaign driver, paid sessions,         *)
(* operator, daemon restart).                                              *)
(*                                                                         *)
(* One application revision is modelled.  Row identifiers are allocated in *)
(* increasing order, as the identity columns do; 0 is SQL NULL.            *)
(***************************************************************************)
EXTENDS Naturals, FiniteSets

CONSTANTS
    MaxCampaigns,    \* bound on campaign rows
    MaxTickets,      \* bound on ticket rows
    MaxAttempts,     \* bound on ticket attempt rows
    MaxCandidates,   \* bound on candidate rows
    MaxSessions,     \* bound on assignment rows; each has at most one session
    DeliveryTarget,  \* campaigns.delivery_target, the same for every campaign
    ProposalMaximum  \* application_revisions.proposal_maximum

ASSUME BoundsAssumption ==
    /\ MaxCampaigns \in Nat /\ MaxTickets \in Nat /\ MaxAttempts \in Nat
    /\ MaxCandidates \in Nat /\ MaxSessions \in Nat

ASSUME PolicyAssumption ==
    DeliveryTarget \in Nat \ {0} /\ ProposalMaximum \in Nat

\* IN_FLIGHT_TICKET_MAXIMUM
InFlightTicketMaximum == 1

VARIABLES
    campaign,      \* factory.campaigns
    deadlineOpen,  \* campaigns.deadline > CURRENT_TIMESTAMP
    ticket,        \* factory.tickets with the current ticket_revisions row
    attempt,       \* factory.ticket_attempts
    candidate,     \* factory.candidates, validations, reviews, decisions, deliveries
    session        \* factory.assignments with the sessions row of each

vars == <<campaign, deadlineOpen, ticket, attempt, candidate, session>>

-----------------------------------------------------------------------------
(* Rows                                                                    *)

CampaignId  == 1..MaxCampaigns
TicketId    == 1..MaxTickets
AttemptId   == 1..MaxAttempts
CandidateId == 1..MaxCandidates
SessionId   == 1..MaxSessions

CampaignState  == {"Absent", "Running", "Completed", "Failed", "Cancelled"}
CostState      == {"Known", "Unknown", "Exceeded"}
TicketState    == {"Absent", "Proposed", "Sponsored", "InFlight", "Delivered",
                   "Blocked", "Resolved", "Rejected"}
EngineeringStage == {"Engineering", "ReworkEngineering"}
HardStage        == {"HardValidation", "ReworkValidation"}
QualityStage     == {"Quality", "ReworkQuality"}
\* stage BETWEEN ATTEMPT_HARD_VALIDATION AND ATTEMPT_REWORK_QUALITY
DownstreamStage  == HardStage \cup QualityStage
                      \cup {"AwaitingArchitect", "ReworkEngineering"}
OpenStage        == DownstreamStage \cup {"Engineering"}
AttemptStage     == OpenStage \cup {"Absent", "Delivered", "Failed"}
CandidateState   == {"Absent", "Submitted", "Validated", "Rejected",
                     "Accepted", "Delivered"}
ValidationState  == {"None", "Passed", "NotPassed"}
ReviewState      == {"None", "Accept", "Reject"}
Decision         == {"Deliver", "Rework", "Reject"}
Office           == {"Product", "Engineering", "Quality"}
SessionTerminal  == {"Succeeded", "Failed", "Cancelled", "Interrupted"}
SessionState     == SessionTerminal \cup {"Absent", "Prepared", "Running"}

CampaignRow  == [state : CampaignState, cost : CostState, rev : Nat]
TicketRow    == [state : TicketState, rev : Nat]
AttemptRow   == [stage : AttemptStage, ticket : TicketId \cup {0},
                 campaign : CampaignId \cup {0}, released : BOOLEAN,
                 rework : Nat, engineeringRetried : BOOLEAN,
                 qualityRetried : BOOLEAN, rev : Nat]
CandidateRow == [state : CandidateState, attempt : AttemptId \cup {0},
                 engineeringSession : SessionId \cup {0}, commit : BOOLEAN,
                 hard : ValidationState, quality : ValidationState,
                 review : ReviewState, qualitySession : SessionId \cup {0},
                 decision : Decision \cup {"None"}, override : BOOLEAN, rev : Nat]
SessionRow   == [state : SessionState, office : Office,
                 campaign : CampaignId \cup {0}, attempt : AttemptId \cup {0},
                 candidate : CandidateId \cup {0}]

NoCampaign  == [state |-> "Absent", cost |-> "Known", rev |-> 0]
NoTicket    == [state |-> "Absent", rev |-> 0]
NoAttempt   == [stage |-> "Absent", ticket |-> 0, campaign |-> 0,
                released |-> FALSE, rework |-> 0, engineeringRetried |-> FALSE,
                qualityRetried |-> FALSE, rev |-> 0]
NoCandidate == [state |-> "Absent", attempt |-> 0, engineeringSession |-> 0,
                commit |-> FALSE, hard |-> "None", quality |-> "None",
                review |-> "None", qualitySession |-> 0, decision |-> "None",
                override |-> FALSE, rev |-> 0]
NoSession   == [state |-> "Absent", office |-> "Product", campaign |-> 0,
                attempt |-> 0, candidate |-> 0]

Init ==
    /\ campaign = [c \in CampaignId |-> NoCampaign]
    /\ deadlineOpen = [c \in CampaignId |-> TRUE]
    /\ ticket = [t \in TicketId |-> NoTicket]
    /\ attempt = [a \in AttemptId |-> NoAttempt]
    /\ candidate = [k \in CandidateId |-> NoCandidate]
    /\ session = [s \in SessionId |-> NoSession]

-----------------------------------------------------------------------------
(* Reads shared by the transactions                                        *)

FreshCampaign(c)  == /\ campaign[c].state = "Absent"
                     /\ \A d \in CampaignId : d < c => campaign[d].state # "Absent"
FreshTicket(t)    == /\ ticket[t].state = "Absent"
                     /\ \A u \in TicketId : u < t => ticket[u].state # "Absent"
FreshAttempt(a)   == /\ attempt[a].stage = "Absent"
                     /\ \A b \in AttemptId : b < a => attempt[b].stage # "Absent"
FreshCandidate(k) == /\ candidate[k].state = "Absent"
                     /\ \A j \in CandidateId : j < k => candidate[j].state # "Absent"
FreshSession(s)   == /\ session[s].state = "Absent"
                     /\ \A r \in SessionId : r < s => session[r].state # "Absent"

Running(s) == session[s].state = "Running"

\* SELECT EXISTS (SELECT 1 FROM factory.sessions WHERE lifecycle = RUNNING)
PaidSessionActive == \E s \in SessionId : Running(s)

CampaignSessionActive(c) ==
    \E s \in SessionId : Running(s) /\ session[s].campaign = c

TicketsIn(state) == {t \in TicketId : ticket[t].state = state}

TicketOf(a)   == ticket[attempt[a].ticket]

DeliveredAttempts(c) ==
    {a \in AttemptId : attempt[a].stage = "Delivered" /\ attempt[a].campaign = c}

HasCandidate(a) == \E k \in CandidateId : candidate[k].attempt = a

\* require_session: the performer is a viable session of the attempt's
\* campaign in the required office.
RequireSession(s, c, office) ==
    /\ session[s].campaign = c
    /\ session[s].office = office
    /\ session[s].state \in {"Running", "Succeeded"}

-----------------------------------------------------------------------------
(* process.rs: campaigns, assignments and sessions                         *)

\* start_campaign.  campaigns_one_running admits one Running row.
StartCampaign(c) ==
    /\ FreshCampaign(c)
    /\ \A d \in CampaignId : campaign[d].state # "Running"
    /\ campaign' = [campaign EXCEPT ![c] = [NoCampaign EXCEPT !.state = "Running"]]
    /\ UNCHANGED <<deadlineOpen, ticket, attempt, candidate, session>>

\* The wall clock passes campaigns.deadline.  No row is written.
DeadlineElapses(c) ==
    /\ campaign[c].state = "Running"
    /\ deadlineOpen[c]
    /\ deadlineOpen' = [deadlineOpen EXCEPT ![c] = FALSE]
    /\ UNCHANGED <<campaign, ticket, attempt, candidate, session>>

CloseCampaign(c, state) ==
    /\ campaign' = [campaign EXCEPT ![c].state = state, ![c].rev = @ + 1]
    /\ UNCHANGED <<deadlineOpen, ticket, attempt, candidate, session>>

\* admit_campaign_cancellation when no session of the campaign is running.
CancelCampaign(c, expected) ==
    /\ campaign[c].rev = expected
    /\ campaign[c].state = "Running"
    /\ ~CampaignSessionActive(c)
    /\ CloseCampaign(c, "Cancelled")

\* finish_campaign_cancellation.  The reconciled session is proved by the
\* capability its reconciliation minted, not by rereading the session row.
FinishCampaignCancellation(c, reconciledRevision) ==
    /\ \E s \in SessionId :
          session[s].campaign = c /\ session[s].state \in SessionTerminal
    /\ campaign[c].state = "Running"
    /\ campaign[c].rev = reconciledRevision
    /\ CloseCampaign(c, "Cancelled")

\* fail_campaign refuses to race a paid session.
FailCampaign(c, expected) ==
    /\ campaign[c].rev = expected
    /\ campaign[c].state = "Running"
    /\ ~CampaignSessionActive(c)
    /\ CloseCampaign(c, "Failed")

\* validate_assignment_target_in_transaction
AssignmentTargetExists(c, office, a, k) ==
    \/ office = "Product" /\ a = 0 /\ k = 0
    \/ /\ office = "Engineering" /\ a \in AttemptId /\ k = 0
       /\ attempt[a].campaign = c
       /\ attempt[a].stage \in EngineeringStage
    \/ /\ office = "Quality" /\ a \in AttemptId /\ k \in CandidateId
       /\ candidate[k].attempt = a
       /\ attempt[a].campaign = c
       /\ candidate[k].state = "Validated"
       /\ candidate[k].commit
       /\ \/ attempt[a].stage \in QualityStage
          \/ /\ attempt[a].stage = "AwaitingArchitect"
             /\ candidate[k].quality = "Passed"
             /\ candidate[k].review = "None"

\* create_assignment: the row is Prepared and the campaign revision advances.
CreateAssignment(s, c, expected, office, a, k) ==
    /\ FreshSession(s)
    /\ campaign[c].rev = expected
    /\ campaign[c].state = "Running"
    /\ deadlineOpen[c]
    /\ campaign[c].cost = "Known"
    /\ AssignmentTargetExists(c, office, a, k)
    /\ session' = [session EXCEPT ![s] =
                     [state |-> "Prepared", office |-> office, campaign |-> c,
                      attempt |-> a, candidate |-> k]]
    /\ campaign' = [campaign EXCEPT ![c].rev = @ + 1]
    /\ UNCHANGED <<deadlineOpen, ticket, attempt, candidate>>

\* Mutant: the campaign is not read again when the host has been spawned.
StartSessionUnfunded(s) ==
    /\ session[s].state = "Prepared"
    /\ ~PaidSessionActive
    /\ session' = [session EXCEPT ![s].state = "Running"]
    /\ UNCHANGED <<campaign, deadlineOpen, ticket, attempt, candidate>>

\* start_session registers custody of the spawned host.  The target of the
\* assignment is not read again; sessions_one_running_paid backs the check.
StartSession(s) ==
    /\ session[s].state = "Prepared"
    /\ campaign[session[s].campaign].state = "Running"
    /\ campaign[session[s].campaign].cost = "Known"
    /\ deadlineOpen[session[s].campaign]
    /\ ~PaidSessionActive
    /\ session' = [session EXCEPT ![s].state = "Running"]
    /\ UNCHANGED <<campaign, deadlineOpen, ticket, attempt, candidate>>

\* session_state: the lifecycle each class of stop reason leads to.  Deadline
\* and DaemonDisconnected are "Interrupted"; the other faults are "Faulted".
StopReason == {"Completed", "Cancelled", "CostLimit", "Interrupted", "Faulted"}

\* Mutant: the stop reason is stored where the lifecycle belongs.
StopReasonAsState(stop) == stop

SessionStateOf(stop) ==
    CASE stop = "Completed"   -> "Succeeded"
      [] stop = "Cancelled"   -> "Cancelled"
      [] stop = "Interrupted" -> "Interrupted"
      [] OTHER                -> "Failed"

\* The verified cost of a session: "Within" and "Over" are exact costs that
\* leave the campaign total within, or take it over, the aggregate budget.
SessionCost == {"Within", "Over", "Unknown"}

\* The cost and lifecycle terminal_session writes to the campaign row r.
SettledCampaign(r, stop, cost) ==
    CASE cost = "Unknown" /\ stop = "Cancelled" ->
            [r EXCEPT !.cost = IF @ = "Exceeded" THEN @ ELSE "Unknown"]
      [] cost = "Unknown" /\ stop # "Cancelled" ->
            [r EXCEPT !.cost = IF @ = "Exceeded" THEN @ ELSE "Unknown",
                      !.state = "Failed"]
      [] cost # "Unknown" /\ stop = "CostLimit" ->
            [r EXCEPT !.cost = "Exceeded", !.state = "Failed"]
      [] cost = "Over" /\ stop # "CostLimit" /\ r.cost = "Known" ->
            [r EXCEPT !.cost = "Exceeded", !.state = "Failed"]
      [] OTHER -> r

\* terminal_session settles session, assignment and campaign together.
TerminalSession(s, stop, cost) ==
    LET c == session[s].campaign
        settled == SettledCampaign(campaign[c], stop, cost)
    IN
    /\ Running(s)
    /\ session' = [session EXCEPT ![s].state = SessionStateOf(stop)]
    /\ campaign' = [campaign EXCEPT ![c] = [settled EXCEPT !.rev = settled.rev + 1]]
    /\ UNCHANGED <<deadlineOpen, ticket, attempt, candidate>>

-----------------------------------------------------------------------------
(* ticket_store.rs: proposals, claims, failures and bounded retries        *)

\* submit_ticket_proposal: an application-wide count guards the buffer.
SubmitTicketProposal(t) ==
    /\ FreshTicket(t)
    /\ Cardinality(TicketsIn("Proposed")) < ProposalMaximum
    /\ ticket' = [ticket EXCEPT ![t] = [NoTicket EXCEPT !.state = "Proposed"]]
    /\ UNCHANGED <<campaign, deadlineOpen, attempt, candidate, session>>

MoveTicket(t, state) ==
    ticket' = [ticket EXCEPT ![t].state = state, ![t].rev = @ + 1]

\* Mutant: a ticket that requalification resolved can be sponsored again.
SponsorableAfterResolution(state) == state \in {"Proposed", "Blocked", "Resolved"}

\* require_sponsorable
Sponsorable(state) == state \in {"Proposed", "Blocked"}

\* decision_store.rs sponsor_ticket, the path the operator RPC takes.
SponsorTicket(t, expected) ==
    /\ ticket[t].rev = expected
    /\ Sponsorable(ticket[t].state)
    /\ MoveTicket(t, "Sponsored")
    /\ UNCHANGED <<campaign, deadlineOpen, attempt, candidate, session>>

\* classify_requalification: what the two current-head observations show.
Requalification == {"Reproduced", "Resolved", "Diverged"}

\* Mutant: the limit is compared with <=.
ClaimCapacityOffByOne == Cardinality(TicketsIn("InFlight")) <= InFlightTicketMaximum

\* The application has room for one more claimed ticket.
ClaimCapacity == Cardinality(TicketsIn("InFlight")) < InFlightTicketMaximum

\* claim_sponsored_ticket with validate_claim_campaign.  The campaign row is
\* read FOR SHARE and not written.
ClaimSponsoredTicket(t, a, c, expectedTicket, expectedCampaign, outcome) ==
    /\ ticket[t].rev = expectedTicket
    /\ ticket[t].state = "Sponsored"
    /\ campaign[c].rev = expectedCampaign
    /\ campaign[c].state = "Running"
    /\ deadlineOpen[c]
    /\ campaign[c].cost = "Known"
    /\ ClaimCapacity
    /\ ~PaidSessionActive
    /\ \/ /\ outcome = "Reproduced"
          /\ FreshAttempt(a)
          \* ticket_attempts_one_unreleased_revision
          /\ \A b \in AttemptId : attempt[b].ticket = t => attempt[b].released
          /\ attempt' = [attempt EXCEPT ![a] =
                           [NoAttempt EXCEPT !.stage = "Engineering",
                                             !.ticket = t, !.campaign = c]]
          /\ MoveTicket(t, "InFlight")
       \/ /\ outcome = "Resolved"
          /\ MoveTicket(t, "Resolved")
          /\ UNCHANGED attempt
       \/ /\ outcome = "Diverged"
          /\ MoveTicket(t, "Blocked")
          /\ UNCHANGED attempt
    /\ UNCHANGED <<campaign, deadlineOpen, candidate, session>>

\* Mutant: the ticket state is not checked.
AttemptFenceAnyTicket(a, expectedAttempt, expectedTicket) ==
    /\ attempt[a].stage # "Absent"
    /\ attempt[a].rev = expectedAttempt
    /\ TicketOf(a).rev = expectedTicket

\* Revision fences and the ticket state every attempt command checks.
AttemptFence(a, expectedAttempt, expectedTicket) ==
    /\ attempt[a].stage # "Absent"
    /\ attempt[a].rev = expectedAttempt
    /\ TicketOf(a).rev = expectedTicket
    /\ TicketOf(a).state = "InFlight"

\* What fail_ticket_attempt admits.
CanFail(a, expectedAttempt, expectedTicket) ==
    /\ AttemptFence(a, expectedAttempt, expectedTicket)
    /\ attempt[a].stage \in OpenStage

\* fail_ticket_attempt
FailTicketAttempt(a, expectedAttempt, expectedTicket) ==
    /\ CanFail(a, expectedAttempt, expectedTicket)
    /\ attempt' = [attempt EXCEPT ![a].stage = "Failed", ![a].rev = @ + 1]
    /\ UNCHANGED <<campaign, deadlineOpen, ticket, candidate, session>>

\* Mutant: a candidate that was rejected can go back to Quality.
CanRetryRejected(a, k) ==
    /\ attempt[a].stage \in {"Quality", "Failed"}
    /\ candidate[k].commit
    /\ ~attempt[a].qualityRetried

\* can_retry_quality_attempt
CanRetryQuality(a, k) ==
    /\ attempt[a].stage \in {"Quality", "Failed"}
    /\ candidate[k].state = "Validated"
    /\ candidate[k].commit
    /\ ~attempt[a].qualityRetried

\* Mutant: the retry leaves no audit row.
RetryQualityUnrecorded(a, k, expectedAttempt, expectedTicket) ==
    /\ AttemptFence(a, expectedAttempt, expectedTicket)
    /\ candidate[k].attempt = a
    /\ CanRetryQuality(a, k)
    /\ attempt' = [attempt EXCEPT ![a].stage = "ReworkQuality", ![a].rev = @ + 1]
    /\ UNCHANGED <<campaign, deadlineOpen, ticket, candidate, session>>

\* retry_quality_attempt; the audit row of a prior retry is qualityRetried.
RetryQualityAttempt(a, k, expectedAttempt, expectedTicket) ==
    /\ AttemptFence(a, expectedAttempt, expectedTicket)
    /\ candidate[k].attempt = a
    /\ CanRetryQuality(a, k)
    /\ attempt' = [attempt EXCEPT ![a].stage = "ReworkQuality",
                                  ![a].qualityRetried = TRUE, ![a].rev = @ + 1]
    /\ UNCHANGED <<campaign, deadlineOpen, ticket, candidate, session>>

\* retry_engineering_attempt with can_retry_engineering_attempt
RetryEngineeringAttempt(a, expectedAttempt, expectedTicket) ==
    /\ AttemptFence(a, expectedAttempt, expectedTicket)
    /\ ~attempt[a].released
    /\ attempt[a].stage = "Failed"
    /\ campaign[attempt[a].campaign].state = "Running"
    /\ campaign[attempt[a].campaign].cost = "Known"
    /\ ~HasCandidate(a)
    /\ ~attempt[a].engineeringRetried
    /\ attempt' = [attempt EXCEPT ![a].stage = "Engineering",
                                  ![a].engineeringRetried = TRUE, ![a].rev = @ + 1]
    /\ UNCHANGED <<campaign, deadlineOpen, ticket, candidate, session>>

-----------------------------------------------------------------------------
(* decision_store.rs: candidates, evidence, decisions and delivery         *)

\* Mutant: the ticket is released and its attempt is not.
ReleaseTicketOnly(a, expectedAttempt, expectedTicket, outcome) ==
    /\ AttemptFence(a, expectedAttempt, expectedTicket)
    /\ attempt[a].stage = "Failed"
    /\ outcome = "Reproduced" /\ MoveTicket(attempt[a].ticket, "Sponsored")
    /\ UNCHANGED <<campaign, deadlineOpen, attempt, candidate, session>>

\* release_ticket_attempt: an explicit operator release of a failed attempt.
ReleaseTicketAttempt(a, expectedAttempt, expectedTicket, outcome) ==
    /\ AttemptFence(a, expectedAttempt, expectedTicket)
    /\ ~attempt[a].released
    /\ attempt[a].stage = "Failed"
    /\ attempt' = [attempt EXCEPT ![a].released = TRUE, ![a].rev = @ + 1]
    /\ \/ outcome = "Reproduced" /\ MoveTicket(attempt[a].ticket, "Sponsored")
       \/ outcome = "Resolved" /\ MoveTicket(attempt[a].ticket, "Resolved")
       \/ outcome = "Diverged" /\ MoveTicket(attempt[a].ticket, "Blocked")
    /\ UNCHANGED <<campaign, deadlineOpen, candidate, session>>

\* submit_candidate; candidates.engineering_session_id is UNIQUE.
SubmitCandidate(k, a, s, expectedAttempt, expectedTicket) ==
    /\ FreshCandidate(k)
    /\ AttemptFence(a, expectedAttempt, expectedTicket)
    /\ attempt[a].stage \in EngineeringStage
    /\ RequireSession(s, attempt[a].campaign, "Engineering")
    /\ \A j \in CandidateId : candidate[j].engineeringSession # s
    /\ candidate' = [candidate EXCEPT ![k] =
                       [NoCandidate EXCEPT !.state = "Submitted", !.attempt = a,
                                           !.engineeringSession = s]]
    /\ attempt' = [attempt EXCEPT
                     ![a].stage = IF @ = "Engineering" THEN "HardValidation"
                                                       ELSE "ReworkValidation",
                     ![a].rev = @ + 1]
    /\ UNCHANGED <<campaign, deadlineOpen, ticket, session>>

\* record_validation of scope HardCandidate
RecordHardValidation(k, s, expectedCandidate, expectedAttempt, result) ==
    LET a == candidate[k].attempt IN
    /\ candidate[k].state = "Submitted"
    /\ candidate[k].rev = expectedCandidate
    /\ attempt[a].rev = expectedAttempt
    /\ TicketOf(a).state = "InFlight"
    /\ attempt[a].stage \in HardStage
    /\ RequireSession(s, attempt[a].campaign, "Engineering")
    /\ candidate[k].hard = "None"
    /\ candidate' = [candidate EXCEPT
                       ![k].hard = result,
                       ![k].state = IF result = "Passed" THEN "Validated" ELSE "Rejected",
                       ![k].rev = @ + 1]
    /\ attempt' = [attempt EXCEPT
                     ![a].stage = IF result # "Passed" THEN "Failed"
                                  ELSE IF @ = "HardValidation" THEN "Quality"
                                                               ELSE "ReworkQuality",
                     ![a].rev = @ + 1]
    /\ UNCHANGED <<campaign, deadlineOpen, ticket, session>>

\* Mutant: the candidate keeps its revision.
AttachCandidateCommitSilently(k, expectedCandidate) ==
    /\ candidate[k].state = "Validated"
    /\ candidate[k].rev = expectedCandidate
    /\ ~candidate[k].commit
    /\ candidate[k].hard = "Passed"
    /\ candidate' = [candidate EXCEPT ![k].commit = TRUE]
    /\ UNCHANGED <<campaign, deadlineOpen, ticket, attempt, session>>

\* attach_candidate_commit; neither the stage nor the ticket is checked.
AttachCandidateCommit(k, expectedCandidate) ==
    /\ candidate[k].state = "Validated"
    /\ candidate[k].rev = expectedCandidate
    /\ ~candidate[k].commit
    /\ candidate[k].hard = "Passed"
    /\ candidate' = [candidate EXCEPT ![k].commit = TRUE, ![k].rev = @ + 1]
    /\ UNCHANGED <<campaign, deadlineOpen, ticket, attempt, session>>

\* Mutant: a second suite result replaces the first.
QualityReceiptReplaced(k) == k \in CandidateId

\* validation_exists: one receipt for a candidate and scope
NoQualityReceipt(k) == candidate[k].quality = "None"

\* record_validation of scope QualityFullSuite
RecordQualityValidation(k, s, expectedCandidate, expectedAttempt, result) ==
    LET a == candidate[k].attempt IN
    /\ candidate[k].state = "Validated"
    /\ candidate[k].rev = expectedCandidate
    /\ attempt[a].rev = expectedAttempt
    /\ TicketOf(a).state = "InFlight"
    /\ attempt[a].stage \in QualityStage
    /\ RequireSession(s, attempt[a].campaign, "Quality")
    /\ NoQualityReceipt(k)
    /\ candidate' = [candidate EXCEPT
                       ![k].quality = result,
                       ![k].state = IF result = "Passed" THEN "Validated" ELSE "Rejected",
                       ![k].rev = @ + 1]
    /\ attempt' = [attempt EXCEPT
                     ![a].stage = IF result = "Passed" THEN "AwaitingArchitect"
                                                       ELSE "Failed",
                     ![a].rev = @ + 1]
    /\ UNCHANGED <<campaign, deadlineOpen, ticket, session>>

\* submit_quality_review; one review per candidate and one per session
\* (reviews.quality_session_id is UNIQUE), and the stage is kept.
SubmitQualityReview(k, s, expectedCandidate, expectedAttempt, verdict) ==
    LET a == candidate[k].attempt IN
    /\ candidate[k].state = "Validated"
    /\ candidate[k].rev = expectedCandidate
    /\ candidate[k].commit
    /\ attempt[a].rev = expectedAttempt
    /\ attempt[a].stage = "AwaitingArchitect"
    /\ candidate[k].quality = "Passed"
    /\ RequireSession(s, attempt[a].campaign, "Quality")
    /\ candidate[k].review = "None"
    /\ \A j \in CandidateId : candidate[j].qualitySession # s
    /\ candidate' = [candidate EXCEPT ![k].review = verdict, ![k].qualitySession = s,
                                      ![k].rev = @ + 1]
    /\ attempt' = [attempt EXCEPT ![a].rev = @ + 1]
    /\ UNCHANGED <<campaign, deadlineOpen, ticket, session>>

\* Mutant: the review is not awaited.
DecisionWithoutReview(k, decision, override) ==
    /\ candidate[k].hard = "Passed"
    /\ candidate[k].quality = "Passed"
    /\ IF decision = "Deliver" THEN override = (candidate[k].review = "Reject") ELSE ~override

\* The evidence a decision needs.  insert_decision stores
\* overrides_quality_rejection for every decision on a rejected review, and
\* the schema CHECK admits that flag on a Deliver only.
DecisionAdmitted(k, decision, override) ==
    /\ candidate[k].hard = "Passed"
    /\ candidate[k].quality = "Passed"
    /\ candidate[k].review # "None"
    /\ IF decision = "Deliver" THEN override = (candidate[k].review = "Reject") ELSE ~override
    /\ decision = "Rework" => attempt[candidate[k].attempt].rework = 0
    /\ candidate[k].review = "Reject" => decision = "Deliver"

\* decide_candidate
DecideCandidate(k, decision, override, expectedCandidate, expectedAttempt, expectedTicket) ==
    LET a == candidate[k].attempt IN
    /\ candidate[k].state = "Validated"
    /\ candidate[k].rev = expectedCandidate
    /\ candidate[k].commit
    /\ AttemptFence(a, expectedAttempt, expectedTicket)
    /\ attempt[a].stage = "AwaitingArchitect"
    /\ DecisionAdmitted(k, decision, override)
    /\ candidate' = [candidate EXCEPT
                       ![k].state = IF decision = "Deliver" THEN "Accepted" ELSE "Rejected",
                       ![k].decision = decision, ![k].override = candidate[k].review = "Reject",
                       ![k].rev = @ + 1]
    /\ \/ /\ decision = "Deliver"
          /\ attempt' = [attempt EXCEPT ![a].rev = @ + 1]
          /\ UNCHANGED ticket
       \/ /\ decision = "Rework"
          /\ attempt' = [attempt EXCEPT ![a].stage = "ReworkEngineering",
                                        ![a].rework = @ + 1, ![a].rev = @ + 1]
          /\ UNCHANGED ticket
       \/ /\ decision = "Reject"
          /\ attempt' = [attempt EXCEPT ![a].stage = "Failed", ![a].rev = @ + 1]
          /\ MoveTicket(attempt[a].ticket, "Rejected")
    /\ UNCHANGED <<campaign, deadlineOpen, session>>

\* Mutants: the delivery being recorded is not counted, or counted twice.
TargetReachedLate(c)  == Cardinality(DeliveredAttempts(c)) >= DeliveryTarget
TargetReachedEarly(c) == Cardinality(DeliveredAttempts(c)) + 2 >= DeliveryTarget

TargetReached(c) == Cardinality(DeliveredAttempts(c)) + 1 >= DeliveryTarget

\* record_delivery: the campaign completes in the same transaction when its
\* delivery target is reached, and is otherwise left alone.
RecordDelivery(k, expectedCandidate, expectedAttempt, expectedTicket, expectedCampaign) ==
    LET a == candidate[k].attempt
        c == attempt[a].campaign
    IN
    /\ candidate[k].state = "Accepted"
    /\ candidate[k].rev = expectedCandidate
    /\ candidate[k].commit
    /\ AttemptFence(a, expectedAttempt, expectedTicket)
    /\ attempt[a].stage = "AwaitingArchitect"
    /\ candidate[k].decision = "Deliver"
    /\ campaign[c].rev = expectedCampaign
    /\ campaign[c].state = "Running"
    /\ campaign[c].cost = "Known"
    /\ ~PaidSessionActive
    /\ candidate' = [candidate EXCEPT ![k].state = "Delivered", ![k].rev = @ + 1]
    /\ attempt' = [attempt EXCEPT ![a].stage = "Delivered", ![a].rev = @ + 1]
    /\ MoveTicket(attempt[a].ticket, "Delivered")
    /\ campaign' = IF TargetReached(c)
                   THEN [campaign EXCEPT ![c].state = "Completed", ![c].rev = @ + 1]
                   ELSE campaign
    /\ UNCHANGED <<deadlineOpen, session>>

-----------------------------------------------------------------------------
(* The most general client: any command, with the revisions it reads now.  *)

CampaignStep ==
    \E c \in CampaignId :
      \/ StartCampaign(c)
      \/ DeadlineElapses(c)
      \/ CancelCampaign(c, campaign[c].rev)
      \/ FinishCampaignCancellation(c, campaign[c].rev)
      \/ FailCampaign(c, campaign[c].rev)

SessionStep ==
    \E s \in SessionId :
      \/ \E c \in CampaignId, office \in Office,
            a \in AttemptId \cup {0}, k \in CandidateId \cup {0} :
           CreateAssignment(s, c, campaign[c].rev, office, a, k)
      \/ StartSession(s)
      \/ \E stop \in StopReason, cost \in SessionCost : TerminalSession(s, stop, cost)

TicketStep ==
    \E t \in TicketId :
      \/ SubmitTicketProposal(t)
      \/ SponsorTicket(t, ticket[t].rev)
      \/ \E a \in AttemptId, c \in CampaignId, outcome \in Requalification :
           ClaimSponsoredTicket(t, a, c, ticket[t].rev, campaign[c].rev, outcome)

AttemptStep ==
    \E a \in AttemptId :
      \/ FailTicketAttempt(a, attempt[a].rev, TicketOf(a).rev)
      \/ \E k \in CandidateId :
           RetryQualityAttempt(a, k, attempt[a].rev, TicketOf(a).rev)
      \/ RetryEngineeringAttempt(a, attempt[a].rev, TicketOf(a).rev)
      \/ \E outcome \in Requalification :
           ReleaseTicketAttempt(a, attempt[a].rev, TicketOf(a).rev, outcome)
      \/ \E k \in CandidateId, s \in SessionId :
           SubmitCandidate(k, a, s, attempt[a].rev, TicketOf(a).rev)

CandidateStep ==
    \E k \in CandidateId :
      LET a == candidate[k].attempt IN
      \/ AttachCandidateCommit(k, candidate[k].rev)
      \/ \E s \in SessionId, result \in {"Passed", "NotPassed"} :
           \/ RecordHardValidation(k, s, candidate[k].rev, attempt[a].rev, result)
           \/ RecordQualityValidation(k, s, candidate[k].rev, attempt[a].rev, result)
      \/ \E s \in SessionId, verdict \in {"Accept", "Reject"} :
           SubmitQualityReview(k, s, candidate[k].rev, attempt[a].rev, verdict)
      \/ \E decision \in Decision, override \in BOOLEAN :
           DecideCandidate(k, decision, override,
                           candidate[k].rev, attempt[a].rev, TicketOf(a).rev)
      \/ RecordDelivery(k, candidate[k].rev, attempt[a].rev, TicketOf(a).rev,
                        campaign[attempt[a].campaign].rev)

Next == CampaignStep \/ SessionStep \/ TicketStep \/ AttemptStep \/ CandidateStep

Spec == Init /\ [][Next]_vars

-----------------------------------------------------------------------------
(* Derived views                                                           *)

CandidatesOf(a) == {k \in CandidateId : candidate[k].attempt = a}

\* ORDER BY created_at DESC, id DESC LIMIT 1
IsLatestCandidate(k, a) ==
    k \in CandidatesOf(a) /\ \A j \in CandidatesOf(a) : j <= k

\* DownstreamActionStage::from_attempt_and_candidate; "None" is the head the
\* scheduler refuses to act on.
DownstreamAction(stage, r) ==
    CASE stage = "HardValidation" /\ r.state = "Submitted" -> "HardValidation"
      [] stage = "ReworkValidation" /\ r.state = "Submitted" -> "ReworkValidation"
      [] stage \in QualityStage /\ r.state = "Validated" ->
            IF r.commit THEN stage ELSE "CandidateCommitAttachRequired"
      [] stage = "AwaitingArchitect" /\ r.state = "Validated" ->
            IF r.review = "None" THEN "QualityReviewRequired" ELSE "AwaitingArchitect"
      [] stage = "AwaitingArchitect" /\ r.state = "Accepted" -> "DeliverAccepted"
      [] stage = "ReworkEngineering" /\ r.state = "Rejected" -> "ReworkEngineering"
      [] OTHER -> "None"

-----------------------------------------------------------------------------
(* Properties of the authority, whoever calls it                           *)

\* Every row has the shape the schema declares for its table.
TypeOK ==
    /\ campaign \in [CampaignId -> CampaignRow]
    /\ deadlineOpen \in [CampaignId -> BOOLEAN]
    /\ ticket \in [TicketId -> TicketRow]
    /\ attempt \in [AttemptId -> AttemptRow]
    /\ candidate \in [CandidateId -> CandidateRow]
    /\ session \in [SessionId -> SessionRow]

\* No sequence of commands brings a candidate to Accepted or Delivered unless
\* the hard validation and the Quality suite both passed, the commit is
\* attached, Quality reviewed it, the Architect decided Deliver, and the
\* override flag is recorded exactly when the review was a rejection.
DeliveryEvidence ==
    \A k \in CandidateId :
      candidate[k].state \in {"Accepted", "Delivered"} =>
        /\ candidate[k].commit
        /\ candidate[k].hard = "Passed"
        /\ candidate[k].quality = "Passed"
        /\ candidate[k].review # "None"
        /\ candidate[k].decision = "Deliver"
        /\ candidate[k].override <=> candidate[k].review = "Reject"

\* claim, release, fail and retry keep exactly one unreleased attempt behind
\* an in-flight ticket, and none behind a ticket that can be claimed again.
InFlightOwnership ==
    /\ \A t \in TicketId :
          ticket[t].state = "InFlight" =>
            \E a \in AttemptId : attempt[a].ticket = t /\ ~attempt[a].released
    /\ \A a \in AttemptId :
          (attempt[a].stage # "Absent" /\ ~attempt[a].released) =>
            TicketOf(a).state \in {"InFlight", "Delivered", "Rejected"}
    /\ \A a, b \in AttemptId :
          (/\ attempt[a].stage # "Absent" /\ attempt[b].stage # "Absent"
           /\ attempt[a].ticket = attempt[b].ticket
           /\ ~attempt[a].released /\ ~attempt[b].released) => a = b

\* IN_FLIGHT_TICKET_MAXIMUM: claims never overlap, even though a released
\* ticket is sponsored again and sponsorship itself is not limited.
OneTicketInFlight ==
    \A t, u \in TicketsIn("InFlight") : t = u

\* Stage and candidate lifecycle are written together, so the scheduler's
\* FIFO head is never the inconsistent row that ticket_buffer_status maps to
\* None and TicketScheduler::decide refuses.
DownstreamHeadConsistent ==
    \A a \in AttemptId :
      attempt[a].stage \in DownstreamStage =>
        \E k \in CandidateId :
          /\ IsLatestCandidate(k, a)
          /\ DownstreamAction(attempt[a].stage, candidate[k]) # "None"

\* Delivered means delivered once: a delivered attempt, its candidate and its
\* ticket agree, and no ticket is delivered through two attempts, whatever
\* releases and retries happened in between.
DeliveredOnce ==
    /\ \A a \in AttemptId :
          attempt[a].stage = "Delivered" <=>
            \E k \in CandidatesOf(a) : a # 0 /\ candidate[k].state = "Delivered"
    /\ \A a, b \in AttemptId :
          (/\ attempt[a].stage = "Delivered" /\ attempt[b].stage = "Delivered"
           /\ attempt[a].ticket = attempt[b].ticket) => a = b
    /\ \A a \in AttemptId :
          attempt[a].stage = "Delivered" => TicketOf(a).state = "Delivered"

\* record_delivery completes a campaign exactly at its target: a running
\* campaign is always below it (so complete_campaign_at_delivery_target never
\* has work to do) and a completed one is never short of it.
TargetAccounting ==
    \A c \in CampaignId :
      /\ campaign[c].state = "Running" =>
            Cardinality(DeliveredAttempts(c)) < DeliveryTarget
      /\ campaign[c].state = "Completed" =>
            Cardinality(DeliveredAttempts(c)) = DeliveryTarget

\* Optimistic concurrency is sound: a row never changes without its revision
\* advancing by exactly one, so a stale expected revision is always caught.
RevisionFence ==
    [][ /\ \A c \in CampaignId : campaign'[c] # campaign[c] =>
             \/ campaign[c].state = "Absent"
             \/ campaign'[c].rev = campaign[c].rev + 1
        /\ \A t \in TicketId : ticket'[t] # ticket[t] =>
             \/ ticket[t].state = "Absent"
             \/ ticket'[t].rev = ticket[t].rev + 1
        /\ \A a \in AttemptId : attempt'[a] # attempt[a] =>
             \/ attempt[a].stage = "Absent"
             \/ attempt'[a].rev = attempt[a].rev + 1
        /\ \A k \in CandidateId : candidate'[k] # candidate[k] =>
             \/ candidate[k].state = "Absent"
             \/ candidate'[k].rev = candidate[k].rev + 1 ]_vars

\* Validation receipts, reviews and Architect decisions are facts: a retry, a
\* rework or a release never overwrites one.
EvidenceImmutable ==
    [][ \A k \in CandidateId :
          /\ candidate[k].hard # "None" => candidate'[k].hard = candidate[k].hard
          /\ candidate[k].quality # "None" => candidate'[k].quality = candidate[k].quality
          /\ candidate[k].review # "None" => candidate'[k].review = candidate[k].review
          /\ candidate[k].decision # "None" => candidate'[k].decision = candidate[k].decision
      ]_vars

\* A ticket that was delivered, resolved or rejected never moves again.
ClosedTicketFinal ==
    [][ \A t \in TicketId :
          ticket[t].state \in {"Delivered", "Resolved", "Rejected"} =>
            ticket'[t] = ticket[t] ]_vars
=============================================================================
