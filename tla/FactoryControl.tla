--------------------------- MODULE FactoryControl ---------------------------
(***************************************************************************)
(* The control plane that calls the authority: the resident campaign       *)
(* driver (campaign_driver.rs), the one paid session it attends            *)
(* (session_runtime.rs), the operator (operator_rpc.rs) and daemon crash   *)
(* and restart (restart_recovery.rs).                                      *)
(*                                                                         *)
(* Every durable step is an action of FactoryAuthority.  Between two of    *)
(* them a caller holds only what it read: the driver's position and fences,*)
(* the RPC phase of the running session, a cancellation in progress.  That *)
(* memory is lost in a crash.                                              *)
(***************************************************************************)
EXTENDS FactoryAuthority, Scheduler

CONSTANTS
    LowWater, ReadyTarget, ReadyMaximum,  \* ticket buffer policy
    MaxProductAssignments,  \* MAX_PRODUCT_ASSIGNMENTS_PER_CAMPAIGN
    MaxCrashes,             \* bound on daemon crashes
    MaxErrors               \* bound on aborted launches and failed store commands

ASSUME ControlAssumption ==
    /\ LowWater \in Nat /\ ReadyTarget \in Nat /\ ReadyMaximum \in Nat
    /\ MaxProductAssignments \in Nat /\ MaxCrashes \in Nat /\ MaxErrors \in Nat

VARIABLES
    driver,  \* where CampaignDriver::run_next is, and what it has read
    rpc,     \* SessionRpcState of the attended session: the phase it reached
    cancel,  \* dispatch_cancel in progress
    faults   \* infrastructure faults so far

memory == <<driver, rpc, cancel>>
cvars == <<vars, driver, rpc, cancel, faults>>

-----------------------------------------------------------------------------
(* Volatile state                                                          *)

NoFence == [campaign |-> 0, ticket |-> 0, attempt |-> 0, candidate |-> 0]

Polling == [pc |-> "poll", campaign |-> 0, ticket |-> 0, office |-> "Product",
            attempt |-> 0, candidate |-> 0, session |-> 0, fence |-> NoFence,
            recovering |-> FALSE]
Down == [Polling EXCEPT !.pc = "down"]

\* SessionRpcState: what the Engineering or Quality session has completed.
NoRpc == "Started"

NoCancel == [pc |-> "idle", campaign |-> 0, session |-> 0,
             expected |-> 0, reconciled |-> 0]

DaemonUp == driver.pc # "down"

ControlInit ==
    /\ Init
    /\ driver = Polling
    /\ rpc = NoRpc
    /\ cancel = NoCancel
    /\ faults = [crashes |-> 0, errors |-> 0]

-----------------------------------------------------------------------------
(* What run_next reads                                                     *)

Downstream == {a \in AttemptId : attempt[a].stage \in DownstreamStage}

\* The FIFO head of ticket_buffer_status: the oldest downstream attempt of the
\* application revision, whatever campaign claimed it and released or not.
IsHead(a) == a \in Downstream /\ \A b \in Downstream : a <= b

HeadAction ==
    IF \E a \in AttemptId, k \in CandidateId : IsHead(a) /\ IsLatestCandidate(k, a)
    THEN LET head == CHOOSE a \in AttemptId : IsHead(a)
             last == CHOOSE k \in CandidateId : IsLatestCandidate(k, head)
         IN DownstreamAction(attempt[head].stage, candidate[last])
    ELSE "None"

\* ticket_buffer_status
BufferStatus(c) ==
    [running |-> campaign[c].state = "Running",
     delivered |-> Cardinality(DeliveredAttempts(c)),
     deliveryTarget |-> DeliveryTarget,
     costKnown |-> campaign[c].cost = "Known",
     paidSessionActive |-> PaidSessionActive,
     deadlineOpen |-> deadlineOpen[c],
     downstreamCount |-> Cardinality(Downstream),
     downstreamAction |-> HeadAction,
     inFlight |-> Cardinality(TicketsIn("InFlight")),
     inFlightMaximum |-> InFlightTicketMaximum,
     maximum |-> ReadyMaximum,
     ready |-> Cardinality(TicketsIn("Sponsored")),
     proposed |-> Cardinality(TicketsIn("Proposed")),
     proposalMaximum |-> ProposalMaximum,
     oldestSponsored |-> TicketsIn("Sponsored") # {},
     lowWater |-> LowWater,
     target |-> ReadyTarget]

\* recoverable_engineering_failure
RecoverableEngineering(c, a) ==
    /\ attempt[a].campaign = c
    /\ attempt[a].stage = "Failed"
    /\ ~attempt[a].released
    /\ TicketOf(a).state = "InFlight"
    /\ campaign[c].state = "Running"
    /\ campaign[c].cost = "Known"
    /\ ~HasCandidate(a)
    /\ ~attempt[a].engineeringRetried

\* recoverable_quality_failure: the newest candidate of the ticket revision.
\* The row need not be unreleased.
RecoverableQuality(c, a, k) ==
    /\ attempt[a].campaign = c
    /\ attempt[a].stage = "Failed"
    /\ TicketOf(a).state = "InFlight"
    /\ candidate[k].attempt = a
    /\ candidate[k].state = "Validated"
    /\ candidate[k].commit
    /\ candidate[k].review = "None"
    /\ ~attempt[a].qualityRetried
    /\ \A j \in CandidateId :
         (/\ candidate[j].attempt # 0
          /\ attempt[candidate[j].attempt].ticket = attempt[a].ticket) => j <= k

ProductAssignments(c) ==
    {s \in SessionId : session[s].campaign = c /\ session[s].office = "Product"}

\* product_assignment_made_progress
ProductMadeProgress ==
    \/ TicketsIn("Proposed") # {} \/ TicketsIn("Sponsored") # {}
    \/ TicketsIn("InFlight") # {} \/ HeadAction # "None"

-----------------------------------------------------------------------------
(* The campaign driver: run_next reads, then issues one command at a time  *)

Fences(c, a, k) ==
    [campaign |-> campaign[c].rev,
     ticket |-> IF a = 0 THEN 0 ELSE TicketOf(a).rev,
     attempt |-> IF a = 0 THEN 0 ELSE attempt[a].rev,
     candidate |-> IF k = 0 THEN 0 ELSE candidate[k].rev]

\* The driver about to perform pc for an office's work on attempt a, candidate k.
Task(pc, c, office, a, k) ==
    [Polling EXCEPT !.pc = pc, !.campaign = c, !.office = office, !.attempt = a,
                    !.candidate = k, !.fence = Fences(c, a, k)]

\* The driver about to launch an assignment under campaign fence rev.
LaunchOf(c, rev, office, a, k) ==
    [Polling EXCEPT !.pc = "launch", !.campaign = c, !.office = office, !.attempt = a,
                    !.candidate = k, !.fence.campaign = rev]

DriverGoes(next) ==
    /\ driver' = next
    /\ UNCHANGED <<rpc, cancel, faults>>

\* continue_downstream dispatches on the stage of the head.
DownstreamTask(c, a, k) ==
    CASE HeadAction = "CandidateCommitAttachRequired" -> Task("attach", c, "Engineering", a, k)
      [] HeadAction \in HardStage -> Task("resume", c, "Engineering", a, k)
      [] HeadAction = "ReworkEngineering" -> LaunchOf(c, campaign[c].rev, "Engineering", a, 0)
      [] HeadAction = "DeliverAccepted" -> Task("deliver", c, "Quality", a, k)
      [] HeadAction \in QualityStage \cup {"QualityReviewRequired"} ->
            LaunchOf(c, campaign[c].rev, "Quality", a, k)
      [] OTHER -> Polling

\* The command run_next selects from what it reads.  A poll that selects
\* nothing (Blocked, Idle, AwaitingArchitect) changes nothing.
Poll(c) ==
    /\ driver.pc = "poll"
    /\ campaign[c].state = "Running"
    /\ LET engineering == {a \in AttemptId : RecoverableEngineering(c, a)}
           quality     == {p \in AttemptId \X CandidateId : RecoverableQuality(c, p[1], p[2])}
           action      == Decide(BufferStatus(c))
       IN
       \/ \E a \in engineering :
            DriverGoes(Task("retryEngineering", c, "Engineering", a, 0))
       \/ /\ engineering = {}
          /\ \E p \in quality :
               DriverGoes([Task("retryQuality", c, "Quality", p[1], p[2])
                             EXCEPT !.recovering = TRUE])
       \/ /\ engineering = {} /\ quality = {}
          /\ \/ /\ action = "ReplenishProduct"
                /\ DriverGoes(LaunchOf(c, campaign[c].rev, "Product", 0, 0))
             \/ /\ action = "ClaimReadyTicket"
                /\ \E t \in TicketsIn("Sponsored") :
                     DriverGoes([Task("claim", c, "Engineering", 0, 0)
                                   EXCEPT !.ticket = t, !.fence.ticket = ticket[t].rev])
             \/ /\ action = "ContinueDownstream"
                /\ \E a \in AttemptId, k \in CandidateId :
                     /\ IsHead(a) /\ IsLatestCandidate(k, a)
                     /\ DownstreamTask(c, a, k) # Polling
                     /\ DriverGoes(DownstreamTask(c, a, k))
    /\ UNCHANGED vars

\* claim_then_launch: the launch keeps the campaign fence read before the claim.
Claim ==
    /\ driver.pc = "claim"
    /\ \E a \in AttemptId, outcome \in Requalification :
         /\ ClaimSponsoredTicket(driver.ticket, a, driver.campaign, driver.fence.ticket,
                                 driver.fence.campaign, outcome)
         /\ DriverGoes(IF outcome = "Reproduced"
                       THEN LaunchOf(driver.campaign, driver.fence.campaign,
                                     "Engineering", a, 0)
                       ELSE Polling)

RetryEngineering ==
    /\ driver.pc = "retryEngineering"
    /\ RetryEngineeringAttempt(driver.attempt, driver.fence.attempt, driver.fence.ticket)
    /\ DriverGoes(LaunchOf(driver.campaign, driver.fence.campaign,
                           "Engineering", driver.attempt, 0))

\* After recoverable_quality_failure the driver launches at once, with the
\* campaign revision it reads then; otherwise the next poll finds the head.
RetryQuality ==
    /\ driver.pc = "retryQuality"
    /\ RetryQualityAttempt(driver.attempt, driver.candidate,
                           driver.fence.attempt, driver.fence.ticket)
    /\ DriverGoes(IF driver.recovering
                  THEN LaunchOf(driver.campaign, campaign[driver.campaign].rev,
                                "Quality", driver.attempt, driver.candidate)
                  ELSE Polling)

FailAttempt ==
    /\ driver.pc = "failAttempt"
    /\ FailTicketAttempt(driver.attempt, driver.fence.attempt, driver.fence.ticket)
    /\ DriverGoes(Polling)

FailRunningCampaign ==
    /\ driver.pc = "failCampaign"
    /\ FailCampaign(driver.campaign, driver.fence.campaign)
    /\ DriverGoes(Polling)

\* load_candidate_recovery: the candidate is still at the stage the head
\* showed, in a running campaign.
RecoveryLoads ==
    /\ campaign[attempt[driver.attempt].campaign].state = "Running"
    /\ candidate[driver.candidate].rev = driver.fence.candidate
    /\ attempt[driver.attempt].rev = driver.fence.attempt

\* resume_candidate_commit_attach
AttachCommit ==
    /\ driver.pc = "attach"
    /\ RecoveryLoads
    /\ attempt[driver.attempt].stage \in QualityStage
    /\ AttachCandidateCommit(driver.candidate, driver.fence.candidate)
    /\ DriverGoes(Polling)

\* deliver_accepted_candidate: git fast-forward, then the delivery record.
Deliver ==
    /\ driver.pc = "deliver"
    /\ RecordDelivery(driver.candidate, driver.fence.candidate, driver.fence.attempt,
                      driver.fence.ticket, driver.fence.campaign)
    /\ DriverGoes(Polling)

\* The command of the current position, when the authority accepts it.
DriverCommand ==
    \/ Claim
    \/ RetryEngineering
    \/ RetryQuality
    \/ FailAttempt
    \/ FailRunningCampaign
    \/ AttachCommit
    \/ Deliver

CommandPc == {"claim", "retryEngineering", "retryQuality", "failAttempt",
              "failCampaign", "attach", "deliver"}

\* Mutant: the attempt of a failed launch is forgotten.
ForgetAttempt == Polling

\* fail_ticket_attempt with the fences failure_context reads
ToFailAttempt ==
    Task("failAttempt", driver.campaign, driver.office, driver.attempt, driver.candidate)

\* TicketAttemptNotReleasable from retry_quality_attempt, and any error from
\* the commit attachment, fail the attempt; every other rejection is logged
\* and the driver polls again.
AfterRefusal ==
    CASE driver.pc = "attach" -> ToFailAttempt
      [] driver.pc = "retryQuality" /\ ~driver.recovering
           /\ AttemptFence(driver.attempt, driver.fence.attempt, driver.fence.ticket) ->
            ToFailAttempt
      [] OTHER -> Polling

\* The authority does not admit the command of the current position.
Refused ==
    /\ driver.pc = "failAttempt" =>
         ~CanFail(driver.attempt, driver.fence.attempt, driver.fence.ticket)
    /\ driver.pc # "failAttempt" => ~ENABLED DriverCommand

DriverRefused ==
    /\ driver.pc \in CommandPc
    /\ Refused
    /\ DriverGoes(AfterRefusal)
    /\ UNCHANGED vars

\* resume_candidate_hard_validation records a result for the session that
\* submitted the candidate.
ResumeAdmitted ==
    /\ RecoveryLoads
    /\ attempt[driver.attempt].stage \in HardStage
    /\ candidate[driver.candidate].state = "Submitted"
    /\ RequireSession(candidate[driver.candidate].engineeringSession,
                      attempt[driver.attempt].campaign, "Engineering")

ResumeHardValidation ==
    /\ driver.pc = "resume"
    /\ IF ResumeAdmitted
       THEN \E result \in {"Passed", "NotPassed"} :
              RecordHardValidation(driver.candidate,
                                   candidate[driver.candidate].engineeringSession,
                                   driver.fence.candidate, driver.fence.attempt, result)
       ELSE UNCHANGED vars
    /\ DriverGoes(Polling)

-----------------------------------------------------------------------------
(* launch: one assignment and its paid session, to the end                 *)

LaunchAssignment ==
    /\ driver.pc = "launch"
    /\ \E s \in SessionId :
         /\ CreateAssignment(s, driver.campaign, driver.fence.campaign, driver.office,
                             driver.attempt, driver.candidate)
         /\ DriverGoes([driver EXCEPT !.pc = "start", !.session = s,
                                        !.fence = NoFence])

\* launch_session spawns the host, then registers custody.
LaunchSession ==
    /\ driver.pc = "start"
    /\ StartSession(driver.session)
    /\ driver' = [driver EXCEPT !.pc = "attend"]
    /\ rpc' = NoRpc
    /\ UNCHANGED <<cancel, faults>>

\* Credentials, materialisation, the assignment command, the spawn or
\* start_session failed: no session runs.
LaunchFails ==
    /\ driver.pc \in {"launch", "start"}
    /\ DriverGoes([driver EXCEPT !.pc = "launchFailed"])
    /\ UNCHANGED vars

\* launch_session returns an error after start_session (admission line, terminal
\* evidence, provider ledger): the session row stays Running, and a waiting
\* cancellation sees its channel close.
LaunchAborts ==
    /\ driver.pc = "attend"
    /\ faults.errors < MaxErrors
    /\ driver' = [driver EXCEPT !.pc = "launchFailed"]
    /\ rpc' = NoRpc
    /\ cancel' = IF cancel.pc = "wait" THEN NoCancel ELSE cancel
    /\ faults' = [faults EXCEPT !.errors = @ + 1]
    /\ UNCHANGED vars

\* An actor may only propose the terminal operation of work it has submitted.
MayComplete ==
    \/ driver.office = "Product"
    \/ driver.office = "Engineering" /\ rpc = "Submitted"
    \/ driver.office = "Quality" /\ rpc = "Reviewed"

\* reconcile_terminal, then the completion a waiting cancellation receives.
\* A Cancelled stop needs no operator: closing the peer socket or stopping
\* the daemon cancels the process too.
SessionEnds(stop, cost) ==
    /\ driver.pc = "attend"
    /\ stop = "Completed" => MayComplete
    /\ TerminalSession(driver.session, stop, cost)
    /\ driver' = [driver EXCEPT !.pc = "settle"]
    /\ rpc' = NoRpc
    /\ cancel' = IF cancel.pc = "wait" /\ cancel.session = driver.session
                 THEN [cancel EXCEPT !.pc = "finish",
                                     !.reconciled = campaign'[cancel.campaign].rev]
                 ELSE cancel
    /\ UNCHANGED faults

\* retry_or_fail_product with product_retry_available
RetryOrFailProduct ==
    IF Cardinality(ProductAssignments(driver.campaign)) < MaxProductAssignments
    THEN Polling
    ELSE Task("failCampaign", driver.campaign, "Product", 0, 0)

\* terminalize_failed_launch; the fences are read here.
TerminalizeFailedLaunch(retryProduct) ==
    CASE driver.office = "Product" ->
            IF retryProduct THEN RetryOrFailProduct
            ELSE Task("failCampaign", driver.campaign, "Product", 0, 0)
      [] driver.office = "Engineering" -> ToFailAttempt
      [] driver.office = "Quality" ->
            Task("retryQuality", driver.campaign, "Quality", driver.attempt, driver.candidate)

\* What launch does with the settled session.  An Engineering failure fails the
\* attempt, whether or not it is retryable.
Settle ==
    /\ driver.pc = "settle"
    /\ DriverGoes(
         IF session[driver.session].state = "Succeeded"
         THEN IF driver.office = "Product" /\ ~ProductMadeProgress
              THEN RetryOrFailProduct ELSE Polling
         ELSE TerminalizeFailedLaunch(TRUE))
    /\ UNCHANGED vars

SettleFailedLaunch ==
    /\ driver.pc = "launchFailed"
    /\ DriverGoes(TerminalizeFailedLaunch(FALSE))
    /\ UNCHANGED vars

-----------------------------------------------------------------------------
(* The RPCs of the attended session                                        *)

Attended(office) ==
    /\ driver.pc = "attend"
    /\ driver.office = office

RpcReaches(phase) ==
    /\ rpc' = phase
    /\ UNCHANGED <<driver, cancel, faults>>

ProposeTicket ==
    /\ Attended("Product")
    /\ \E t \in TicketId : SubmitTicketProposal(t)
    /\ RpcReaches(rpc)

\* checkpoint_regression freezes the regression test; no lifecycle row changes.
CheckpointRegression ==
    /\ Attended("Engineering")
    /\ rpc = "Started"
    /\ RpcReaches("Implementing")
    /\ UNCHANGED vars

\* The submit_candidate handler, whose two transactions a stop may separate.
RpcSubmitCandidate ==
    /\ Attended("Engineering")
    /\ rpc = "Implementing"
    /\ \E k \in CandidateId :
         SubmitCandidate(k, driver.attempt, driver.session,
                         attempt[driver.attempt].rev, TicketOf(driver.attempt).rev)
    /\ RpcReaches("Validating")

RpcRecordHardValidation ==
    /\ Attended("Engineering")
    /\ rpc = "Validating"
    /\ \E k \in CandidateId, result \in {"Passed", "NotPassed"} :
         /\ candidate[k].engineeringSession = driver.session
         /\ RecordHardValidation(k, driver.session, candidate[k].rev,
                                 attempt[driver.attempt].rev, result)
    /\ RpcReaches("Submitted")

\* run_quality_full_suite; refused when a passed suite is already durable.
RpcRunFullSuite ==
    /\ Attended("Quality")
    /\ rpc = "Started"
    /\ candidate[driver.candidate].quality # "Passed"
    /\ \E result \in {"Passed", "NotPassed"} :
         RecordQualityValidation(driver.candidate, driver.session,
                                 candidate[driver.candidate].rev,
                                 attempt[driver.attempt].rev, result)
    /\ RpcReaches("SuiteDone")

\* submit_quality_review, with this session's suite or a durable earlier one
RpcSubmitReview ==
    /\ Attended("Quality")
    /\ rpc \in {"Started", "SuiteDone"}
    /\ \E verdict \in {"Accept", "Reject"} :
         SubmitQualityReview(driver.candidate, driver.session,
                             candidate[driver.candidate].rev,
                             attempt[driver.attempt].rev, verdict)
    /\ RpcReaches("Reviewed")

-----------------------------------------------------------------------------
(* The operator, through the daemon's local socket                         *)

\* dispatch_sponsorship
OperatorSponsors == \E t \in TicketId : SponsorTicket(t, ticket[t].rev)

\* dispatch_release with resolve_release: the attempt is read as failed and
\* unreleased, its reproducer replayed on the current head, and the release
\* issued with the revisions that were read.
OperatorReleases ==
    \E a \in AttemptId, outcome \in Requalification :
      /\ attempt[a].stage = "Failed" /\ ~attempt[a].released
      /\ ReleaseTicketAttempt(a, attempt[a].rev, TicketOf(a).rev, outcome)

OperatorStep ==
    /\ DaemonUp
    /\ \/ \E c \in CampaignId : StartCampaign(c)
       \/ OperatorSponsors
       \/ OperatorReleases
    /\ UNCHANGED <<memory, faults>>

OperatorDecides ==
    /\ DaemonUp
    /\ \E k \in CandidateId, decision \in Decision, override \in BOOLEAN :
         LET a == candidate[k].attempt IN
         DecideCandidate(k, decision, override,
                         candidate[k].rev, attempt[a].rev, TicketOf(a).rev)
    /\ UNCHANGED <<memory, faults>>

\* dispatch_cancel: without a running session the campaign closes at once.
CancelIdle(c) ==
    /\ DaemonUp
    /\ cancel.pc = "idle"
    /\ CancelCampaign(c, campaign[c].rev)
    /\ UNCHANGED <<memory, faults>>

\* With one, the session's registered process is stopped and waited for.
CancelActive(c) ==
    /\ driver.pc = "attend"
    /\ cancel.pc = "idle"
    /\ campaign[c].state = "Running"
    /\ session[driver.session].campaign = c
    /\ cancel' = [pc |-> "wait", campaign |-> c, session |-> driver.session,
                  expected |-> campaign[c].rev, reconciled |-> 0]
    /\ UNCHANGED <<vars, driver, rpc, faults>>

\* finish_campaign_cancellation, or its rejection
CancelFinish ==
    /\ cancel.pc = "finish"
    /\ IF cancel.reconciled = cancel.expected + 1
            /\ campaign[cancel.campaign].state = "Running"
            /\ campaign[cancel.campaign].rev = cancel.reconciled
       THEN FinishCampaignCancellation(cancel.campaign, cancel.reconciled)
       ELSE UNCHANGED vars
    /\ cancel' = NoCancel
    /\ UNCHANGED <<driver, rpc, faults>>

-----------------------------------------------------------------------------
(* Faults                                                                  *)

\* A command fails for a reason of its own (connection lost, I/O, git).
DriverError ==
    /\ driver.pc \in CommandPc \cup {"resume"}
    /\ faults.errors < MaxErrors
    /\ driver' = IF driver.pc = "attach" THEN ToFailAttempt ELSE Polling
    /\ faults' = [faults EXCEPT !.errors = @ + 1]
    /\ UNCHANGED <<vars, rpc, cancel>>

\* The daemon dies.  Everything not in the database is gone.
Crash ==
    /\ DaemonUp
    /\ faults.crashes < MaxCrashes
    /\ driver' = Down
    /\ rpc' = NoRpc
    /\ cancel' = NoCancel
    /\ faults' = [faults EXCEPT !.crashes = @ + 1]
    /\ UNCHANGED vars

\* reconcile_daemon_restart interrupts every running session with unknown cost
\* before the daemon serves anyone.
RestartReconcile ==
    /\ driver.pc = "down"
    /\ \E s \in SessionId : TerminalSession(s, "Interrupted", "Unknown")
    /\ UNCHANGED <<memory, faults>>

RestartServes ==
    /\ driver.pc = "down"
    /\ ~PaidSessionActive
    /\ driver' = Polling
    /\ UNCHANGED <<vars, rpc, cancel, faults>>

Deadline ==
    /\ \E c \in CampaignId : DeadlineElapses(c)
    /\ UNCHANGED <<memory, faults>>

-----------------------------------------------------------------------------
DriverStep ==
    \/ \E c \in CampaignId : Poll(c)
    \/ DriverCommand
    \/ DriverRefused
    \/ ResumeHardValidation
    \/ LaunchAssignment
    \/ LaunchSession
    \/ LaunchFails
    \/ Settle
    \/ SettleFailedLaunch

EndStep == \E stop \in StopReason, cost \in SessionCost : SessionEnds(stop, cost)

RpcStep ==
    \/ ProposeTicket
    \/ CheckpointRegression
    \/ RpcSubmitCandidate
    \/ RpcRecordHardValidation
    \/ RpcRunFullSuite
    \/ RpcSubmitReview

CancelStep ==
    \/ \E c \in CampaignId : CancelIdle(c) \/ CancelActive(c)
    \/ CancelFinish

FaultStep == LaunchAborts \/ DriverError \/ Crash

RestartStep == RestartReconcile \/ RestartServes

ControlNext ==
    \/ DriverStep
    \/ EndStep
    \/ RpcStep
    \/ OperatorStep
    \/ OperatorDecides
    \/ CancelStep
    \/ FaultStep
    \/ RestartStep
    \/ Deadline

ControlSpec == ControlInit /\ [][ControlNext]_cvars

\* The driver loop never stops, every supervised process ends by its wall
\* limit, a restart finishes, and a cancellation in progress is carried out.
\* Nothing is assumed of the operator or of the actors' RPCs.
LiveSpec ==
    /\ ControlSpec
    /\ WF_cvars(DriverStep)
    /\ WF_cvars(EndStep)
    /\ WF_cvars(RestartStep)
    /\ WF_cvars(CancelFinish)

-----------------------------------------------------------------------------
(* Properties of the control plane                                         *)

\* Nobody closes a campaign under a running paid session, and no session runs
\* on a closed or frozen campaign: finish_campaign_cancellation rereads no
\* session row and start_session advances no campaign revision, so this rests
\* on create_assignment's revision bump and the driver's order of commands.
PaidSessionFunded ==
    \A s \in SessionId :
      Running(s) => /\ campaign[session[s].campaign].state = "Running"
                    /\ campaign[session[s].campaign].cost = "Known"

\* The paid sessions an office spent on an attempt, and on a candidate.
EngineeringSpend(a) ==
    {s \in SessionId : session[s].office = "Engineering" /\ session[s].attempt = a}
QualitySpend(k) ==
    {s \in SessionId : session[s].office = "Quality" /\ session[s].candidate = k}

\* The bounded retries bound the spend: whatever way its sessions fail, an
\* attempt the operator has not released gets two Engineering assignments plus
\* one per rework, and each of its candidates two Quality assignments, plus one
\* for every infrastructure fault.
SpendBound ==
    /\ \A a \in AttemptId :
         ~attempt[a].released =>
           Cardinality(EngineeringSpend(a))
             <= 2 + attempt[a].rework + faults.crashes + faults.errors
    /\ \A k \in CandidateId :
         (candidate[k].attempt # 0 /\ ~attempt[candidate[k].attempt].released) =>
           Cardinality(QualitySpend(k)) <= 2 + faults.crashes + faults.errors

\* retry_quality_attempt "retries Quality exactly once after the session
\* boundary itself fails": without an infrastructure fault no candidate, of a
\* released attempt or not, has more than two Quality sessions that ran.
QualityRetriedOnce ==
    faults.crashes + faults.errors = 0 =>
      \A k \in CandidateId :
        Cardinality({s \in QualitySpend(k) : session[s].state # "Prepared"}) <= 2

Healthy(c) ==
    campaign[c].state = "Running" /\ campaign[c].cost = "Known" /\ deadlineOpen[c]

AwaitsArchitect(a) ==
    \E k \in CandidateId :
      /\ IsLatestCandidate(k, a)
      /\ DownstreamAction(attempt[a].stage, candidate[k]) = "AwaitingArchitect"

\* A claimed ticket is not stranded: as long as its campaign may spend, every
\* open attempt is eventually delivered, failed or put before the Architect,
\* however its sessions end and whatever the operator does meanwhile.
AttemptSettles ==
    \A a \in AttemptId :
      attempt[a].stage \in OpenStage ~>
        \/ attempt[a].stage \in {"Delivered", "Failed"}
        \/ AwaitsArchitect(a)
        \/ \E c \in CampaignId : c = attempt[a].campaign /\ ~Healthy(c)
=============================================================================
