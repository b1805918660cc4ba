------------------------ MODULE FactoryControlProofs ------------------------
(***************************************************************************)
(* The control plane uses the authority as its most general client may: the*)
(* driver, the paid session, the operator, a crash and a restart only ever *)
(* take steps of FactoryAuthority, so every theorem about the authority    *)
(* holds under them.  Two properties need the order of their commands and  *)
(* are proved here: PaidSessionFunded, and SpendBound with the books that  *)
(* say what each position of the driver has paid for.                      *)
(***************************************************************************)
EXTENDS FactoryControl, FactoryAuthorityProofs

-----------------------------------------------------------------------------
(* What the driver and a cancellation hold between two commands            *)

DriverPc == {"poll", "down", "claim", "retryEngineering", "retryQuality", "failAttempt",
             "failCampaign", "attach", "deliver", "resume", "launch", "start", "attend",
             "settle", "launchFailed"}

\* Positions at which the driver works on an attempt, and on a candidate.
OnAttempt   == {"retryEngineering", "retryQuality", "failAttempt", "attach", "deliver", "resume"}
OnCandidate == {"retryQuality", "attach", "deliver", "resume"}
OnSession   == {"start", "attend", "settle"}
Launching   == {"launch", "start", "attend", "settle", "launchFailed"}

\* The driver's position d names the rows that its next command is about.
Directed(d) ==
    /\ d.pc \in DriverPc
    /\ d.office \in Office
    /\ d.pc \notin {"poll", "down"} => d.campaign \in CampaignId
    /\ d.pc = "claim" => d.ticket \in TicketId
    /\ d.attempt \in AttemptId \cup {0}
    /\ d.candidate \in CandidateId \cup {0}
    /\ d.pc \in OnAttempt => d.attempt \in AttemptId
    /\ d.pc \in OnCandidate => d.candidate \in CandidateId
    /\ d.pc \in OnSession => d.session \in SessionId
    /\ d.pc \in Launching =>
         /\ d.office # "Product" => d.attempt \in AttemptId
         /\ d.office = "Quality" => d.candidate \in CandidateId

DriverFields == {"pc", "campaign", "ticket", "office", "attempt", "candidate", "session",
                 "fence", "recovering"}
CancelFields == {"pc", "campaign", "session", "expected", "reconciled"}

\* d has the driver's fields and names the rows of its next command.
Sound(d) == DOMAIN d = DriverFields /\ Directed(d)

DriverOK == Sound(driver)
CancelOK ==
    /\ DOMAIN cancel = CancelFields
    /\ cancel.pc \in {"idle", "wait", "finish"}
    /\ cancel.pc # "idle" => cancel.campaign \in CampaignId

ControlInv == TypeOK /\ SubmitterLinks /\ DriverOK /\ CancelOK

-----------------------------------------------------------------------------
(* Every control step is a step of the authority, or changes no row        *)

\* A refused command changes no row and only moves the driver.
LEMMA RefusalEffect ==
    DriverRefused => /\ driver.pc \in CommandPc
                     /\ DriverGoes(AfterRefusal)
                     /\ UNCHANGED vars
BY PTL DEF DriverRefused

\* A failure is refused when the attempt is not the one that was read.
LEMMA FailureRefused ==
    DriverRefused /\ driver.pc = "failAttempt" =>
      ~CanFail(driver.attempt, driver.fence.attempt, driver.fence.ticket)
BY PTL DEF DriverRefused, Refused

\* The driver's commands are the authority's, and a revision that a command
\* still holds when it is accepted is the current one.
LEMMA DriverCommandIsStep ==
    ASSUME ControlInv, DriverCommand
    PROVE  Next
<1>1. CASE Claim
  <2>1. PICK a \in AttemptId, outcome \in Requalification :
          ClaimSponsoredTicket(driver.ticket, a, driver.campaign, driver.fence.ticket,
                               driver.fence.campaign, outcome)
    BY <1>1 DEF Claim
  <2>2. driver.ticket \in TicketId /\ driver.campaign \in CampaignId
    BY <1>1 DEF Claim, ControlInv, DriverOK, Sound, Directed
  <2>3. ClaimSponsoredTicket(driver.ticket, a, driver.campaign, ticket[driver.ticket].rev,
                             campaign[driver.campaign].rev, outcome)
    BY <2>1, Zenon DEF ClaimSponsoredTicket
  <2> QED BY <2>2, <2>3 DEF Next, TicketStep
<1>2. ASSUME driver.pc \in OnAttempt,
             RetryEngineeringAttempt(driver.attempt, driver.fence.attempt, driver.fence.ticket)
      PROVE  Next
  <2>1. driver.attempt \in AttemptId
    BY <1>2 DEF ControlInv, DriverOK, Sound, Directed
  <2>2. RetryEngineeringAttempt(driver.attempt, attempt[driver.attempt].rev,
                                TicketOf(driver.attempt).rev)
    BY <1>2, Zenon DEF RetryEngineeringAttempt, AttemptFence
  <2> QED BY <2>1, <2>2 DEF Next, AttemptStep
<1>3. ASSUME driver.pc \in OnAttempt, driver.pc \in OnCandidate,
             RetryQualityAttempt(driver.attempt, driver.candidate,
                                 driver.fence.attempt, driver.fence.ticket)
      PROVE  Next
  <2>1. driver.attempt \in AttemptId /\ driver.candidate \in CandidateId
    BY <1>3 DEF ControlInv, DriverOK, Sound, Directed
  <2>2. RetryQualityAttempt(driver.attempt, driver.candidate, attempt[driver.attempt].rev,
                            TicketOf(driver.attempt).rev)
    BY <1>3, Zenon DEF RetryQualityAttempt, AttemptFence
  <2> QED BY <2>1, <2>2 DEF Next, AttemptStep
<1>4. ASSUME driver.pc \in OnAttempt,
             FailTicketAttempt(driver.attempt, driver.fence.attempt, driver.fence.ticket)
      PROVE  Next
  <2>1. driver.attempt \in AttemptId
    BY <1>4 DEF ControlInv, DriverOK, Sound, Directed
  <2>2. FailTicketAttempt(driver.attempt, attempt[driver.attempt].rev,
                          TicketOf(driver.attempt).rev)
    BY <1>4, Zenon DEF FailTicketAttempt, CanFail, AttemptFence
  <2> QED BY <2>1, <2>2 DEF Next, AttemptStep
<1>5. CASE FailRunningCampaign
  <2>1. driver.campaign \in CampaignId
    BY <1>5 DEF FailRunningCampaign, ControlInv, DriverOK, Sound, Directed
  <2>2. FailCampaign(driver.campaign, campaign[driver.campaign].rev)
    BY <1>5, Zenon DEF FailRunningCampaign, FailCampaign
  <2> QED BY <2>1, <2>2 DEF Next, CampaignStep
<1>6. ASSUME driver.pc \in OnCandidate,
             AttachCandidateCommit(driver.candidate, driver.fence.candidate)
      PROVE  Next
  <2>1. driver.candidate \in CandidateId
    BY <1>6 DEF ControlInv, DriverOK, Sound, Directed
  <2>2. AttachCandidateCommit(driver.candidate, candidate[driver.candidate].rev)
    BY <1>6, Zenon DEF AttachCandidateCommit
  <2> QED BY <2>1, <2>2 DEF Next, CandidateStep
<1>7. ASSUME driver.pc \in OnCandidate,
             RecordDelivery(driver.candidate, driver.fence.candidate, driver.fence.attempt,
                            driver.fence.ticket, driver.fence.campaign)
      PROVE  Next
  <2> DEFINE k == driver.candidate
             a == candidate[k].attempt
  <2>1. k \in CandidateId
    BY <1>7 DEF ControlInv, DriverOK, Sound, Directed
  <2>2. RecordDelivery(k, candidate[k].rev, attempt[a].rev, TicketOf(a).rev,
                       campaign[attempt[a].campaign].rev)
    BY <1>7, Zenon DEF RecordDelivery, AttemptFence
  <2> HIDE DEF k
  <2> QED BY <2>1, <2>2 DEF Next, CandidateStep
<1> QED
    BY <1>1, <1>2, <1>3, <1>4, <1>5, <1>6, <1>7
    DEF DriverCommand, RetryEngineering, RetryQuality, FailAttempt, AttachCommit, Deliver,
        OnAttempt, OnCandidate

\* Assignments, sessions, the restart that interrupts them, and the commit of a
\* hard validation the driver resumes.
LEMMA LaunchIsStep ==
    ASSUME ControlInv,
           LaunchAssignment \/ LaunchSession \/ EndStep \/ RestartReconcile
             \/ ResumeHardValidation
    PROVE  [Next]_vars
<1>1. CASE LaunchAssignment
  <2>1. PICK s \in SessionId :
          CreateAssignment(s, driver.campaign, driver.fence.campaign, driver.office,
                           driver.attempt, driver.candidate)
    BY <1>1 DEF LaunchAssignment
  <2>2. /\ driver.campaign \in CampaignId /\ driver.office \in Office
        /\ driver.attempt \in AttemptId \cup {0} /\ driver.candidate \in CandidateId \cup {0}
    BY <1>1 DEF LaunchAssignment, ControlInv, DriverOK, Sound, Directed
  <2>3. CreateAssignment(s, driver.campaign, campaign[driver.campaign].rev, driver.office,
                         driver.attempt, driver.candidate)
    BY <2>1, Zenon DEF CreateAssignment
  <2> QED BY <2>2, <2>3 DEF Next, SessionStep
<1>2. CASE LaunchSession
  <2>1. driver.session \in SessionId /\ StartSession(driver.session)
    BY <1>2 DEF LaunchSession, ControlInv, DriverOK, Sound, Directed, OnSession
  <2> QED BY <2>1 DEF Next, SessionStep
<1>3. CASE EndStep
  <2>1. PICK stop \in StopReason, cost \in SessionCost : SessionEnds(stop, cost)
    BY <1>3 DEF EndStep
  <2>2. driver.session \in SessionId /\ TerminalSession(driver.session, stop, cost)
    BY <2>1 DEF SessionEnds, ControlInv, DriverOK, Sound, Directed, OnSession
  <2> QED BY <2>2 DEF Next, SessionStep
<1>4. CASE RestartReconcile
  <2>1. PICK s \in SessionId : TerminalSession(s, "Interrupted", "Unknown")
    BY <1>4 DEF RestartReconcile
  <2>2. "Interrupted" \in StopReason /\ "Unknown" \in SessionCost
    BY DEF StopReason, SessionCost
  <2> QED BY <2>1, <2>2 DEF Next, SessionStep
<1>5. CASE ResumeHardValidation
  <2> DEFINE k == driver.candidate
             s == candidate[k].engineeringSession
  <2>1. CASE UNCHANGED vars
    BY <2>1
  <2>2. ASSUME ResumeAdmitted, NEW result \in {"Passed", "NotPassed"},
               RecordHardValidation(k, s, driver.fence.candidate, driver.fence.attempt, result)
        PROVE  Next
    <3>1. k \in CandidateId
      BY <1>5 DEF ResumeHardValidation, ControlInv, DriverOK, Sound, Directed, OnCandidate
    <3>2. s \in SessionId
      BY <3>1, <2>2 DEF ResumeAdmitted, ControlInv, SubmitterLinks
    <3>3. RecordHardValidation(k, s, candidate[k].rev, attempt[candidate[k].attempt].rev, result)
      BY <2>2, Zenon DEF RecordHardValidation
    <3> HIDE DEF k, s
    <3> QED BY <3>1, <3>2, <3>3 DEF Next, CandidateStep
  <2> QED BY <1>5, <2>1, <2>2 DEF ResumeHardValidation
<1> QED BY <1>1, <1>2, <1>3, <1>4, <1>5

\* The RPCs of the attended session carry the revisions read in the handler.
LEMMA RpcIsStep ==
    ASSUME ControlInv, RpcStep
    PROVE  [Next]_vars
<1>s. driver.pc = "attend" =>
        /\ driver.session \in SessionId
        /\ driver.office # "Product" => driver.attempt \in AttemptId
        /\ driver.office = "Quality" => driver.candidate \in CandidateId
    BY DEF ControlInv, DriverOK, Sound, Directed, OnSession, Launching
<1>1. CASE ProposeTicket
    BY <1>1 DEF ProposeTicket, Next, TicketStep
<1>2. CASE CheckpointRegression
    BY <1>2 DEF CheckpointRegression
<1>3. CASE RpcSubmitCandidate
  <2>1. PICK k \in CandidateId :
          SubmitCandidate(k, driver.attempt, driver.session,
                          attempt[driver.attempt].rev, TicketOf(driver.attempt).rev)
    BY <1>3 DEF RpcSubmitCandidate
  <2>2. driver.attempt \in AttemptId /\ driver.session \in SessionId
    BY <1>3, <1>s DEF RpcSubmitCandidate, Attended
  <2> QED BY <2>1, <2>2 DEF Next, AttemptStep
<1>4. CASE RpcRecordHardValidation
  <2>1. PICK k \in CandidateId, result \in {"Passed", "NotPassed"} :
          RecordHardValidation(k, driver.session, candidate[k].rev,
                               attempt[driver.attempt].rev, result)
    BY <1>4 DEF RpcRecordHardValidation
  <2>2. RecordHardValidation(k, driver.session, candidate[k].rev,
                             attempt[candidate[k].attempt].rev, result)
    BY <2>1, Zenon DEF RecordHardValidation
  <2>3. driver.session \in SessionId
    BY <1>4, <1>s DEF RpcRecordHardValidation, Attended
  <2> QED BY <2>2, <2>3 DEF Next, CandidateStep
<1>5. CASE RpcRunFullSuite
  <2> DEFINE k == driver.candidate
  <2>1. PICK result \in {"Passed", "NotPassed"} :
          RecordQualityValidation(k, driver.session, candidate[k].rev,
                                  attempt[driver.attempt].rev, result)
    BY <1>5 DEF RpcRunFullSuite
  <2>2. RecordQualityValidation(k, driver.session, candidate[k].rev,
                                attempt[candidate[k].attempt].rev, result)
    BY <2>1, Zenon DEF RecordQualityValidation
  <2>3. driver.session \in SessionId /\ k \in CandidateId
    BY <1>5, <1>s DEF RpcRunFullSuite, Attended
  <2> HIDE DEF k
  <2> QED BY <2>2, <2>3 DEF Next, CandidateStep
<1>6. CASE RpcSubmitReview
  <2> DEFINE k == driver.candidate
  <2>1. PICK verdict \in {"Accept", "Reject"} :
          SubmitQualityReview(k, driver.session, candidate[k].rev,
                              attempt[driver.attempt].rev, verdict)
    BY <1>6 DEF RpcSubmitReview
  <2>2. SubmitQualityReview(k, driver.session, candidate[k].rev,
                            attempt[candidate[k].attempt].rev, verdict)
    BY <2>1, Zenon DEF SubmitQualityReview
  <2>3. driver.session \in SessionId /\ k \in CandidateId
    BY <1>6, <1>s DEF RpcSubmitReview, Attended
  <2> HIDE DEF k
  <2> QED BY <2>2, <2>3 DEF Next, CandidateStep
<1> QED BY <1>1, <1>2, <1>3, <1>4, <1>5, <1>6 DEF RpcStep

\* The operator's commands and the cancellation's two halves.
LEMMA OperatorIsStep ==
    ASSUME ControlInv, OperatorStep \/ OperatorDecides \/ CancelStep \/ Deadline
    PROVE  [Next]_vars
<1>1. CASE OperatorStep
  <2>1. CASE \E c \in CampaignId : StartCampaign(c)
    BY <2>1 DEF Next, CampaignStep
  <2>2. CASE OperatorSponsors
    BY <2>2 DEF OperatorSponsors, Next, TicketStep
  <2>3. CASE OperatorReleases
    BY <2>3 DEF OperatorReleases, Next, AttemptStep
  <2> QED BY <1>1, <2>1, <2>2, <2>3 DEF OperatorStep
<1>2. CASE OperatorDecides
    BY <1>2 DEF OperatorDecides, Next, CandidateStep
<1>3. ASSUME NEW c \in CampaignId, CancelIdle(c)
      PROVE  Next
    BY <1>3 DEF CancelIdle, Next, CampaignStep
<1>4. ASSUME NEW c \in CampaignId, CancelActive(c)
      PROVE  UNCHANGED vars
    BY <1>4 DEF CancelActive
<1>5. CASE CancelFinish
  <2>1. CASE UNCHANGED vars
    BY <2>1
  <2>2. CASE FinishCampaignCancellation(cancel.campaign, cancel.reconciled)
    <3>1. cancel.campaign \in CampaignId
      BY <1>5 DEF CancelFinish, ControlInv, CancelOK
    <3>2. FinishCampaignCancellation(cancel.campaign, campaign[cancel.campaign].rev)
      BY <2>2, Zenon DEF FinishCampaignCancellation
    <3> QED BY <3>1, <3>2 DEF Next, CampaignStep
  <2> QED BY <1>5, <2>1, <2>2 DEF CancelFinish
<1>6. CASE Deadline
    BY <1>6 DEF Deadline, Next, CampaignStep
<1> QED BY <1>1, <1>2, <1>3, <1>4, <1>5, <1>6 DEF CancelStep

\* Every step of the control plane is one of the authority or writes no row.
LEMMA ControlIsStep ==
    ASSUME ControlInv, [ControlNext]_cvars
    PROVE  [Next]_vars
<1>1. CASE DriverStep
    BY <1>1, DriverCommandIsStep, LaunchIsStep, RefusalEffect
    DEF DriverStep, Poll, LaunchFails, Settle, SettleFailedLaunch
<1>2. CASE FaultStep \/ RestartServes
    BY <1>2 DEF FaultStep, LaunchAborts, DriverError, Crash, RestartServes
<1>3. CASE UNCHANGED cvars
    BY <1>3 DEF cvars
<1> QED
    BY <1>1, <1>2, <1>3, LaunchIsStep, RpcIsStep, OperatorIsStep
    DEF ControlNext, RestartStep

-----------------------------------------------------------------------------
(* The driver and the cancellation stay directed                           *)

\* Such a driver does not have an assignment that waits for its session.
Ready(d) == Sound(d) /\ d.pc # "start"

\* An idle driver, and one that crashed.
LEMMA PollingSound == Ready(Polling) /\ Ready(Down)
<1>1. DOMAIN Polling = DriverFields /\ DOMAIN Down = DriverFields
    BY DEF Polling, Down, DriverFields
<1>2. Directed(Polling)
    BY DEF Directed, Polling, DriverPc, OnAttempt, OnCandidate, OnSession, Launching, Office
<1>3. Directed(Down)
    BY DEF Directed, Polling, Down, DriverPc, OnAttempt, OnCandidate, OnSession, Launching, Office
<1>4. Polling.pc = "poll" /\ Down.pc = "down"
    BY DEF Polling, Down
<1> QED BY <1>1, <1>2, <1>3, <1>4 DEF Ready, Sound

\* The fields of a driver about to perform a command.
LEMMA TaskFields ==
    ASSUME NEW pc, NEW c, NEW office, NEW a, NEW k
    PROVE  LET d == Task(pc, c, office, a, k) IN
           /\ DOMAIN d = DriverFields
           /\ d.pc = pc /\ d.campaign = c /\ d.office = office /\ d.attempt = a
           /\ d.candidate = k
<1> DEFINE f == Fences(c, a, k)
<1>1. DOMAIN Polling = DriverFields
    BY DEF Polling, DriverFields
<1> HIDE DEF f
<1>2. LET d == [Polling EXCEPT !.pc = pc, !.campaign = c, !.office = office, !.attempt = a,
                               !.candidate = k, !.fence = f] IN
      /\ DOMAIN d = DriverFields
      /\ d.pc = pc /\ d.campaign = c /\ d.office = office /\ d.attempt = a
      /\ d.candidate = k
    BY <1>1 DEF DriverFields
<1> QED BY <1>2 DEF Task, f

\* It holds the revisions current when it is chosen.
LEMMA TaskFence ==
    ASSUME NEW pc, NEW c, NEW office, NEW a, NEW k
    PROVE  LET d == Task(pc, c, office, a, k) IN
           d.fence = Fences(c, a, k) /\ ~d.recovering
<1> DEFINE f == Fences(c, a, k)
<1>1. DOMAIN Polling = DriverFields /\ Polling.recovering = FALSE
    BY DEF Polling, DriverFields
<1> HIDE DEF f
<1>2. LET d == [Polling EXCEPT !.pc = pc, !.campaign = c, !.office = office, !.attempt = a,
                               !.candidate = k, !.fence = f] IN
      d.fence = f /\ ~d.recovering
    BY <1>1 DEF DriverFields
<1> QED BY <1>2 DEF Task, f

\* A command of the driver that is about an attempt, or the failure of a
\* campaign, names its rows.
LEMMA TaskSound ==
    ASSUME NEW pc \in OnAttempt \cup {"failCampaign"},
           NEW c \in CampaignId, NEW office \in Office,
           NEW a \in AttemptId \cup {0}, NEW k \in CandidateId \cup {0},
           pc \in OnAttempt => a \in AttemptId,
           pc \in OnCandidate => k \in CandidateId
    PROVE  Ready(Task(pc, c, office, a, k))
<1> DEFINE d == Task(pc, c, office, a, k)
<1>1. /\ DOMAIN d = DriverFields
      /\ d.pc = pc /\ d.campaign = c /\ d.office = office /\ d.attempt = a /\ d.candidate = k
    BY TaskFields
<1> HIDE DEF d
<1>2. Directed(d)
    BY <1>1 DEF Directed, DriverPc, OnAttempt, OnCandidate, OnSession, Launching
<1> QED BY <1>1, <1>2 DEF Ready, Sound, d, OnAttempt

\* So does a launch.
LEMMA LaunchSound ==
    ASSUME NEW c \in CampaignId, NEW rev, NEW office \in Office,
           NEW a \in AttemptId \cup {0}, NEW k \in CandidateId \cup {0},
           office # "Product" => a \in AttemptId,
           office = "Quality" => k \in CandidateId
    PROVE  Ready(LaunchOf(c, rev, office, a, k))
<1> DEFINE d == LaunchOf(c, rev, office, a, k)
<1>1. /\ DOMAIN d = DriverFields
      /\ d.pc = "launch" /\ d.campaign = c /\ d.office = office /\ d.attempt = a
      /\ d.candidate = k
    BY DEF LaunchOf, Polling, DriverFields
<1> HIDE DEF d
<1>2. Directed(d)
    BY <1>1 DEF Directed, DriverPc, OnAttempt, OnCandidate, OnSession, Launching
<1> QED BY <1>1, <1>2 DEF Ready, Sound, d, OnAttempt

\* So does a claim.
LEMMA ClaimSound ==
    ASSUME NEW c \in CampaignId, NEW t \in TicketId, NEW rev
    PROVE  Ready([Task("claim", c, "Engineering", 0, 0)
                    EXCEPT !.ticket = t, !.fence.ticket = rev])
<1> DEFINE b == Task("claim", c, "Engineering", 0, 0)
           d == [b EXCEPT !.ticket = t, !.fence.ticket = rev]
<1>1. /\ DOMAIN b = DriverFields
      /\ b.pc = "claim" /\ b.campaign = c /\ b.office = "Engineering" /\ b.attempt = 0
      /\ b.candidate = 0
    BY TaskFields
<1> HIDE DEF b
<1>2. /\ DOMAIN d = DriverFields
      /\ d.pc = "claim" /\ d.campaign = c /\ d.office = "Engineering" /\ d.attempt = 0
      /\ d.candidate = 0 /\ d.ticket = t
    BY <1>1 DEF DriverFields
<1> HIDE DEF d
<1>3. Directed(d)
    BY <1>2 DEF Directed, DriverPc, OnAttempt, OnCandidate, OnSession, Launching, Office
<1> QED BY <1>2, <1>3 DEF Ready, Sound, d, b

\* So does a Quality retry after which the driver launches itself.
LEMMA RecoveringSound ==
    ASSUME NEW d, Ready(d)
    PROVE  Ready([d EXCEPT !.recovering = TRUE])
<1> DEFINE e == [d EXCEPT !.recovering = TRUE]
<1>1. DOMAIN e = DriverFields /\ \A f \in DriverFields : f # "recovering" => e[f] = d[f]
    BY DEF Ready, Sound, DriverFields
<1>2. /\ e.pc = d.pc /\ e.campaign = d.campaign /\ e.ticket = d.ticket
      /\ e.office = d.office /\ e.attempt = d.attempt /\ e.candidate = d.candidate
      /\ e.session = d.session
    BY <1>1 DEF DriverFields
<1> HIDE DEF e
<1>3. Directed(e)
    BY <1>2 DEF Ready, Sound, Directed
<1> QED BY <1>1, <1>2, <1>3 DEF Ready, Sound, e

\* What continue_downstream selects names its rows.
LEMMA DownstreamSound ==
    ASSUME NEW c \in CampaignId, NEW a \in AttemptId, NEW k \in CandidateId
    PROVE  Ready(DownstreamTask(c, a, k))
<1>1. \A pc \in {"attach", "resume"} : Ready(Task(pc, c, "Engineering", a, k))
    BY TaskSound DEF OnAttempt, OnCandidate, Office
<1>2. Ready(Task("deliver", c, "Quality", a, k))
    BY TaskSound DEF OnAttempt, OnCandidate, Office
<1>3. Ready(LaunchOf(c, campaign[c].rev, "Engineering", a, 0))
    BY LaunchSound DEF Office
<1>4. Ready(LaunchOf(c, campaign[c].rev, "Quality", a, k))
    BY LaunchSound DEF Office
<1>5. \/ DownstreamTask(c, a, k) = Task("attach", c, "Engineering", a, k)
      \/ DownstreamTask(c, a, k) = Task("resume", c, "Engineering", a, k)
      \/ DownstreamTask(c, a, k) = LaunchOf(c, campaign[c].rev, "Engineering", a, 0)
      \/ DownstreamTask(c, a, k) = Task("deliver", c, "Quality", a, k)
      \/ DownstreamTask(c, a, k) = LaunchOf(c, campaign[c].rev, "Quality", a, k)
      \/ DownstreamTask(c, a, k) = Polling
    BY DEF DownstreamTask
<1> QED BY <1>1, <1>2, <1>3, <1>4, <1>5, PollingSound

\* run_next
LEMMA PollSound ==
    ASSUME NEW c \in CampaignId, Poll(c)
    PROVE  Ready(driver')
<1> DEFINE engineering == {a \in AttemptId : RecoverableEngineering(c, a)}
           quality == {p \in AttemptId \X CandidateId : RecoverableQuality(c, p[1], p[2])}
<1>1. \/ \E a \in AttemptId : driver' = Task("retryEngineering", c, "Engineering", a, 0)
      \/ \E p \in AttemptId \X CandidateId :
           driver' = [Task("retryQuality", c, "Quality", p[1], p[2]) EXCEPT !.recovering = TRUE]
      \/ driver' = LaunchOf(c, campaign[c].rev, "Product", 0, 0)
      \/ \E t \in TicketId :
           driver' = [Task("claim", c, "Engineering", 0, 0)
                        EXCEPT !.ticket = t, !.fence.ticket = ticket[t].rev]
      \/ \E a \in AttemptId, k \in CandidateId : driver' = DownstreamTask(c, a, k)
    BY DEF Poll, DriverGoes, TicketsIn
<1>2. ASSUME NEW a \in AttemptId, driver' = Task("retryEngineering", c, "Engineering", a, 0)
      PROVE  Ready(driver')
    BY <1>2, TaskSound DEF OnAttempt, OnCandidate, Office
<1>3. ASSUME NEW p \in AttemptId \X CandidateId,
             driver' = [Task("retryQuality", c, "Quality", p[1], p[2]) EXCEPT !.recovering = TRUE]
      PROVE  Ready(driver')
  <2>1. Ready(Task("retryQuality", c, "Quality", p[1], p[2]))
    BY TaskSound DEF OnAttempt, OnCandidate, Office
  <2> QED BY <1>3, <2>1, RecoveringSound
<1>4. CASE driver' = LaunchOf(c, campaign[c].rev, "Product", 0, 0)
    BY <1>4, LaunchSound DEF Office
<1>5. ASSUME NEW t \in TicketId,
             driver' = [Task("claim", c, "Engineering", 0, 0)
                          EXCEPT !.ticket = t, !.fence.ticket = ticket[t].rev]
      PROVE  Ready(driver')
  <2>1. Ready([Task("claim", c, "Engineering", 0, 0)
                 EXCEPT !.ticket = t, !.fence.ticket = ticket[t].rev])
    BY ClaimSound
  <2> QED BY <1>5, <2>1
<1>6. ASSUME NEW a \in AttemptId, NEW k \in CandidateId, driver' = DownstreamTask(c, a, k)
      PROVE  Ready(driver')
    BY <1>6, DownstreamSound
<1> QED BY <1>1, <1>2, <1>3, <1>4, <1>5, <1>6, Zenon

\* fail_ticket_attempt after a refusal or a failed launch
LEMMA ToFailSound ==
    ASSUME DriverOK, driver.attempt \in AttemptId, driver.pc \notin {"poll", "down"}
    PROVE  Ready(ToFailAttempt)
<1>1. /\ driver.campaign \in CampaignId /\ driver.office \in Office
      /\ driver.candidate \in CandidateId \cup {0}
    BY DEF DriverOK, Sound, Directed
<1> QED BY <1>1, TaskSound DEF ToFailAttempt, OnAttempt, OnCandidate

\* The commands of the driver, accepted, refused or failed.
LEMMA CommandSound ==
    ASSUME DriverOK,
           DriverCommand \/ DriverRefused \/ ResumeHardValidation \/ DriverError
    PROVE  Ready(driver')
<1>p. Ready(Polling)
    BY PollingSound
<1>d. /\ driver.pc \notin {"poll", "down"} => driver.campaign \in CampaignId
      /\ driver.pc \in OnAttempt => driver.attempt \in AttemptId
      /\ driver.pc \in OnCandidate => driver.candidate \in CandidateId
    BY DEF DriverOK, Sound, Directed
<1>1. CASE Claim
  <2>1. PICK a \in AttemptId :
          driver' \in {Polling, LaunchOf(driver.campaign, driver.fence.campaign,
                                         "Engineering", a, 0)}
    BY <1>1 DEF Claim, DriverGoes
  <2>2. Ready(LaunchOf(driver.campaign, driver.fence.campaign, "Engineering", a, 0))
    BY <1>1, <1>d, LaunchSound DEF Claim, Office
  <2> QED BY <2>1, <2>2, <1>p
<1>2. CASE RetryEngineering
  <2>1. driver.campaign \in CampaignId /\ driver.attempt \in AttemptId
    BY <1>2, <1>d DEF RetryEngineering, OnAttempt
  <2>2. Ready(LaunchOf(driver.campaign, driver.fence.campaign, "Engineering",
                       driver.attempt, 0))
    BY <2>1, LaunchSound DEF Office
  <2> QED BY <1>2, <2>2 DEF RetryEngineering, DriverGoes
<1>3. CASE RetryQuality
  <2> DEFINE d == LaunchOf(driver.campaign, campaign[driver.campaign].rev, "Quality",
                           driver.attempt, driver.candidate)
  <2>1. /\ driver.campaign \in CampaignId /\ driver.attempt \in AttemptId
        /\ driver.candidate \in CandidateId
    BY <1>3, <1>d DEF RetryQuality, OnAttempt, OnCandidate
  <2>2. Ready(d)
    BY <2>1, LaunchSound DEF Office
  <2>3. driver' \in {Polling, d}
    BY <1>3 DEF RetryQuality, DriverGoes
  <2> HIDE DEF d
  <2> QED BY <2>2, <2>3, <1>p
<1>4. CASE FailAttempt \/ FailRunningCampaign \/ AttachCommit \/ Deliver \/ ResumeHardValidation
    BY <1>4, <1>p DEF FailAttempt, FailRunningCampaign, AttachCommit, Deliver,
                      ResumeHardValidation, DriverGoes
<1>5. driver.pc \in {"attach", "retryQuality"} => Ready(ToFailAttempt)
    BY <1>d, ToFailSound DEF OnAttempt
<1>6. CASE DriverRefused
  <2>1. driver' = AfterRefusal
    BY <1>6, RefusalEffect DEF DriverGoes
  <2>2. \/ AfterRefusal = Polling
        \/ driver.pc \in {"attach", "retryQuality"} /\ AfterRefusal = ToFailAttempt
    BY DEF AfterRefusal
  <2> QED BY <2>1, <2>2, <1>5, <1>p
<1>7. CASE DriverError
    BY <1>7, <1>5, <1>p DEF DriverError
<1> QED BY <1>1, <1>2, <1>3, <1>4, <1>6, <1>7 DEF DriverCommand

\* A launch in progress keeps its target while its position changes.
LEMMA LaunchingSound ==
    ASSUME DriverOK, driver.pc \in Launching,
           NEW d, DOMAIN d = DriverFields,
           d.pc \in Launching,
           d.pc \in OnSession => d.session \in SessionId,
           d.office = driver.office, d.campaign = driver.campaign,
           d.attempt = driver.attempt, d.candidate = driver.candidate
    PROVE  Sound(d)
BY DEF DriverOK, Sound, Directed, DriverPc, OnAttempt, OnCandidate, OnSession, Launching

\* launch: assignment, session, failures and the end of the session
LEMMA LaunchStepSound ==
    ASSUME DriverOK,
           LaunchAssignment \/ LaunchSession \/ LaunchFails \/ LaunchAborts \/ EndStep
    PROVE  Sound(driver')
<1>f. /\ DOMAIN driver = DriverFields
      /\ driver.pc \in OnSession => driver.session \in SessionId
    BY DEF DriverOK, Sound, Directed
<1>1. CASE LaunchAssignment
  <2>1. PICK s \in SessionId :
          driver' = [driver EXCEPT !.pc = "start", !.session = s, !.fence = NoFence]
    BY <1>1 DEF LaunchAssignment, DriverGoes
  <2>2. /\ DOMAIN driver' = DriverFields /\ driver'.pc = "start" /\ driver'.session = s
        /\ driver'.office = driver.office /\ driver'.campaign = driver.campaign
        /\ driver'.attempt = driver.attempt /\ driver'.candidate = driver.candidate
    BY <1>f, <2>1 DEF DriverFields
  <2> QED BY <1>1, <2>2, LaunchingSound DEF LaunchAssignment, Launching
<1>2. ASSUME NEW pc \in {"attend", "launchFailed", "settle"},
             driver.pc \in {"launch", "start", "attend"},
             pc # "launchFailed" => driver.pc \in OnSession,
             driver' = [driver EXCEPT !.pc = pc]
      PROVE  Sound(driver')
  <2>1. /\ DOMAIN driver' = DriverFields /\ driver'.pc = pc /\ driver'.session = driver.session
        /\ driver'.office = driver.office /\ driver'.campaign = driver.campaign
        /\ driver'.attempt = driver.attempt /\ driver'.candidate = driver.candidate
    BY <1>f, <1>2 DEF DriverFields
  <2>2. pc \in OnSession => driver'.session \in SessionId
    BY <1>f, <1>2, <2>1 DEF OnSession
  <2> QED BY <1>2, <2>1, <2>2, LaunchingSound DEF Launching
<1> QED
    BY <1>1, <1>2
    DEF LaunchSession, LaunchFails, LaunchAborts, EndStep, SessionEnds, DriverGoes, OnSession

\* What the driver does with a launch that ended or failed.
LEMMA SettleSound ==
    ASSUME DriverOK, Settle \/ SettleFailedLaunch
    PROVE  Ready(driver')
<1>d. /\ driver.campaign \in CampaignId /\ driver.office \in Office
      /\ driver.attempt \in AttemptId \cup {0} /\ driver.candidate \in CandidateId \cup {0}
      /\ driver.office # "Product" => driver.attempt \in AttemptId
      /\ driver.office = "Quality" => driver.candidate \in CandidateId
      /\ driver.pc \notin {"poll", "down"}
    BY DEF Settle, SettleFailedLaunch, DriverOK, Sound, Directed, Launching
<1>1. Ready(Task("failCampaign", driver.campaign, "Product", 0, 0))
    BY <1>d, TaskSound DEF OnAttempt, OnCandidate, Office
<1>2. Ready(RetryOrFailProduct)
    BY <1>1, PollingSound DEF RetryOrFailProduct
<1>3. driver.office = "Engineering" => Ready(ToFailAttempt)
    BY <1>d, ToFailSound
<1>4. driver.office = "Quality" =>
        Ready(Task("retryQuality", driver.campaign, "Quality", driver.attempt, driver.candidate))
    BY <1>d, TaskSound DEF OnAttempt, OnCandidate, Office
<1>5. ASSUME NEW retry \in BOOLEAN
      PROVE  Ready(TerminalizeFailedLaunch(retry))
    BY <1>d, <1>1, <1>2, <1>3, <1>4 DEF TerminalizeFailedLaunch, Office
<1>6. Ready(TerminalizeFailedLaunch(TRUE)) /\ Ready(TerminalizeFailedLaunch(FALSE))
    BY <1>5
<1>7. driver' \in {RetryOrFailProduct, Polling, TerminalizeFailedLaunch(TRUE),
                   TerminalizeFailedLaunch(FALSE)}
    BY DEF Settle, SettleFailedLaunch, DriverGoes
<1> QED BY <1>2, <1>6, <1>7, PollingSound

\* Steps that leave the driver where it is.
LEMMA DriverStays ==
    RpcStep \/ OperatorStep \/ OperatorDecides \/ CancelStep \/ RestartReconcile \/ Deadline
      => UNCHANGED driver
<1>1. RpcStep => UNCHANGED driver
    BY DEF RpcStep, ProposeTicket, CheckpointRegression, RpcSubmitCandidate,
           RpcRecordHardValidation, RpcRunFullSuite, RpcSubmitReview, RpcReaches
<1>2. OperatorStep \/ OperatorDecides \/ RestartReconcile \/ Deadline => UNCHANGED driver
    BY DEF OperatorStep, OperatorDecides, RestartReconcile, Deadline, memory
<1>3. CancelStep => UNCHANGED driver
    BY DEF CancelStep, CancelIdle, CancelActive, CancelFinish, memory
<1> QED BY <1>1, <1>2, <1>3

\* No step sends the driver to a command without the rows it is about.
LEMMA DriverKept ==
    ASSUME DriverOK, [ControlNext]_cvars
    PROVE  DriverOK'
<1>0. CASE UNCHANGED driver
    BY <1>0 DEF DriverOK, Sound, Directed
<1>1. CASE DriverStep
    BY <1>1, PollSound, CommandSound, LaunchStepSound, SettleSound DEF DriverStep, DriverOK, Ready
<1>2. CASE EndStep \/ FaultStep
    BY <1>2, LaunchStepSound, CommandSound, PollingSound DEF FaultStep, Crash, DriverOK, Ready
<1>3. CASE RestartServes
    BY <1>3, PollingSound DEF RestartServes, DriverOK, Ready
<1>4. CASE UNCHANGED cvars
    BY <1>0, <1>4 DEF cvars
<1> QED BY <1>0, <1>1, <1>2, <1>3, <1>4, DriverStays DEF ControlNext, RestartStep

\* Steps that leave a cancellation where it is.
LEMMA CancelStays ==
    ASSUME DriverStep \/ RpcStep \/ OperatorStep \/ OperatorDecides \/ RestartStep \/ Deadline
             \/ DriverError \/ (\E c \in CampaignId : CancelIdle(c))
    PROVE  UNCHANGED cancel
<1>1. RpcStep => UNCHANGED cancel
    BY DEF RpcStep, ProposeTicket, CheckpointRegression, RpcSubmitCandidate,
           RpcRecordHardValidation, RpcRunFullSuite, RpcSubmitReview, RpcReaches
<1>2. OperatorStep \/ OperatorDecides \/ RestartStep \/ Deadline \/ DriverError
        => UNCHANGED cancel
    BY DEF OperatorStep, OperatorDecides, RestartStep, RestartReconcile, RestartServes,
           Deadline, DriverError, memory
<1>3. ASSUME NEW c \in CampaignId, Poll(c)
      PROVE  UNCHANGED cancel
    BY <1>3 DEF Poll, DriverGoes
<1>4. DriverCommand => UNCHANGED cancel
    BY DEF DriverCommand, Claim, RetryEngineering, RetryQuality, FailAttempt,
           FailRunningCampaign, AttachCommit, Deliver, DriverGoes
<1>5. DriverStep => UNCHANGED cancel
    BY <1>3, <1>4, RefusalEffect
    DEF DriverStep, ResumeHardValidation, LaunchAssignment, LaunchSession, LaunchFails,
        Settle, SettleFailedLaunch, DriverGoes
<1>6. ASSUME NEW c \in CampaignId, CancelIdle(c)
      PROVE  UNCHANGED cancel
    BY <1>6 DEF CancelIdle, memory
<1> QED BY <1>1, <1>2, <1>5, <1>6

\* A cancellation in progress names its campaign.
LEMMA CancelKept ==
    ASSUME CancelOK, [ControlNext]_cvars
    PROVE  CancelOK'
<1>0. CASE UNCHANGED cancel
    BY <1>0 DEF CancelOK
<1>1. CASE cancel' = NoCancel
    BY <1>1 DEF CancelOK, NoCancel, CancelFields
<1>2. ASSUME NEW c \in CampaignId, CancelActive(c)
      PROVE  CancelOK'
    BY <1>2 DEF CancelActive, CancelOK, CancelFields
<1>3. CASE EndStep
  <2> DEFINE rev == campaign'[cancel.campaign].rev
  <2>1. \/ cancel' = cancel
        \/ cancel.pc = "wait" /\ cancel' = [cancel EXCEPT !.pc = "finish", !.reconciled = rev]
    BY <1>3, Zenon DEF EndStep, SessionEnds
  <2> HIDE DEF rev
  <2> QED BY <1>0, <2>1 DEF CancelOK, CancelFields
<1>4. CASE LaunchAborts \/ Crash \/ CancelFinish
    BY <1>0, <1>1, <1>4 DEF LaunchAborts, Crash, CancelFinish
<1>5. CASE UNCHANGED cvars
    BY <1>0, <1>5 DEF cvars
<1> QED BY <1>0, <1>2, <1>3, <1>4, <1>5, CancelStays DEF ControlNext, FaultStep, CancelStep

\* The rows and what is held about them stay consistent.
LEMMA ControlInvariant == ControlSpec => []ControlInv
<1>1. ControlInit => ControlInv
  <2> SUFFICES ASSUME ControlInit PROVE ControlInv
    OBVIOUS
  <2>1. TypeOK
    BY InitTypeOK DEF ControlInit
  <2>2. SubmitterLinks
    BY DEF ControlInit, Init, SubmitterLinks, NoCandidate
  <2>3. DriverOK
    BY PollingSound DEF ControlInit, DriverOK, Ready
  <2>4. CancelOK
    BY DEF ControlInit, CancelOK, NoCancel, CancelFields
  <2> QED BY <2>1, <2>2, <2>3, <2>4 DEF ControlInv
<1>2. ControlInv /\ [ControlNext]_cvars => ControlInv'
    BY ControlIsStep, NextTypeOK, SubmitterLinksKept, DriverKept, CancelKept DEF ControlInv
<1> QED BY <1>1, <1>2, PTL DEF ControlSpec

\* The control plane refines the authority: whatever the driver, the sessions,
\* the operator, crashes and restarts do, with whatever stale revisions they
\* hold, the rows only change by transactions of the stores under the revisions
\* current at that moment.  Every theorem about Spec therefore holds of the
\* running system.
THEOREM ControlImplementsAuthority == ControlSpec => Spec
<1>1. ControlInit => Init
    BY DEF ControlInit
<1>2. ControlInv /\ [ControlNext]_cvars => [Next]_vars
    BY ControlIsStep
<1> QED BY <1>1, <1>2, ControlInvariant, PTL DEF ControlSpec, Spec

-----------------------------------------------------------------------------
(* Paid sessions and the campaigns that pay for them                       *)

OneRunning == \A r, s \in SessionId : Running(r) /\ Running(s) => r = s

\* The assignment the driver is about to start a session for is on campaign c.
StartsOn(c) == driver.pc = "start" /\ session[driver.session].campaign = c

\* A cancellation that saw its session end may close the campaign as long as the
\* revision is the one the session's end produced: since then no session of the
\* campaign was started and none is about to be, because create_assignment
\* advances the revision.
FinishSafe ==
    /\ cancel.pc # "idle" => campaign[cancel.campaign].state # "Absent"
    /\ cancel.pc = "finish" =>
         /\ cancel.reconciled \in Nat
         /\ cancel.reconciled <= campaign[cancel.campaign].rev
         /\ campaign[cancel.campaign].rev = cancel.reconciled =>
              ~CampaignSessionActive(cancel.campaign) /\ ~StartsOn(cancel.campaign)

FundedInv == OneRunning /\ PaidSessionFunded /\ FinishSafe

\* A campaign that was started stays, and its revision does not go back.
LEMMA CampaignsGrow ==
    ASSUME TypeOK, RowLinks, [Next]_vars, NEW c \in CampaignId, campaign[c].state # "Absent"
    PROVE  campaign'[c].state # "Absent" /\ campaign'[c].rev >= campaign[c].rev
<1>n. campaign[c].rev \in Nat
    BY DEF TypeOK, CampaignRow
<1>1. CASE Next
  <2>1. CampaignsFenced
    BY <1>1, ProcessStepFenced, TicketStepFenced, AttemptStepFenced, CandidateStepFenced,
       UnwrittenFenced DEF Next
  <2>2. campaign'[c].state # "Absent"
    BY <1>1, StepIsEvent, CampaignsStay DEF RowLinks
  <2> QED BY <2>1, <2>2, <1>n DEF CampaignsFenced
<1>2. CASE UNCHANGED vars
    BY <1>2, <1>n DEF vars
<1> QED BY <1>1, <1>2

\* A step that starts no session and prepares no new one keeps a cancellation
\* safe to finish.
LEMMA FinishSafeKept ==
    ASSUME ControlInv, RowLinks, [Next]_vars, FinishSafe,
           UNCHANGED cancel,
           \A s \in SessionId : Running(s)' => Running(s) /\ session'[s].campaign = session[s].campaign,
           driver'.pc = "start" =>
             UNCHANGED driver /\ session'[driver.session].campaign = session[driver.session].campaign
    PROVE  FinishSafe'
<1> DEFINE c == cancel.campaign
<1>1. CASE cancel.pc = "idle"
    BY <1>1 DEF FinishSafe
<1>2. CASE cancel.pc # "idle"
  <2>1. c \in CampaignId /\ campaign[c].state # "Absent"
    BY <1>2 DEF ControlInv, CancelOK, FinishSafe
  <2>2. campaign'[c].state # "Absent" /\ campaign'[c].rev >= campaign[c].rev
    BY <2>1, CampaignsGrow DEF ControlInv
  <2>3. campaign[c].rev \in Nat /\ campaign'[c].rev \in Nat
    BY <2>1, NextTypeOK DEF ControlInv, TypeOK, CampaignRow
  <2>4. CampaignSessionActive(c)' => CampaignSessionActive(c)
    BY DEF CampaignSessionActive
  <2>5. StartsOn(c)' => StartsOn(c)
    BY DEF StartsOn
  <2> QED BY <2>2, <2>3, <2>4, <2>5 DEF FinishSafe
<1> QED BY <1>1, <1>2

\* Everything but campaign commands, deliveries, assignments and sessions leaves
\* campaigns and sessions alone.
LEMMA QuietSteps ==
    ASSUME RpcStep \/ OperatorDecides \/ Deadline \/ OperatorSponsors \/ OperatorReleases
             \/ Claim \/ RetryEngineering \/ RetryQuality \/ FailAttempt \/ AttachCommit
             \/ ResumeHardValidation
    PROVE  UNCHANGED <<campaign, session>>
<1>1. CASE RpcStep
  <2>1. CASE ProposeTicket \/ CheckpointRegression
    BY <2>1 DEF ProposeTicket, SubmitTicketProposal, CheckpointRegression, vars
  <2>2. CASE RpcSubmitCandidate
    BY <2>2 DEF RpcSubmitCandidate, SubmitCandidate
  <2>3. CASE RpcRecordHardValidation
    BY <2>3, Zenon DEF RpcRecordHardValidation, RecordHardValidation
  <2>4. CASE RpcRunFullSuite
    BY <2>4, Zenon DEF RpcRunFullSuite, RecordQualityValidation
  <2>5. CASE RpcSubmitReview
    BY <2>5, Zenon DEF RpcSubmitReview, SubmitQualityReview
  <2> QED BY <1>1, <2>1, <2>2, <2>3, <2>4, <2>5 DEF RpcStep
<1>2. CASE OperatorDecides
  <2>1. PICK k \in CandidateId, decision \in Decision, override \in BOOLEAN :
          DecideCandidate(k, decision, override, candidate[k].rev,
                          attempt[candidate[k].attempt].rev,
                          TicketOf(candidate[k].attempt).rev)
    BY <1>2, Zenon DEF OperatorDecides
  <2> QED BY <2>1, Zenon DEF DecideCandidate
<1>3. CASE Deadline \/ OperatorSponsors \/ OperatorReleases
    BY <1>3 DEF Deadline, DeadlineElapses, OperatorSponsors, SponsorTicket,
                OperatorReleases, ReleaseTicketAttempt
<1>4. CASE Claim \/ RetryEngineering \/ RetryQuality \/ FailAttempt \/ AttachCommit
    BY <1>4, ZenonT(30) DEF Claim, ClaimSponsoredTicket, RetryEngineering,
                RetryEngineeringAttempt, RetryQuality, RetryQualityAttempt, FailAttempt,
                FailTicketAttempt, CanFail, AttachCommit, AttachCandidateCommit
<1>5. CASE ResumeHardValidation
    BY <1>5, ZenonT(30) DEF ResumeHardValidation, RecordHardValidation, vars
<1> QED BY <1>1, <1>2, <1>3, <1>4, <1>5

\* Campaign commands refuse to race a session they can see.
LEMMA CampaignWriteFunded ==
    ASSUME TypeOK, SessionLinks, OneRunning, PaidSessionFunded, UNCHANGED session,
           \/ \E c \in CampaignId : StartCampaign(c)
           \/ \E c \in CampaignId, state \in CampaignState :
                CloseCampaign(c, state) /\ ~CampaignSessionActive(c)
           \/ ~PaidSessionActive
           \/ UNCHANGED campaign
    PROVE  OneRunning' /\ PaidSessionFunded'
<1>0. OneRunning'
    BY DEF OneRunning, Running
<1>1. ASSUME NEW c \in CampaignId, StartCampaign(c)
      PROVE  PaidSessionFunded'
    BY <1>1 DEF StartCampaign, NoCampaign, TypeOK, PaidSessionFunded, Running
<1>2. ASSUME NEW c \in CampaignId, NEW state \in CampaignState, CloseCampaign(c, state),
             ~CampaignSessionActive(c)
      PROVE  PaidSessionFunded'
  <2>1. \A s \in SessionId : Running(s) => session[s].campaign \in CampaignId \ {c}
    BY <1>2 DEF SessionLinks, CampaignSessionActive, Running
  <2>2. \A d \in CampaignId \ {c} : campaign'[d] = campaign[d]
    BY <1>2 DEF CloseCampaign, TypeOK
  <2> QED BY <2>1, <2>2 DEF PaidSessionFunded, Running
<1>3. CASE ~PaidSessionActive
    BY <1>0, <1>3 DEF PaidSessionActive, PaidSessionFunded, Running
<1>4. CASE UNCHANGED campaign
    BY <1>0, <1>4 DEF PaidSessionFunded, Running
<1> QED BY <1>0, <1>1, <1>2, <1>3, <1>4

\* create_assignment starts no session and leaves the campaign's state and cost.
LEMMA AssignmentFunded ==
    ASSUME TypeOK, SessionLinks, OneRunning, PaidSessionFunded,
           NEW s \in SessionId, NEW c \in CampaignId, NEW rev, NEW office, NEW a, NEW k,
           CreateAssignment(s, c, rev, office, a, k)
    PROVE  OneRunning' /\ PaidSessionFunded'
<1>1. \A r \in SessionId : Running(r)' => Running(r) /\ session'[r] = session[r]
    BY DEF CreateAssignment, TypeOK, Running
<1>2. \A d \in CampaignId : campaign'[d].state = campaign[d].state
                            /\ campaign'[d].cost = campaign[d].cost
    BY DEF CreateAssignment, TypeOK, CampaignRow
<1>3. \A r \in SessionId : Running(r) => session[r].campaign \in CampaignId
    BY DEF SessionLinks, Running
<1> QED BY <1>1, <1>2, <1>3 DEF OneRunning, PaidSessionFunded

\* start_session starts one alone, in a campaign that may spend.
LEMMA StartFunded ==
    ASSUME TypeOK, NEW s \in SessionId, StartSession(s)
    PROVE  OneRunning' /\ PaidSessionFunded'
<1>1. /\ \A r \in SessionId : Running(r)' => r = s
      /\ session'[s].campaign = session[s].campaign
      /\ UNCHANGED campaign
    BY DEF StartSession, TypeOK, SessionRow, Running, PaidSessionActive
<1> QED BY <1>1 DEF OneRunning, PaidSessionFunded, StartSession

\* Nothing runs once the running session has ended.
LEMMA TerminalFunded ==
    ASSUME TypeOK, OneRunning, NEW s \in SessionId, NEW stop \in StopReason, NEW cost,
           TerminalSession(s, stop, cost)
    PROVE  \A r \in SessionId : ~Running(r)'
<1>1. Running(s) /\ session' = [session EXCEPT ![s].state = SessionStateOf(stop)]
    BY Zenon DEF TerminalSession
<1>2. SessionStateOf(stop) # "Running"
    BY SessionStateOfType DEF SessionTerminal
<1> QED BY <1>1, <1>2 DEF OneRunning, TypeOK, SessionRow, Running

\* Every step of the control plane keeps sessions funded.
LEMMA FundedKept ==
    ASSUME ControlInv, RowLinks, FundedInv, [ControlNext]_cvars
    PROVE  FundedInv'
<1> USE DEF FundedInv
<1>n. [Next]_vars
    BY ControlIsStep
<1>t. TypeOK /\ SessionLinks /\ TypeOK'
    BY <1>n, NextTypeOK DEF ControlInv, RowLinks

\* The campaign writes: session rows stay, and the driver starts nothing.
<1>w. ASSUME UNCHANGED session,
             \/ \E c \in CampaignId : StartCampaign(c)
             \/ \E c \in CampaignId, state \in CampaignState :
                  CloseCampaign(c, state) /\ ~CampaignSessionActive(c)
             \/ ~PaidSessionActive
             \/ UNCHANGED campaign
      PROVE  OneRunning' /\ PaidSessionFunded'
    BY <1>t, <1>w, CampaignWriteFunded
<1>f. ASSUME UNCHANGED <<session, cancel>>, UNCHANGED driver \/ driver'.pc # "start"
      PROVE  FinishSafe'
  <2>1. \A s \in SessionId : Running(s)' => Running(s) /\ session'[s].campaign = session[s].campaign
    BY <1>f DEF Running
  <2> QED BY <1>f, <1>n, <2>1, FinishSafeKept
<1>i. ASSUME UNCHANGED session, cancel' = NoCancel
      PROVE  FinishSafe'
    BY <1>i DEF FinishSafe, NoCancel
<1>1. CASE \E c \in CampaignId : Poll(c)
    BY <1>1, <1>w, <1>f, PollSound DEF Poll, DriverGoes, Ready, vars
<1>2. CASE Claim \/ RetryEngineering \/ RetryQuality \/ FailAttempt \/ AttachCommit
             \/ ResumeHardValidation \/ DriverRefused \/ DriverError
  <2>1. UNCHANGED <<campaign, session>>
    BY <1>2, QuietSteps, RefusalEffect DEF DriverError, vars
  <2>2. driver'.pc # "start"
    BY <1>2, CommandSound DEF DriverCommand, ControlInv, Ready
  <2>3. UNCHANGED cancel
    BY <1>2, CancelStays DEF DriverStep, DriverCommand
  <2> QED BY <2>1, <2>2, <2>3, <1>w, <1>f
<1>3. CASE FailRunningCampaign \/ Deliver
  <2>1. driver'.pc # "start"
    BY <1>3, CommandSound DEF DriverCommand, ControlInv, Ready
  <2>2. UNCHANGED cancel
    BY <1>3, CancelStays DEF DriverStep, DriverCommand
  <2>3. CASE FailRunningCampaign
    <3>1. /\ CloseCampaign(driver.campaign, "Failed")
          /\ ~CampaignSessionActive(driver.campaign)
          /\ driver.campaign \in CampaignId
      BY <2>3 DEF FailRunningCampaign, FailCampaign, ControlInv, DriverOK, Sound, Directed
    <3>2. "Failed" \in CampaignState /\ UNCHANGED session
      BY <3>1 DEF CampaignState, CloseCampaign
    <3> QED BY <3>1, <3>2, <2>1, <2>2, <1>w, <1>f
  <2>4. CASE Deliver
    <3>1. UNCHANGED session /\ ~PaidSessionActive
      BY <2>4, Zenon DEF Deliver, RecordDelivery
    <3> QED BY <3>1, <2>1, <2>2, <1>w, <1>f
  <2> QED BY <1>3, <2>3, <2>4
<1>4. CASE Settle \/ SettleFailedLaunch \/ LaunchFails \/ RestartServes
  <2>1. UNCHANGED <<campaign, session, cancel>>
    BY <1>4 DEF Settle, SettleFailedLaunch, LaunchFails, RestartServes, DriverGoes, vars
  <2>2. CASE Settle \/ SettleFailedLaunch
    BY <2>1, <2>2, SettleSound, <1>w, <1>f DEF ControlInv, Ready
  <2>3. CASE LaunchFails
    <3>1. driver'.pc = "launchFailed"
      BY <2>3 DEF LaunchFails, DriverGoes, ControlInv, DriverOK, Sound, DriverFields
    <3> QED BY <2>1, <3>1, <1>w, <1>f
  <2>4. CASE RestartServes
    BY <2>1, <2>4, PollingSound, <1>w, <1>f DEF RestartServes, Ready
  <2> QED BY <1>4, <2>2, <2>3, <2>4
<1>5. CASE LaunchAssignment
  <2> DEFINE c == driver.campaign
  <2>1. PICK s \in SessionId :
          /\ CreateAssignment(s, c, driver.fence.campaign, driver.office,
                              driver.attempt, driver.candidate)
          /\ driver' = [driver EXCEPT !.pc = "start", !.session = s, !.fence = NoFence]
          /\ UNCHANGED cancel
    BY <1>5 DEF LaunchAssignment, DriverGoes
  <2>2. c \in CampaignId
    BY <1>5 DEF LaunchAssignment, ControlInv, DriverOK, Sound, Directed
  <2>3. OneRunning' /\ PaidSessionFunded'
    BY <1>t, <2>1, <2>2, AssignmentFunded
  <2>4. /\ \A r \in SessionId :
             Running(r)' => Running(r) /\ session'[r].campaign = session[r].campaign
        /\ session'[s].campaign = c
        /\ campaign'[c].rev = campaign[c].rev + 1
        /\ campaign'[c].state # "Absent"
        /\ \A d \in CampaignId : d # c => campaign'[d] = campaign[d]
    BY <1>t, <2>1, <2>2 DEF CreateAssignment, TypeOK, CampaignRow, Running
  <2>5. driver'.session = s
    BY <2>1 DEF ControlInv, DriverOK, Sound, DriverFields
  <2>6. campaign[c].rev \in Nat
    BY <1>t, <2>2 DEF TypeOK, CampaignRow
  <2>7. cancel.pc # "idle" => cancel.campaign \in CampaignId
    BY DEF ControlInv, CancelOK
  <2>8. CASE cancel.pc # "idle" /\ cancel.campaign = c
    <3>1. UNCHANGED cancel
      BY <2>1
    <3>2. cancel.pc = "finish" => campaign'[c].rev > cancel.reconciled
      BY <2>4, <2>6, <2>8 DEF FinishSafe
    <3>3. FinishSafe'
      BY <2>4, <2>8, <3>1, <3>2, <2>6 DEF FinishSafe
    <3> QED BY <2>3, <3>3
  <2>9. CASE cancel.pc # "idle" /\ cancel.campaign # c
    <3>1. CampaignSessionActive(cancel.campaign)' => CampaignSessionActive(cancel.campaign)
      BY <2>1, <2>4 DEF CampaignSessionActive
    <3>2. ~StartsOn(cancel.campaign)'
      BY <2>1, <2>4, <2>5, <2>9 DEF StartsOn
    <3>3. FinishSafe'
      BY <2>1, <2>4, <2>7, <2>9, <3>1, <3>2 DEF FinishSafe
    <3> QED BY <2>3, <3>3
  <2> QED BY <2>1, <2>3, <2>8, <2>9 DEF FinishSafe
<1>6. CASE LaunchSession
  <2>1. /\ StartSession(driver.session) /\ driver.session \in SessionId
        /\ UNCHANGED cancel
        /\ driver.pc = "start"
    BY <1>6 DEF LaunchSession, ControlInv, DriverOK, Sound, Directed, OnSession
  <2>2. OneRunning' /\ PaidSessionFunded'
    BY <1>t, <2>1, StartFunded
  <2>3. driver'.pc # "start"
    BY <1>6 DEF LaunchSession, ControlInv, DriverOK, Sound, DriverFields
  <2>4. /\ UNCHANGED campaign
        /\ \A r \in SessionId : Running(r)' => r = driver.session
        /\ session'[driver.session].campaign = session[driver.session].campaign
    BY <1>t, <2>1 DEF StartSession, TypeOK, SessionRow, Running, PaidSessionActive
  <2>5. CampaignSessionActive(cancel.campaign)' => StartsOn(cancel.campaign)
    BY <2>1, <2>4 DEF CampaignSessionActive, StartsOn
  <2> QED BY <2>1, <2>2, <2>3, <2>4, <2>5 DEF FinishSafe, StartsOn
<1>7. CASE EndStep
  <2>1. PICK stop \in StopReason, cost \in SessionCost : SessionEnds(stop, cost)
    BY <1>7 DEF EndStep
  <2>2. TerminalSession(driver.session, stop, cost) /\ driver.session \in SessionId
    BY <2>1 DEF SessionEnds, ControlInv, DriverOK, Sound, Directed, OnSession
  <2>3. \A r \in SessionId : ~Running(r)'
    BY <1>t, <2>2, TerminalFunded
  <2>4. driver'.pc = "settle"
    BY <2>1 DEF SessionEnds, ControlInv, DriverOK, Sound, DriverFields
  <2>5. CASE UNCHANGED cancel
    <3>1. FinishSafe'
      BY <2>3, <2>4, <2>5, <1>n, FinishSafeKept
    <3> QED BY <2>3, <3>1 DEF OneRunning, PaidSessionFunded
  <2>6. CASE cancel.pc = "wait"
             /\ cancel' = [cancel EXCEPT !.pc = "finish",
                                         !.reconciled = campaign'[cancel.campaign].rev]
    <3> DEFINE rev == campaign'[cancel.campaign].rev
    <3>1. cancel.campaign \in CampaignId /\ campaign[cancel.campaign].state # "Absent"
      BY <2>6 DEF ControlInv, CancelOK, FinishSafe
    <3>2. campaign'[cancel.campaign].state # "Absent"
      BY <1>n, <3>1, CampaignsGrow DEF ControlInv
    <3>3. rev \in Nat
      BY <1>t, <3>1 DEF TypeOK, CampaignRow
    <3>4. cancel'.campaign = cancel.campaign /\ cancel'.reconciled = rev
      <4> HIDE DEF rev
      <4> QED BY <2>6 DEF rev, ControlInv, CancelOK, CancelFields
    <3>5. FinishSafe'
      BY <2>3, <2>4, <3>2, <3>3, <3>4 DEF FinishSafe, CampaignSessionActive, StartsOn
    <3> QED BY <2>3, <3>5 DEF OneRunning, PaidSessionFunded
  <2> QED BY <2>1, <2>5, <2>6, Zenon DEF SessionEnds
<1>8. CASE RestartReconcile
  <2>1. PICK s \in SessionId : TerminalSession(s, "Interrupted", "Unknown")
    BY <1>8 DEF RestartReconcile
  <2>2. \A r \in SessionId : ~Running(r)'
    BY <1>t, <2>1, TerminalFunded DEF StopReason
  <2>3. UNCHANGED <<driver, cancel>> /\ driver.pc = "down"
    BY <1>8 DEF RestartReconcile, memory
  <2>4. FinishSafe'
    BY <2>2, <2>3, <1>n, FinishSafeKept
  <2> QED BY <2>2, <2>4 DEF OneRunning, PaidSessionFunded
<1>9. CASE RpcStep \/ OperatorDecides \/ Deadline
    BY <1>9, QuietSteps, DriverStays, CancelStays, <1>w, <1>f
<1>10. CASE OperatorStep
  <2>1. UNCHANGED <<driver, cancel>>
    BY <1>10, DriverStays, CancelStays
  <2>2. UNCHANGED session
    BY <1>10, QuietSteps DEF OperatorStep, StartCampaign
  <2>3. UNCHANGED campaign \/ \E c \in CampaignId : StartCampaign(c)
    BY <1>10, QuietSteps DEF OperatorStep
  <2> QED BY <2>1, <2>2, <2>3, <1>w, <1>f
<1>11. CASE CancelStep
  <2>1. UNCHANGED driver
    BY <1>11, DriverStays
  <2>2. ASSUME NEW c \in CampaignId, CancelIdle(c)
        PROVE  FundedInv'
    <3>1. CloseCampaign(c, "Cancelled") /\ ~CampaignSessionActive(c) /\ UNCHANGED <<session, cancel>>
      BY <2>2 DEF CancelIdle, CancelCampaign, CloseCampaign, memory
    <3> QED BY <3>1, <2>1, <1>w, <1>f DEF CampaignState
  <2>3. ASSUME NEW c \in CampaignId, CancelActive(c)
        PROVE  FundedInv'
    <3>1. UNCHANGED <<campaign, session>>
      BY <2>3 DEF CancelActive, vars
    <3>2. cancel'.pc = "wait" /\ campaign[cancel'.campaign].state = "Running"
      BY <2>3 DEF CancelActive
    <3>3. FinishSafe'
      BY <3>1, <3>2 DEF FinishSafe
    <3> QED BY <3>1, <3>3, <1>w
  <2>4. CASE CancelFinish
    <3>1. cancel' = NoCancel /\ cancel.pc = "finish" /\ cancel.campaign \in CampaignId
      BY <2>4 DEF CancelFinish, ControlInv, CancelOK
    <3>2. CASE UNCHANGED vars
      BY <3>1, <3>2, <1>w, <1>i DEF vars
    <3>3. CASE /\ campaign[cancel.campaign].rev = cancel.reconciled
               /\ FinishCampaignCancellation(cancel.campaign, cancel.reconciled)
      <4>1. CloseCampaign(cancel.campaign, "Cancelled") /\ UNCHANGED session
        BY <3>3 DEF FinishCampaignCancellation, CloseCampaign
      <4>2. ~CampaignSessionActive(cancel.campaign)
        BY <3>1, <3>3 DEF FinishSafe
      <4> QED BY <3>1, <4>1, <4>2, <1>w, <1>i DEF CampaignState
    <3> QED BY <2>4, <3>2, <3>3 DEF CancelFinish
  <2> QED BY <1>11, <2>2, <2>3, <2>4 DEF CancelStep
<1>12. CASE LaunchAborts \/ Crash
  <2>1. UNCHANGED <<campaign, session>> /\ driver'.pc # "start"
    BY <1>12, PollingSound
    DEF LaunchAborts, Crash, vars, ControlInv, DriverOK, Sound, DriverFields, Ready
  <2>2. UNCHANGED cancel \/ cancel' = NoCancel
    BY <1>12 DEF LaunchAborts, Crash
  <2> QED BY <2>1, <2>2, <1>w, <1>f, <1>i
<1>13. CASE UNCHANGED cvars
    BY <1>13, <1>w, <1>f DEF cvars, vars
<1> QED
    BY <1>1, <1>2, <1>3, <1>4, <1>5, <1>6, <1>7, <1>8, <1>9, <1>10, <1>11, <1>12, <1>13
    DEF ControlNext, DriverStep, DriverCommand, FaultStep, RestartStep

\* No paid session runs on a campaign that is closed or whose cost is not known,
\* although finish_campaign_cancellation rereads no session row and start_session
\* advances no campaign revision.
THEOREM SessionsAreFunded == ControlSpec => []PaidSessionFunded
<1>1. ControlInit => FundedInv
    BY DEF ControlInit, Init, NoSession, NoCancel, FundedInv, OneRunning, PaidSessionFunded,
           FinishSafe, Running
<1>2. ControlInv /\ RowLinks /\ FundedInv /\ [ControlNext]_cvars => FundedInv'
    BY FundedKept
<1>3. FundedInv => PaidSessionFunded
    BY DEF FundedInv
<1> QED
    BY <1>1, <1>2, <1>3, ControlInvariant, ControlImplementsAuthority, RowLinksInvariant, PTL
    DEF ControlSpec

\* What the stores guarantee to any client they guarantee in the running system.
THEOREM RunningSystemKeepsAuthority ==
    ControlSpec => /\ []DeliveryEvidence /\ []DeliveredOnce /\ []InFlightOwnership
                   /\ []DownstreamHeadConsistent /\ []TargetAccounting
                   /\ EvidenceImmutable /\ RevisionFence
BY ControlImplementsAuthority, DeliveryNeedsEvidence, DeliveryHappensOnce, OneOwnerInFlight,
   SchedulerHeadConsistent, CampaignMeetsTarget, EvidenceIsImmutable, RevisionsFenceWrites, PTL

-----------------------------------------------------------------------------
(* The history of attempts and candidates                                  *)

\* Attempt rows are filled in order, and an older attempt on the same ticket is
\* a released one.
AttemptsInOrder ==
    /\ \A a, b \in AttemptId :
         a < b /\ attempt[b].stage # "Absent" => attempt[a].stage # "Absent"
    /\ \A a, b \in AttemptId :
         (/\ a < b /\ attempt[b].stage # "Absent"
          /\ attempt[a].ticket = attempt[b].ticket) => attempt[a].released

\* Only a Quality retry makes a released attempt move again.
ReleasedRests ==
    \A a \in AttemptId :
      attempt[a].released =>
        /\ attempt[a].stage # "Engineering"
        /\ attempt[a].qualityRetried \/ attempt[a].stage = "Failed"

\* So until its Quality retry an attempt has older candidates than every later
\* attempt on its ticket.
CandidatesInOrder ==
    \A a, b \in AttemptId : \A j, k \in CandidateId :
      (/\ candidate[j].attempt = a /\ candidate[k].attempt = b
       /\ a < b /\ attempt[a].ticket = attempt[b].ticket
       /\ ~attempt[a].qualityRetried) => j < k

OneCampaign ==
    \A c, d \in CampaignId :
      campaign[c].state = "Running" /\ campaign[d].state = "Running" => c = d

\* An assignment names an attempt that exists and a candidate that has passed
\* its hard validation.
TargetLinks ==
    \A s \in SessionId :
      /\ session[s].state = "Absent" => session[s].attempt = 0 /\ session[s].candidate = 0
      /\ session[s].attempt # 0 => attempt[session[s].attempt].stage # "Absent"
      /\ session[s].candidate # 0 =>
           candidate[session[s].candidate].state \notin {"Absent", "Submitted"}

HistoryInv ==
    /\ AttemptsInOrder /\ ReleasedRests /\ CandidatesInOrder
    /\ OneCampaign /\ TargetLinks

\* Claims come in order, and nothing takes a release or a retry back.
LEMMA AttemptsInOrderKept ==
    ASSUME RowLinks, AttemptsInOrder, LifecycleEvent
    PROVE  AttemptsInOrder'
<1> USE DEF RowLinks
<1>0. AttemptId \subseteq Nat /\ 0 \notin TicketId
    BY DEF AttemptId, TicketId
<1>1. ASSUME \A b \in AttemptId : /\ attempt'[b].ticket = attempt[b].ticket
                                  /\ attempt[b].released => attempt'[b].released
                                  /\ attempt'[b].stage = "Absent" <=> attempt[b].stage = "Absent"
      PROVE  AttemptsInOrder'
    BY <1>1 DEF AttemptsInOrder
<1>2. ASSUME NEW a \in AttemptId, NEW stage, stage # "Absent", NEW released,
             attempt[a].stage # "Absent", attempt[a].released => released,
             AttemptSet(a, stage, released)
      PROVE  AttemptsInOrder'
    BY <1>1, <1>2 DEF AttemptSet
<1>3. ASSUME NEW t \in TicketId, NEW a \in AttemptId, NEW c \in CampaignId, ClaimEvent(t, a, c)
      PROVE  AttemptsInOrder'
  <2>1. /\ attempt[a].stage = "Absent"
        /\ \A b \in AttemptId : b < a => attempt[b].stage # "Absent"
        /\ \A b \in AttemptId : attempt[b].ticket = t => attempt[b].released
        /\ \A b \in AttemptId : b # a => attempt'[b] = attempt[b]
    BY <1>3 DEF ClaimEvent
  <2>2. attempt'[a].stage = "Engineering" /\ attempt'[a].ticket = t
    BY <1>3 DEF ClaimEvent, NoAttempt
  <2>3. \A x, y \in AttemptId :
          x < y /\ attempt'[y].stage # "Absent" => attempt'[x].stage # "Absent"
    BY <2>1, <2>2 DEF AttemptsInOrder
  <2>4. \A y \in AttemptId : a < y => attempt'[y].stage = "Absent"
    BY <1>0, <2>1 DEF AttemptsInOrder
  <2>5. \A x, y \in AttemptId :
          (/\ x < y /\ attempt'[y].stage # "Absent"
           /\ attempt'[x].ticket = attempt'[y].ticket) => attempt'[x].released
    <3> SUFFICES ASSUME NEW x \in AttemptId, NEW y \in AttemptId, x < y,
                        attempt'[y].stage # "Absent", attempt'[x].ticket = attempt'[y].ticket
                 PROVE  attempt'[x].released
        OBVIOUS
    <3>1. x # a
      BY <2>4
    <3>2. CASE y = a
      BY <2>1, <2>2, <3>1, <3>2
    <3>3. CASE y # a
      BY <2>1, <3>1, <3>3 DEF AttemptsInOrder
    <3> QED BY <3>2, <3>3
  <2> QED BY <2>3, <2>5 DEF AttemptsInOrder
<1>4. ASSUME NEW a \in AttemptId, NEW stage, StageEvent(a, stage)
      PROVE  AttemptsInOrder'
    BY <1>2, <1>4 DEF StageEvent, Working
<1>5. ASSUME NEW a \in AttemptId, NEW state, ReleaseEvent(a, state)
      PROVE  AttemptsInOrder'
    BY <1>2, <1>5 DEF ReleaseEvent, Working
<1>6. ASSUME NEW k \in CandidateId, NEW a \in AttemptId, SubmitEvent(k, a)
      PROVE  AttemptsInOrder'
    BY <1>2, <1>6 DEF SubmitEvent, Working, HardStage
<1>7. ASSUME NEW k \in CandidateId, NEW state, NEW stage, EvidenceEvent(k, state, stage)
      PROVE  AttemptsInOrder'
    BY <1>2, <1>7 DEF EvidenceEvent, EvidenceMove, HardStage, QualityStage
<1>8. ASSUME NEW k \in CandidateId, RejectEvent(k) \/ DeliverEvent(k)
      PROVE  AttemptsInOrder'
    BY <1>2, <1>8 DEF RejectEvent, DeliverEvent
<1>9. CASE UNCHANGED attempt
    BY <1>1, <1>9
<1> QED
    BY <1>3, <1>4, <1>5, <1>6, <1>7, <1>8, <1>9
    DEF LifecycleEvent, CampaignEvent, TicketEvent, AttachEvent

\* A released attempt is at rest until retry_quality_attempt has used its retry.
LEMMA ReleasedRestsKept ==
    ASSUME RowLinks, ReleasedRests, LifecycleEvent
    PROVE  ReleasedRests'
<1>1. ASSUME NEW a \in AttemptId, NEW stage, NEW released, AttemptSet(a, stage, released),
             released => /\ stage # "Engineering"
                         /\ attempt'[a].qualityRetried \/ stage = "Failed"
      PROVE  ReleasedRests'
    BY <1>1 DEF ReleasedRests, AttemptSet
<1>2. ASSUME NEW t \in TicketId, NEW a \in AttemptId, NEW c \in CampaignId, ClaimEvent(t, a, c)
      PROVE  ReleasedRests'
  <2>1. ~NoAttempt.released /\ attempt'[a].released = NoAttempt.released
    BY <1>2 DEF ClaimEvent, NoAttempt
  <2>2. \A b \in AttemptId : b # a => attempt'[b] = attempt[b]
    BY <1>2 DEF ClaimEvent
  <2> QED BY <2>1, <2>2 DEF ReleasedRests
<1>3. ASSUME NEW a \in AttemptId, NEW stage, stage # "Engineering",
             attempt[a].stage # "Failed", AttemptSet(a, stage, attempt[a].released)
      PROVE  ReleasedRests'
    BY <1>1, <1>3 DEF ReleasedRests, AttemptSet
<1>4. ASSUME NEW a \in AttemptId, NEW stage, StageEvent(a, stage)
      PROVE  ReleasedRests'
    BY <1>1, <1>4 DEF StageEvent
<1>5. ASSUME NEW a \in AttemptId, NEW state, ReleaseEvent(a, state)
      PROVE  ReleasedRests'
    BY <1>1, <1>5 DEF ReleaseEvent
<1>6. ASSUME NEW k \in CandidateId, NEW a \in AttemptId, SubmitEvent(k, a)
      PROVE  ReleasedRests'
    BY <1>3, <1>6 DEF SubmitEvent, HardStage, EngineeringStage
<1>7. ASSUME NEW k \in CandidateId, NEW state, NEW stage, EvidenceEvent(k, state, stage)
      PROVE  ReleasedRests'
    BY <1>3, <1>7 DEF EvidenceEvent, EvidenceMove, HardStage, QualityStage
<1>8. ASSUME NEW k \in CandidateId, RejectEvent(k) \/ DeliverEvent(k)
      PROVE  ReleasedRests'
    BY <1>3, <1>8 DEF RejectEvent, DeliverEvent
<1>9. CASE UNCHANGED attempt
    BY <1>9 DEF ReleasedRests
<1> QED
    BY <1>2, <1>4, <1>5, <1>6, <1>7, <1>8, <1>9
    DEF LifecycleEvent, CampaignEvent, TicketEvent, AttachEvent

\* submit_candidate adds the newest candidate, to an attempt that is the last on
\* its ticket or has been retried.
LEMMA CandidatesInOrderKept ==
    ASSUME RowLinks, AttemptsInOrder, ReleasedRests, CandidatesInOrder, LifecycleEvent
    PROVE  CandidatesInOrder'
<1> USE DEF RowLinks
<1>0. CandidateId \subseteq Nat /\ 0 \notin AttemptId
    BY DEF CandidateId, AttemptId
<1>a. \A k \in CandidateId : \A a \in AttemptId :
        candidate[k].attempt = a => candidate[k].state # "Absent" /\ attempt[a].stage # "Absent"
    BY <1>0 DEF CandidateLinks
<1>1. ASSUME \A b \in AttemptId : attempt[b].stage # "Absent" =>
                 /\ attempt'[b].ticket = attempt[b].ticket
                 /\ attempt[b].qualityRetried => attempt'[b].qualityRetried,
             \A k \in CandidateId : candidate'[k].attempt = candidate[k].attempt
      PROVE  CandidatesInOrder'
    BY <1>1, <1>a DEF CandidatesInOrder
<1>2. ASSUME NEW a \in AttemptId, NEW stage, NEW released, AttemptSet(a, stage, released),
             \A k \in CandidateId : candidate'[k].attempt = candidate[k].attempt
      PROVE  CandidatesInOrder'
    BY <1>1, <1>2 DEF AttemptSet
<1>3. ASSUME NEW t \in TicketId, NEW a \in AttemptId, NEW c \in CampaignId, ClaimEvent(t, a, c)
      PROVE  CandidatesInOrder'
    BY <1>1, <1>3 DEF ClaimEvent
<1>4. ASSUME NEW a \in AttemptId, NEW stage, StageEvent(a, stage)
      PROVE  CandidatesInOrder'
    BY <1>2, <1>4 DEF StageEvent
<1>5. ASSUME NEW a \in AttemptId, NEW state, ReleaseEvent(a, state)
      PROVE  CandidatesInOrder'
    BY <1>2, <1>5 DEF ReleaseEvent
<1>6. ASSUME NEW k \in CandidateId, NEW a \in AttemptId, SubmitEvent(k, a)
      PROVE  CandidatesInOrder'
  <2>1. /\ attempt[a].stage \in EngineeringStage
        /\ candidate[k].state = "Absent"
        /\ candidate'[k].attempt = a
        /\ \A j \in CandidateId : j # k => candidate'[j] = candidate[j]
        /\ \A b \in AttemptId : /\ attempt'[b].ticket = attempt[b].ticket
                                /\ attempt[b].qualityRetried => attempt'[b].qualityRetried
    BY <1>6 DEF SubmitEvent, FreshCandidate, AttemptSet
  <2>2. \A j \in CandidateId : candidate[j].state # "Absent" => j < k
    BY <1>0, <2>1 DEF CandidateLinks
  <2>3. \A b \in AttemptId :
          (/\ a < b /\ attempt[b].stage # "Absent"
           /\ attempt[a].ticket = attempt[b].ticket) => attempt[a].qualityRetried
    BY <2>1 DEF AttemptsInOrder, ReleasedRests, EngineeringStage
  <2> SUFFICES ASSUME NEW x \in AttemptId, NEW y \in AttemptId,
                      NEW i \in CandidateId, NEW j \in CandidateId,
                      candidate'[i].attempt = x, candidate'[j].attempt = y, x < y,
                      attempt[x].ticket = attempt[y].ticket, ~attempt[x].qualityRetried
               PROVE  i < j
      BY <2>1 DEF CandidatesInOrder
  <2>4. CASE i = k
    <3>1. x = a /\ j # k
      BY <2>1, <2>4, <1>0 DEF AttemptId
    <3>2. attempt[y].stage # "Absent"
      BY <2>1, <3>1, <1>a
    <3> QED BY <2>3, <3>1, <3>2
  <2>5. CASE i # k /\ j = k
    BY <2>1, <2>2, <2>5, <1>a
  <2>6. CASE i # k /\ j # k
    BY <2>1, <2>6 DEF CandidatesInOrder
  <2> QED BY <2>4, <2>5, <2>6
<1>7. ASSUME NEW k \in CandidateId, NEW state, NEW stage, EvidenceEvent(k, state, stage)
      PROVE  CandidatesInOrder'
    BY <1>2, <1>7 DEF EvidenceEvent, CandidateSet
<1>8. ASSUME NEW k \in CandidateId, RejectEvent(k) \/ DeliverEvent(k)
      PROVE  CandidatesInOrder'
    BY <1>2, <1>8 DEF RejectEvent, DeliverEvent, CandidateSet
<1>9. ASSUME NEW k \in CandidateId, AttachEvent(k)
      PROVE  CandidatesInOrder'
    BY <1>1, <1>9 DEF AttachEvent, CandidateSet
<1>10. CASE UNCHANGED <<attempt, candidate>>
    BY <1>1, <1>10
<1> QED
    BY <1>3, <1>4, <1>5, <1>6, <1>7, <1>8, <1>9, <1>10
    DEF LifecycleEvent, CampaignEvent, TicketEvent

\* campaigns_one_running
LEMMA OneCampaignKept ==
    ASSUME OneCampaign, LifecycleEvent
    PROVE  OneCampaign'
<1>1. ASSUME NEW c \in CampaignId, CampaignEvent(c)
      PROVE  OneCampaign'
    BY <1>1 DEF CampaignEvent, OneCampaign
<1>2. ASSUME NEW k \in CandidateId, DeliverEvent(k)
      PROVE  OneCampaign'
    BY <1>2 DEF DeliverEvent, OneCampaign
<1>3. CASE UNCHANGED campaign
    BY <1>3 DEF OneCampaign
<1> QED
    BY <1>1, <1>2, <1>3 DEF LifecycleEvent, TicketEvent, ClaimEvent, StageEvent, ReleaseEvent,
                            SubmitEvent, AttachEvent, EvidenceEvent, RejectEvent

\* A candidate that was validated never goes back.
LEMMA CandidatesAdvance ==
    ASSUME LifecycleEvent, NEW k \in CandidateId,
           candidate[k].state \notin {"Absent", "Submitted"}
    PROVE  candidate'[k].state \notin {"Absent", "Submitted"}
<1>1. ASSUME NEW j \in CandidateId, NEW state, state \notin {"Absent", "Submitted"},
             CandidateSet(j, state)
      PROVE  candidate'[k].state \notin {"Absent", "Submitted"}
    BY <1>1 DEF CandidateSet
<1>2. ASSUME NEW j \in CandidateId, NEW a \in AttemptId, SubmitEvent(j, a)
      PROVE  candidate'[k].state \notin {"Absent", "Submitted"}
    BY <1>2 DEF SubmitEvent, FreshCandidate
<1>3. ASSUME NEW j \in CandidateId, NEW state, NEW stage, EvidenceEvent(j, state, stage)
      PROVE  candidate'[k].state \notin {"Absent", "Submitted"}
    BY <1>1, <1>3 DEF EvidenceEvent, EvidenceMove
<1>4. ASSUME NEW j \in CandidateId, AttachEvent(j) \/ RejectEvent(j) \/ DeliverEvent(j)
      PROVE  candidate'[k].state \notin {"Absent", "Submitted"}
    BY <1>1, <1>4 DEF AttachEvent, RejectEvent, DeliverEvent
<1> QED
    BY <1>2, <1>3, <1>4
    DEF LifecycleEvent, CampaignEvent, TicketEvent, ClaimEvent, StageEvent, ReleaseEvent

\* The row of a session names the same work as before.
SameWork(r, q) ==
    /\ q.office = r.office /\ q.campaign = r.campaign
    /\ q.attempt = r.attempt /\ q.candidate = r.candidate

\* create_assignment writes a fresh row; no other command changes what an
\* assignment is for, or makes its row absent.
LEMMA SessionWrite ==
    ASSUME TypeOK, [Next]_vars, NEW s \in SessionId
    PROVE  \/ /\ SameWork(session[s], session'[s])
              /\ session'[s].state = "Absent" => session[s].state = "Absent"
           \/ \E c \in CampaignId, office \in Office,
                 a \in AttemptId \cup {0}, k \in CandidateId \cup {0} :
                /\ AssignmentTargetExists(c, office, a, k)
                /\ session'[s] = [state |-> "Prepared", office |-> office, campaign |-> c,
                                  attempt |-> a, candidate |-> k]
<1> DEFINE Goal == \/ /\ SameWork(session[s], session'[s])
                      /\ session'[s].state = "Absent" => session[s].state = "Absent"
                   \/ \E c \in CampaignId, office \in Office,
                         a \in AttemptId \cup {0}, k \in CandidateId \cup {0} :
                        /\ AssignmentTargetExists(c, office, a, k)
                        /\ session'[s] = [state |-> "Prepared", office |-> office,
                                          campaign |-> c, attempt |-> a, candidate |-> k]
<1>0. CASE UNCHANGED session
    BY <1>0 DEF SameWork
<1>1. CASE SessionStep
  <2>0. PICK r \in SessionId :
        \/ \E c \in CampaignId, office \in Office,
              a \in AttemptId \cup {0}, k \in CandidateId \cup {0} :
             CreateAssignment(r, c, campaign[c].rev, office, a, k)
        \/ StartSession(r)
        \/ \E stop \in StopReason, cost \in SessionCost : TerminalSession(r, stop, cost)
      BY <1>1 DEF SessionStep
  <2>1. ASSUME NEW state, state # "Absent", session' = [session EXCEPT ![r].state = state]
        PROVE  Goal
    BY <2>1 DEF SameWork, TypeOK, SessionRow
  <2>2. ASSUME NEW c \in CampaignId, NEW office \in Office,
               NEW a \in AttemptId \cup {0}, NEW k \in CandidateId \cup {0},
               CreateAssignment(r, c, campaign[c].rev, office, a, k)
        PROVE  Goal
    <3>1. AssignmentTargetExists(c, office, a, k)
      BY <2>2, Zenon DEF CreateAssignment
    <3>2. session' = [session EXCEPT ![r] = [state |-> "Prepared", office |-> office,
                                             campaign |-> c, attempt |-> a, candidate |-> k]]
      BY <2>2, Zenon DEF CreateAssignment
    <3> QED BY <3>1, <3>2 DEF TypeOK, SameWork
  <2>3. CASE StartSession(r)
    BY <2>1, <2>3 DEF StartSession
  <2>4. ASSUME NEW stop \in StopReason, NEW cost \in SessionCost, TerminalSession(r, stop, cost)
        PROVE  Goal
    <3>1. session' = [session EXCEPT ![r].state = SessionStateOf(stop)]
      BY <2>4, Zenon DEF TerminalSession
    <3>2. SessionStateOf(stop) # "Absent"
      BY SessionStateOfType DEF SessionTerminal
    <3> QED BY <2>1, <3>1, <3>2
  <2> QED BY <2>0, <2>2, <2>3, <2>4
<1>2. CASE CampaignStep
    BY <1>0, <1>2 DEF CampaignStep, StartCampaign, DeadlineElapses, CancelCampaign,
                      FinishCampaignCancellation, FailCampaign, CloseCampaign
<1>3. CASE TicketStep
    BY <1>0, <1>3, ZenonT(60) DEF TicketStep, SubmitTicketProposal, SponsorTicket,
                                  ClaimSponsoredTicket
<1>4. CASE AttemptStep
    BY <1>0, <1>4, ZenonT(60) DEF AttemptStep, FailTicketAttempt, CanFail, RetryQualityAttempt,
       RetryEngineeringAttempt, ReleaseTicketAttempt, SubmitCandidate
<1>5. CASE CandidateStep
  <2>1. PICK k \in CandidateId :
        LET a == candidate[k].attempt IN
        \/ AttachCandidateCommit(k, candidate[k].rev)
        \/ \E r \in SessionId, result \in {"Passed", "NotPassed"} :
             \/ RecordHardValidation(k, r, candidate[k].rev, attempt[a].rev, result)
             \/ RecordQualityValidation(k, r, candidate[k].rev, attempt[a].rev, result)
        \/ \E r \in SessionId, verdict \in {"Accept", "Reject"} :
             SubmitQualityReview(k, r, candidate[k].rev, attempt[a].rev, verdict)
        \/ \E decision \in Decision, override \in BOOLEAN :
             DecideCandidate(k, decision, override,
                             candidate[k].rev, attempt[a].rev, TicketOf(a).rev)
        \/ RecordDelivery(k, candidate[k].rev, attempt[a].rev, TicketOf(a).rev,
                          campaign[attempt[a].campaign].rev)
    BY <1>5 DEF CandidateStep
  <2> QED
    BY <1>0, <2>1, ZenonT(60) DEF AttachCandidateCommit, RecordHardValidation,
       RecordQualityValidation, SubmitQualityReview, DecideCandidate, RecordDelivery
<1>6. CASE UNCHANGED vars
    BY <1>0, <1>6 DEF vars
<1> QED BY <1>1, <1>2, <1>3, <1>4, <1>5, <1>6 DEF Next

\* What an assignment names when it is created is never taken away.
LEMMA TargetLinksKept ==
    ASSUME TypeOK, RowLinks, TargetLinks, Next
    PROVE  TargetLinks'
<1>0. LifecycleEvent
    BY StepIsEvent
<1>1. \A a \in AttemptId : attempt[a].stage # "Absent" => attempt'[a].stage # "Absent"
    BY <1>0, AttemptsStay DEF RowLinks
<1>2. \A k \in CandidateId : candidate[k].state \notin {"Absent", "Submitted"} =>
                               candidate'[k].state \notin {"Absent", "Submitted"}
    BY <1>0, CandidatesAdvance
<1> SUFFICES ASSUME NEW s \in SessionId
             PROVE  /\ session'[s].state = "Absent" =>
                         session'[s].attempt = 0 /\ session'[s].candidate = 0
                    /\ session'[s].attempt # 0 =>
                         attempt'[session'[s].attempt].stage # "Absent"
                    /\ session'[s].candidate # 0 =>
                         candidate'[session'[s].candidate].state \notin {"Absent", "Submitted"}
    BY DEF TargetLinks
<1>t. /\ session[s].attempt \in AttemptId \cup {0}
      /\ session[s].candidate \in CandidateId \cup {0}
    BY DEF TypeOK, SessionRow
<1>3. CASE /\ SameWork(session[s], session'[s])
           /\ session'[s].state = "Absent" => session[s].state = "Absent"
    BY <1>1, <1>2, <1>3, <1>t DEF TargetLinks, SameWork
<1>4. ASSUME NEW c \in CampaignId, NEW office \in Office,
             NEW a \in AttemptId \cup {0}, NEW k \in CandidateId \cup {0},
             AssignmentTargetExists(c, office, a, k),
             session'[s] = [state |-> "Prepared", office |-> office, campaign |-> c,
                            attempt |-> a, candidate |-> k]
      PROVE  /\ session'[s].state # "Absent"
             /\ session'[s].attempt # 0 => attempt'[session'[s].attempt].stage # "Absent"
             /\ session'[s].candidate # 0 =>
                  candidate'[session'[s].candidate].state \notin {"Absent", "Submitted"}
  <2>1. a # 0 => attempt[a].stage # "Absent"
    BY <1>4 DEF AssignmentTargetExists, EngineeringStage, QualityStage
  <2>2. k # 0 => candidate[k].state \notin {"Absent", "Submitted"}
    BY <1>4 DEF AssignmentTargetExists
  <2> QED BY <1>1, <1>2, <1>4, <2>1, <2>2
<1> QED BY <1>3, <1>4, SessionWrite

\* Every step keeps the history.
LEMMA HistoryKept == TypeOK /\ RowLinks /\ HistoryInv /\ [Next]_vars => HistoryInv'
<1> SUFFICES ASSUME TypeOK, RowLinks, HistoryInv, [Next]_vars PROVE HistoryInv'
    OBVIOUS
<1>1. CASE Next
    BY <1>1, StepIsEvent, AttemptsInOrderKept, ReleasedRestsKept, CandidatesInOrderKept,
       OneCampaignKept, TargetLinksKept DEF HistoryInv
<1>2. CASE UNCHANGED vars
    BY <1>2 DEF vars, HistoryInv, AttemptsInOrder, ReleasedRests, CandidatesInOrder,
                OneCampaign, TargetLinks
<1> QED BY <1>1, <1>2

\* Attempts, candidates, campaigns and assignments have the history that the
\* stores' checks give them.
LEMMA HistoryInvariant == Spec => []HistoryInv
<1>1. Init => HistoryInv
    BY DEF Init, HistoryInv, AttemptsInOrder, ReleasedRests, CandidatesInOrder, OneCampaign,
           TargetLinks, NoAttempt, NoCandidate, NoCampaign, NoSession, AttemptId
<1> QED BY <1>1, HistoryKept, TypeCorrect, RowLinksInvariant, PTL DEF Spec

-----------------------------------------------------------------------------
(* What the bounded retries rest on                                        *)

\* The driver's positions from the prepared assignment to the end of its launch.
AtWork == {"start", "attend", "settle", "launchFailed"}

Bit(b) == IF b THEN 1 ELSE 0

FaultsOK == faults \in [crashes : Nat, errors : Nat]
FaultCount == faults.crashes + faults.errors

\* The revisions the driver holds of its attempt and its ticket are current.
Fenced == AttemptFence(driver.attempt, driver.fence.attempt, driver.fence.ticket)

\* The candidate of a Quality launch is one of its attempt.
DriverCandidate ==
    /\ driver.pc = "retryQuality" => driver.office = "Quality"
    /\ (/\ driver.office = "Quality"
        /\ driver.pc \in AtWork \cup {"launch", "retryQuality", "failAttempt", "attach"}) =>
         /\ driver.candidate \in CandidateId
         /\ candidate[driver.candidate].attempt = driver.attempt

\* An Engineering session that submitted, or that succeeded, has moved its
\* attempt on; one that fails later finds no rework to repeat.
EngineeringDone ==
    (/\ driver.office = "Engineering"
     /\ \/ driver.pc = "attend" /\ rpc \in {"Validating", "Submitted"}
        \/ driver.pc = "settle" /\ session[driver.session].state = "Succeeded") =>
      attempt[driver.attempt].stage \in HardStage \cup QualityStage \cup {"Failed"}

\* So has a Quality session that reviewed its candidate.
QualityDone ==
    (/\ driver.office = "Quality"
     /\ \/ driver.pc = "attend" /\ rpc = "Reviewed"
        \/ driver.pc = "settle" /\ session[driver.session].state = "Succeeded") =>
      /\ candidate[driver.candidate].review # "None"
      /\ attempt[driver.attempt].stage \in {"AwaitingArchitect", "ReworkEngineering", "Failed"}

\* While Quality is at work its attempt does not fail with the candidate still
\* waiting for it.
QualityFails ==
    (/\ driver.office = "Quality"
     /\ \/ driver.pc \in AtWork \cup {"launch"}
        \/ driver.pc = "retryQuality" /\ ~driver.recovering) =>
      ~(/\ attempt[driver.attempt].stage = "Failed"
        /\ candidate[driver.candidate].state = "Validated")

\* A released attempt that a Quality retry has opened again, or is about to.
Reopened(a) ==
    /\ attempt[a].released
    /\ \/ attempt[a].stage \in OpenStage
       \/ driver.pc = "retryQuality" /\ driver.recovering /\ driver.attempt = a

\* Nothing works on attempt b, and the driver finds nothing to do on it.
Quiet(b) ==
    /\ ~HasCandidate(b)
    /\ attempt[b].stage \in {"Engineering", "Failed"}
    /\ ~(/\ attempt[b].stage = "Failed" /\ ~attempt[b].engineeringRetried
         /\ campaign[attempt[b].campaign].state = "Running"
         /\ campaign[attempt[b].campaign].cost = "Known")
    /\ driver.attempt # b

\* While a released attempt is open again, the attempt that succeeded it on its
\* ticket rests; otherwise the two could write the ticket under each other.
QuietSuccessor ==
    \A a, b \in AttemptId :
      (/\ Reopened(a)
       /\ attempt[b].stage # "Absent" /\ ~attempt[b].released
       /\ attempt[b].ticket = attempt[a].ticket) => Quiet(b)

\* The driver claims only when nothing is downstream.
ClaimAlone == driver.pc = "claim" => Downstream = {}

\* The ticket of an unreleased attempt stays in flight while there is work on it.
WorkInFlight ==
    \A a \in AttemptId :
      ~attempt[a].released /\ attempt[a].stage \in DownstreamStage =>
        TicketOf(a).state = "InFlight"

\* The driver deals with the failure of, or still attends, a session that was
\* paid for attempt a.
AtEngineering(a) ==
    /\ driver.office = "Engineering" /\ driver.attempt = a
    /\ \/ driver.pc \in AtWork
       \/ driver.pc = "failAttempt" /\ Fenced

\* The driver is about to assign Engineering, or Quality.
LaunchesEngineering(a) ==
    driver.pc = "launch" /\ driver.office = "Engineering" /\ driver.attempt = a
LaunchesQuality(k) ==
    driver.pc = "launch" /\ driver.office = "Quality" /\ driver.candidate = k

\* One more Engineering session of attempt a may come.
EngineeringDue(a) ==
    \/ LaunchesEngineering(a)
    \/ attempt[a].stage = "ReworkEngineering" /\ ~AtEngineering(a)

EngineeringBudget(a) ==
    1 + Bit(attempt[a].engineeringRetried) + attempt[a].rework + FaultCount

\* Quality has not finished with candidate k.
Reviewable(k) ==
    LET stage == attempt[candidate[k].attempt].stage IN
    /\ candidate[k].state = "Validated"
    /\ \/ stage \in QualityStage
       \/ stage = "AwaitingArchitect" /\ candidate[k].review = "None"

AtQuality(k) ==
    /\ driver.office = "Quality" /\ driver.candidate = k
    /\ \/ driver.pc \in AtWork
       \/ driver.pc \in {"retryQuality", "failAttempt"} /\ ~driver.recovering /\ Fenced

\* One more Quality session of candidate k may come.
QualityDue(k) ==
    \/ LaunchesQuality(k)
    \/ Reviewable(k) /\ ~AtQuality(k)

QualityBudget(k) == 1 + Bit(attempt[candidate[k].attempt].qualityRetried) + FaultCount

\* What was spent and what may come is covered by the retries used so far.
Paid(spend, due, budget) == Cardinality(spend) + due <= budget

EngineeringPaid ==
    \A a \in AttemptId :
      ~attempt[a].released =>
        Paid(EngineeringSpend(a), Bit(EngineeringDue(a)), EngineeringBudget(a))
QualityPaid ==
    \A k \in CandidateId :
      (candidate[k].attempt # 0 /\ ~attempt[candidate[k].attempt].released) =>
        Paid(QualitySpend(k), Bit(QualityDue(k)), QualityBudget(k))

\* The parts that say where the driver is.
PlaceInv ==
    /\ FaultsOK /\ DriverCandidate /\ EngineeringDone /\ QualityDone /\ QualityFails
    /\ ClaimAlone

SpendInv == PlaceInv /\ QuietSuccessor /\ WorkInFlight /\ EngineeringPaid /\ QualityPaid

\* Everything a step of the control plane starts from.
ControlFacts ==
    /\ ControlInv /\ RowLinks /\ SoundCandidates /\ InFlightOwnership /\ StageMatchesHead
    /\ DeliveredOnce /\ HistoryInv /\ SpendInv

-----------------------------------------------------------------------------
(* Rows that the budgets read                                              *)

\* Retries and reworks are never taken back, nor is a release.
BudgetGrows(r, q) ==
    /\ r.released => q.released
    /\ r.engineeringRetried => q.engineeringRetried
    /\ r.qualityRetried => q.qualityRetried
    /\ q.rework >= r.rework

\* Every command adds to what an attempt has used or leaves it.
LEMMA BudgetsGrow ==
    ASSUME TypeOK, [Next]_vars, NEW b \in AttemptId, attempt[b].stage # "Absent"
    PROVE  BudgetGrows(attempt[b], attempt'[b])
<1>t. attempt[b] \in AttemptRow /\ attempt[b].rework \in Nat
    BY DEF TypeOK, AttemptRow
<1>0. CASE attempt'[b] = attempt[b]
    BY <1>0, <1>t DEF BudgetGrows
<1>1. ASSUME NEW a \in AttemptId, NEW stage,
             \/ attempt' = [attempt EXCEPT ![a].rev = @ + 1]
             \/ attempt' = [attempt EXCEPT ![a].stage = stage, ![a].rev = @ + 1]
             \/ attempt' = [attempt EXCEPT ![a].stage = stage, ![a].rework = @ + 1,
                                           ![a].rev = @ + 1]
             \/ attempt' = [attempt EXCEPT ![a].stage = stage, ![a].qualityRetried = TRUE,
                                           ![a].rev = @ + 1]
             \/ attempt' = [attempt EXCEPT ![a].stage = stage, ![a].engineeringRetried = TRUE,
                                           ![a].rev = @ + 1]
             \/ attempt' = [attempt EXCEPT ![a].released = TRUE, ![a].rev = @ + 1]
      PROVE  BudgetGrows(attempt[b], attempt'[b])
  <2>1. CASE a # b
    BY <1>0, <1>1, <2>1 DEF TypeOK
  <2>2. CASE a = b
    BY <1>1, <1>t, <2>2 DEF TypeOK, AttemptRow, BudgetGrows
  <2> QED BY <2>1, <2>2
<1>2. CASE UNCHANGED attempt
    BY <1>0, <1>2
<1>3. CASE CampaignStep
    BY <1>2, <1>3 DEF CampaignStep, StartCampaign, DeadlineElapses, CancelCampaign,
                      FinishCampaignCancellation, FailCampaign, CloseCampaign
<1>4. CASE SessionStep
    BY <1>2, <1>4, ZenonT(60) DEF SessionStep, CreateAssignment, StartSession, TerminalSession
<1>5. CASE TicketStep
  <2>1. ASSUME NEW t \in TicketId, NEW a \in AttemptId, NEW c \in CampaignId,
               NEW outcome \in Requalification,
               ClaimSponsoredTicket(t, a, c, ticket[t].rev, campaign[c].rev, outcome)
        PROVE  attempt'[b] = attempt[b]
    BY <2>1 DEF ClaimSponsoredTicket, FreshAttempt, TypeOK
  <2> QED BY <1>0, <1>2, <1>5, <2>1 DEF TicketStep, SubmitTicketProposal, SponsorTicket
<1>6. CASE AttemptStep
  <2>1. PICK a \in AttemptId :
        \/ FailTicketAttempt(a, attempt[a].rev, TicketOf(a).rev)
        \/ \E k \in CandidateId :
             RetryQualityAttempt(a, k, attempt[a].rev, TicketOf(a).rev)
        \/ RetryEngineeringAttempt(a, attempt[a].rev, TicketOf(a).rev)
        \/ \E outcome \in Requalification :
             ReleaseTicketAttempt(a, attempt[a].rev, TicketOf(a).rev, outcome)
        \/ \E k \in CandidateId, s \in SessionId :
             SubmitCandidate(k, a, s, attempt[a].rev, TicketOf(a).rev)
    BY <1>6 DEF AttemptStep
  <2>2. ASSUME NEW k \in CandidateId, NEW s \in SessionId,
               SubmitCandidate(k, a, s, attempt[a].rev, TicketOf(a).rev)
        PROVE  BudgetGrows(attempt[b], attempt'[b])
    <3> DEFINE stage == IF attempt[a].stage = "Engineering" THEN "HardValidation"
                                                            ELSE "ReworkValidation"
    <3>1. attempt' = [attempt EXCEPT ![a].stage = stage, ![a].rev = @ + 1]
      BY <2>2 DEF SubmitCandidate
    <3> HIDE DEF stage
    <3> QED BY <1>1, <3>1
  <2> QED
    BY <1>1, <2>1, <2>2 DEF FailTicketAttempt, RetryQualityAttempt, RetryEngineeringAttempt,
                            ReleaseTicketAttempt
<1>7. CASE CandidateStep
  <2>1. PICK k \in CandidateId :
        LET a == candidate[k].attempt IN
        \/ AttachCandidateCommit(k, candidate[k].rev)
        \/ \E s \in SessionId, result \in {"Passed", "NotPassed"} :
             \/ RecordHardValidation(k, s, candidate[k].rev, attempt[a].rev, result)
             \/ RecordQualityValidation(k, s, candidate[k].rev, attempt[a].rev, result)
        \/ \E s \in SessionId, verdict \in {"Accept", "Reject"} :
             SubmitQualityReview(k, s, candidate[k].rev, attempt[a].rev, verdict)
        \/ \E decision \in Decision, override \in BOOLEAN :
             DecideCandidate(k, decision, override,
                             candidate[k].rev, attempt[a].rev, TicketOf(a).rev)
        \/ RecordDelivery(k, candidate[k].rev, attempt[a].rev, TicketOf(a).rev,
                          campaign[attempt[a].campaign].rev)
    BY <1>7 DEF CandidateStep
  <2> DEFINE a == candidate[k].attempt
  <2>2. \/ UNCHANGED attempt
        \/ attempt' = [attempt EXCEPT ![a].rev = @ + 1]
        \/ \E stage : attempt' = [attempt EXCEPT ![a].stage = stage, ![a].rev = @ + 1]
        \/ attempt' = [attempt EXCEPT ![a].stage = "ReworkEngineering", ![a].rework = @ + 1,
                                      ![a].rev = @ + 1]
    <3>1. CASE AttachCandidateCommit(k, candidate[k].rev)
      BY <3>1 DEF AttachCandidateCommit
    <3>2. ASSUME NEW s \in SessionId, NEW result \in {"Passed", "NotPassed"},
                 RecordHardValidation(k, s, candidate[k].rev, attempt[a].rev, result)
          PROVE  \E stage : attempt' = [attempt EXCEPT ![a].stage = stage, ![a].rev = @ + 1]
      <4>1. attempt' = [attempt EXCEPT
                          ![a].stage = IF result # "Passed" THEN "Failed"
                                       ELSE IF attempt[a].stage = "HardValidation" THEN "Quality"
                                                                    ELSE "ReworkQuality",
                          ![a].rev = @ + 1]
        BY <3>2 DEF RecordHardValidation
      <4> QED BY <4>1, Zenon
    <3>3. ASSUME NEW s \in SessionId, NEW result \in {"Passed", "NotPassed"},
                 RecordQualityValidation(k, s, candidate[k].rev, attempt[a].rev, result)
          PROVE  \E stage : attempt' = [attempt EXCEPT ![a].stage = stage, ![a].rev = @ + 1]
      BY <3>3, Zenon DEF RecordQualityValidation
    <3>4. ASSUME NEW s \in SessionId, NEW verdict \in {"Accept", "Reject"},
                 SubmitQualityReview(k, s, candidate[k].rev, attempt[a].rev, verdict)
          PROVE  attempt' = [attempt EXCEPT ![a].rev = @ + 1]
      BY <3>4, Zenon DEF SubmitQualityReview
    <3>5. ASSUME NEW decision \in Decision, NEW override \in BOOLEAN,
                 DecideCandidate(k, decision, override,
                                 candidate[k].rev, attempt[a].rev, TicketOf(a).rev)
          PROVE  \/ attempt' = [attempt EXCEPT ![a].rev = @ + 1]
                 \/ attempt' = [attempt EXCEPT ![a].stage = "ReworkEngineering",
                                               ![a].rework = @ + 1, ![a].rev = @ + 1]
                 \/ \E stage : attempt' = [attempt EXCEPT ![a].stage = stage, ![a].rev = @ + 1]
      BY <3>5, ZenonT(30) DEF DecideCandidate
    <3>6. CASE RecordDelivery(k, candidate[k].rev, attempt[a].rev, TicketOf(a).rev,
                              campaign[attempt[a].campaign].rev)
      BY <3>6, Zenon DEF RecordDelivery
    <3> QED BY <2>1, <3>1, <3>2, <3>3, <3>4, <3>5, <3>6
  <2>3. CASE a \in AttemptId
    <3> HIDE DEF a
    <3> QED BY <1>1, <1>2, <2>2, <2>3
  <2>4. CASE a \notin AttemptId
    <3>1. a = 0 /\ b # a
      BY <2>4 DEF TypeOK, CandidateRow
    <3>2. attempt'[b] = attempt[b]
      <4> HIDE DEF a
      <4> QED BY <2>2, <3>1 DEF TypeOK
    <3> QED BY <1>0, <3>2
  <2> QED BY <2>3, <2>4
<1>8. CASE UNCHANGED vars
    BY <1>2, <1>8 DEF vars
<1> QED BY <1>3, <1>4, <1>5, <1>6, <1>7, <1>8 DEF Next

\* A campaign that may not spend never may again.
Spendable(r) == r.state = "Running" /\ r.cost = "Known"

LEMMA CampaignsWane ==
    ASSUME TypeOK, RowLinks, [Next]_vars, NEW c \in CampaignId, campaign[c].state # "Absent",
           Spendable(campaign'[c])
    PROVE  Spendable(campaign[c])
<1>t. campaign[c] \in CampaignRow
    BY DEF TypeOK
<1>0. CASE campaign'[c] = campaign[c]
    BY <1>0
<1>1. ASSUME NEW d \in CampaignId, NEW state, state # "Running",
             campaign' = [campaign EXCEPT ![d].state = state, ![d].rev = @ + 1]
      PROVE  Spendable(campaign[c])
    BY <1>0, <1>1, <1>t DEF TypeOK, CampaignRow, Spendable
<1>2. CASE CampaignStep
  <2>1. PICK d \in CampaignId :
          \/ StartCampaign(d)
          \/ DeadlineElapses(d)
          \/ CancelCampaign(d, campaign[d].rev)
          \/ FinishCampaignCancellation(d, campaign[d].rev)
          \/ FailCampaign(d, campaign[d].rev)
    BY <1>2 DEF CampaignStep
  <2>2. CASE StartCampaign(d)
    BY <1>0, <2>2 DEF StartCampaign, FreshCampaign, TypeOK
  <2>3. CASE DeadlineElapses(d)
    BY <1>0, <2>3 DEF DeadlineElapses
  <2> QED BY <1>1, <2>1, <2>2, <2>3 DEF CancelCampaign, FinishCampaignCancellation,
                                        FailCampaign, CloseCampaign
<1>3. CASE SessionStep
  <2>0. PICK s \in SessionId :
        \/ \E d \in CampaignId, office \in Office,
              a \in AttemptId \cup {0}, k \in CandidateId \cup {0} :
             CreateAssignment(s, d, campaign[d].rev, office, a, k)
        \/ StartSession(s)
        \/ \E stop \in StopReason, cost \in SessionCost : TerminalSession(s, stop, cost)
      BY <1>3 DEF SessionStep
  <2>1. ASSUME NEW d \in CampaignId, campaign' = [campaign EXCEPT ![d].rev = @ + 1]
        PROVE  Spendable(campaign[c])
    BY <1>t, <2>1 DEF TypeOK, CampaignRow, Spendable
  <2>2. CASE StartSession(s)
    BY <1>0, <2>2 DEF StartSession
  <2>3. ASSUME NEW stop \in StopReason, NEW cost \in SessionCost, TerminalSession(s, stop, cost)
        PROVE  Spendable(campaign[c])
    <3> DEFINE d == session[s].campaign
               settled == SettledCampaign(campaign[d], stop, cost)
    <3>1. campaign' = [campaign EXCEPT ![d] = [settled EXCEPT !.rev = settled.rev + 1]]
      BY <2>3 DEF TerminalSession
    <3>2. CASE c # d
      BY <1>0, <3>1, <3>2 DEF TypeOK
    <3>3. CASE c = d
      <4>1. settled \in CampaignRow
        BY <1>t, <3>3, SettledCampaignType
      <4>2. Spendable(settled) => Spendable(campaign[d])
        BY <1>t, <3>3 DEF SettledCampaign, Spendable, CampaignRow
      <4>3. campaign'[c] = [settled EXCEPT !.rev = settled.rev + 1]
        BY <3>1, <3>3 DEF TypeOK
      <4> HIDE DEF settled
      <4>4. Spendable(settled)
        BY <4>1, <4>3 DEF CampaignRow, Spendable
      <4> QED BY <3>3, <4>2, <4>4
    <3> QED BY <3>2, <3>3
  <2> QED BY <2>0, <2>1, <2>2, <2>3, Zenon DEF CreateAssignment
<1>4. CASE TicketStep
    BY <1>0, <1>4, ZenonT(60) DEF TicketStep, SubmitTicketProposal, SponsorTicket,
                                  ClaimSponsoredTicket
<1>5. CASE AttemptStep
    BY <1>0, <1>5, ZenonT(60) DEF AttemptStep, FailTicketAttempt, RetryQualityAttempt,
       RetryEngineeringAttempt, ReleaseTicketAttempt, SubmitCandidate
<1>6. CASE CandidateStep
  <2>1. PICK k \in CandidateId :
        LET a == candidate[k].attempt IN
        \/ AttachCandidateCommit(k, candidate[k].rev)
        \/ \E s \in SessionId, result \in {"Passed", "NotPassed"} :
             \/ RecordHardValidation(k, s, candidate[k].rev, attempt[a].rev, result)
             \/ RecordQualityValidation(k, s, candidate[k].rev, attempt[a].rev, result)
        \/ \E s \in SessionId, verdict \in {"Accept", "Reject"} :
             SubmitQualityReview(k, s, candidate[k].rev, attempt[a].rev, verdict)
        \/ \E decision \in Decision, override \in BOOLEAN :
             DecideCandidate(k, decision, override,
                             candidate[k].rev, attempt[a].rev, TicketOf(a).rev)
        \/ RecordDelivery(k, candidate[k].rev, attempt[a].rev, TicketOf(a).rev,
                          campaign[attempt[a].campaign].rev)
    BY <1>6 DEF CandidateStep
  <2>2. CASE UNCHANGED campaign
    BY <1>0, <2>2
  <2>3. CASE RecordDelivery(k, candidate[k].rev, attempt[candidate[k].attempt].rev,
                            TicketOf(candidate[k].attempt).rev,
                            campaign[attempt[candidate[k].attempt].campaign].rev)
    <3> DEFINE d == attempt[candidate[k].attempt].campaign
    <3>1. \/ UNCHANGED campaign
          \/ campaign' = [campaign EXCEPT ![d].state = "Completed", ![d].rev = @ + 1]
      BY <2>3, Zenon DEF RecordDelivery
    <3>2. CASE campaign' = [campaign EXCEPT ![d].state = "Completed", ![d].rev = @ + 1]
      <4> HIDE DEF d
      <4> QED BY <1>0, <1>t, <3>2 DEF TypeOK, CampaignRow, Spendable
    <3> QED BY <2>2, <3>1, <3>2
  <2> QED
    BY <2>1, <2>2, <2>3, ZenonT(60) DEF AttachCandidateCommit, RecordHardValidation,
       RecordQualityValidation, SubmitQualityReview, DecideCandidate
<1>7. CASE UNCHANGED vars
    BY <1>0, <1>7 DEF vars
<1> QED BY <1>2, <1>3, <1>4, <1>5, <1>6, <1>7 DEF Next

-----------------------------------------------------------------------------
(* What was spent, and what may come                                       *)

\* No session was assigned, and none was given other work.
SameSessions == \A s \in SessionId : SameWork(session[s], session'[s])

\* Only create_assignment spends.
LEMMA SpendFixed ==
    ASSUME SameSessions
    PROVE  /\ \A a : EngineeringSpend(a)' = EngineeringSpend(a)
           /\ \A k : QualitySpend(k)' = QualitySpend(k)
BY DEF SameSessions, SameWork, EngineeringSpend, QualitySpend

\* The sessions spent on a row can be counted.
LEMMA SpendFinite ==
    ASSUME NEW x
    PROVE  /\ IsFiniteSet(EngineeringSpend(x)) /\ Cardinality(EngineeringSpend(x)) \in Nat
           /\ IsFiniteSet(QualitySpend(x)) /\ Cardinality(QualitySpend(x)) \in Nat
<1>1. IsFiniteSet(SessionId)
    BY BoundsAssumption, FS_Interval DEF SessionId
<1>2. EngineeringSpend(x) \in SUBSET SessionId /\ QualitySpend(x) \in SUBSET SessionId
    BY DEF EngineeringSpend, QualitySpend
<1> QED BY <1>1, <1>2, FS_Subset, FS_CardinalityType

\* What may come only falls, or the budget grows by as much, or the session
\* that was due is assigned.
Covered(S, T, p, q, m, n) ==
    \/ T = S /\ q <= p
    \/ T = S /\ n > m
    \/ p = 1 /\ q = 0 /\ \E s : T = S \cup {s}

\* Such a step leaves paid what was paid.
LEMMA PaidKept ==
    ASSUME NEW S, NEW T, IsFiniteSet(S), Cardinality(S) \in Nat,
           NEW m \in Nat, NEW n \in Nat, n >= m,
           NEW p \in {0, 1}, NEW q \in {0, 1}, Paid(S, p, m), Covered(S, T, p, q, m, n)
    PROVE  Paid(T, q, n)
<1>1. CASE T = S /\ q <= p
    BY <1>1 DEF Paid
<1>2. CASE T = S /\ n > m
    BY <1>2 DEF Paid
<1>3. ASSUME NEW s, T = S \cup {s}, p = 1, q = 0
      PROVE  Paid(T, q, n)
  <2>0. Cardinality(S \cup {s}) = IF s \in S THEN Cardinality(S) ELSE Cardinality(S) + 1
    BY FS_AddElement
  <2>1. Cardinality(T) \in Nat /\ Cardinality(T) <= Cardinality(S) + 1
    BY <1>3, <2>0
  <2>2. Cardinality(S) + 1 <= m
    BY <1>3 DEF Paid
  <2>3. Cardinality(T) <= n
    BY <2>1, <2>2
  <2>4. Cardinality(T) + 0 <= n
    BY <2>1, <2>3
  <2> QED BY <1>3, <2>4 DEF Paid
<1> QED BY <1>1, <1>2, <1>3 DEF Covered

\* A step that pays for attempt a, or leaves less to come, or adds to its budget.
EngineeringMove(a) ==
    \/ /\ EngineeringSpend(a)' = EngineeringSpend(a)
       /\ \/ EngineeringDue(a)' => EngineeringDue(a)
          \/ EngineeringBudget(a)' > EngineeringBudget(a)
    \/ /\ EngineeringDue(a) /\ ~EngineeringDue(a)'
       /\ \E s : EngineeringSpend(a)' = EngineeringSpend(a) \cup {s}
QualityMove(k) ==
    \/ /\ QualitySpend(k)' = QualitySpend(k)
       /\ \/ QualityDue(k)' => QualityDue(k)
          \/ QualityBudget(k)' > QualityBudget(k)
    \/ /\ QualityDue(k) /\ ~QualityDue(k)'
       /\ \E s : QualitySpend(k)' = QualitySpend(k) \cup {s}

\* Every attempt stays paid when the step is such a one for those that exist.
LEMMA EngineeringPaidKept ==
    ASSUME TypeOK, TypeOK', TargetLinks, TargetLinks', RowLinks, [Next]_vars,
           FaultsOK, FaultsOK', FaultCount' >= FaultCount,
           EngineeringPaid,
           \A a \in AttemptId : attempt'[a].stage # "Absent" /\ attempt[a].stage = "Absent" =>
             EngineeringSpend(a)' = EngineeringSpend(a),
           \A a \in AttemptId :
             (attempt[a].stage # "Absent" /\ ~attempt'[a].released) => EngineeringMove(a)
    PROVE  EngineeringPaid'
<1>f. FaultCount \in Nat /\ FaultCount' \in Nat
    BY DEF FaultsOK, FaultCount
<1> SUFFICES ASSUME NEW a \in AttemptId, ~attempt'[a].released
             PROVE  Paid(EngineeringSpend(a)', Bit(EngineeringDue(a)'), EngineeringBudget(a)')
    BY DEF EngineeringPaid, Paid, Bit
<1>t. /\ attempt[a].rework \in Nat /\ attempt'[a].rework \in Nat
      /\ attempt[a].engineeringRetried \in BOOLEAN /\ attempt'[a].engineeringRetried \in BOOLEAN
    BY DEF TypeOK, AttemptRow
<1>b. EngineeringBudget(a) \in Nat /\ EngineeringBudget(a)' \in Nat /\ EngineeringBudget(a)' >= 1
    BY <1>f, <1>t DEF EngineeringBudget, Bit
<1>e. 0 \notin AttemptId
    BY DEF AttemptId
<1>1. ASSUME EngineeringSpend(a)' = {}
      PROVE  Paid(EngineeringSpend(a)', Bit(EngineeringDue(a)'), EngineeringBudget(a)')
  <2>1. Cardinality(EngineeringSpend(a)') = 0
    BY <1>1, FS_EmptySet
  <2> QED BY <1>b, <2>1 DEF Paid, Bit
<1>2. CASE attempt'[a].stage = "Absent"
  <2>1. EngineeringSpend(a)' = {}
    BY <1>2, <1>e DEF TargetLinks, EngineeringSpend
  <2> QED BY <1>1, <2>1
<1>3. CASE attempt'[a].stage # "Absent" /\ attempt[a].stage = "Absent"
  <2>1. EngineeringSpend(a) = {}
    BY <1>3, <1>e DEF TargetLinks, EngineeringSpend
  <2> QED BY <1>1, <1>3, <2>1
<1>4. CASE attempt[a].stage # "Absent"
  <2>1. BudgetGrows(attempt[a], attempt'[a])
    BY <1>4, BudgetsGrow
  <2>2. EngineeringBudget(a)' >= EngineeringBudget(a)
    BY <1>f, <1>t, <2>1 DEF BudgetGrows, EngineeringBudget, Bit
  <2>3. ~attempt[a].released
    BY <2>1 DEF BudgetGrows
  <2>4. Paid(EngineeringSpend(a), Bit(EngineeringDue(a)), EngineeringBudget(a))
    BY <2>3 DEF EngineeringPaid
  <2>5. EngineeringMove(a)
    BY <1>4
  <2>6. IsFiniteSet(EngineeringSpend(a)) /\ Cardinality(EngineeringSpend(a)) \in Nat
    BY SpendFinite
  <2> DEFINE S == EngineeringSpend(a)
             T == EngineeringSpend(a)'
             p == Bit(EngineeringDue(a))
             q == Bit(EngineeringDue(a)')
             m == EngineeringBudget(a)
             n == EngineeringBudget(a)'
  <2>7. Covered(S, T, p, q, m, n)
    BY <2>5 DEF Covered, EngineeringMove, Bit
  <2>8. m \in Nat /\ n \in Nat /\ n >= m /\ p \in {0, 1} /\ q \in {0, 1}
    BY <1>b, <2>2 DEF Bit
  <2>9. IsFiniteSet(S) /\ Cardinality(S) \in Nat /\ Paid(S, p, m)
    BY <2>4, <2>6
  <2> HIDE DEF S, T, p, q, m, n
  <2>10. Paid(T, q, n)
    BY <2>7, <2>8, <2>9, PaidKept
  <2> QED BY <2>10 DEF T, q, n
<1> QED BY <1>2, <1>3, <1>4

\* A candidate row that exists keeps its attempt.
LEMMA CandidateAttemptKept ==
    ASSUME TypeOK, [Next]_vars, NEW k \in CandidateId, candidate[k].state # "Absent"
    PROVE  candidate'[k].state # "Absent" /\ candidate'[k].attempt = candidate[k].attempt
BY AuthorsKept DEF KeepsAuthors

\* Sums of larger terms are larger.
LEMMA SumGrows ==
    ASSUME NEW i \in Nat, NEW j \in Nat, NEW f \in Nat, NEW g \in Nat, i <= j, g >= f
    PROVE  1 + j + g >= 1 + i + f
OBVIOUS

\* Every candidate stays paid when the step is such a one for those that passed
\* their hard validation.
LEMMA QualityPaidKept ==
    ASSUME TypeOK, TypeOK', TargetLinks, RowLinks, [Next]_vars,
           FaultsOK, FaultsOK', FaultCount' >= FaultCount,
           QualityPaid,
           \A k \in CandidateId : candidate[k].state \in {"Absent", "Submitted"} =>
             QualitySpend(k)' = QualitySpend(k),
           \A k \in CandidateId :
             (/\ candidate[k].state \notin {"Absent", "Submitted"}
              /\ ~attempt'[candidate[k].attempt].released) => QualityMove(k)
    PROVE  QualityPaid'
<1>f. FaultCount \in Nat /\ FaultCount' \in Nat
    BY DEF FaultsOK, FaultCount
<1> SUFFICES ASSUME NEW k \in CandidateId, candidate'[k].attempt # 0,
                    ~attempt'[candidate'[k].attempt].released
             PROVE  Paid(QualitySpend(k)', Bit(QualityDue(k)'), QualityBudget(k)')
    BY DEF QualityPaid, Paid, Bit
<1>b. QualityBudget(k) \in Nat /\ QualityBudget(k)' \in Nat /\ QualityBudget(k)' >= 1
    BY <1>f DEF QualityBudget, Bit
<1>1. CASE candidate[k].state \in {"Absent", "Submitted"}
  <2>1. QualitySpend(k) = {}
    BY <1>1 DEF TargetLinks, QualitySpend, CandidateId
  <2>2. Cardinality(QualitySpend(k)') = 0
    BY <1>1, <2>1, FS_EmptySet
  <2> QED BY <1>b, <2>2 DEF Paid, Bit
<1>2. CASE candidate[k].state \notin {"Absent", "Submitted"}
  <2> DEFINE a == candidate[k].attempt
  <2>0. a \in AttemptId /\ attempt[a].stage # "Absent" /\ candidate'[k].attempt = a
    BY <1>2, CandidateAttemptKept DEF RowLinks, CandidateLinks
  <2>1. BudgetGrows(attempt[a], attempt'[a])
    BY <2>0, BudgetsGrow
  <2>t. attempt[a].qualityRetried \in BOOLEAN /\ attempt'[a].qualityRetried \in BOOLEAN
    BY <2>0 DEF TypeOK, AttemptRow
  <2>2. QualityBudget(k)' >= QualityBudget(k)
    <3> DEFINE i == Bit(attempt[a].qualityRetried)
               j == Bit(attempt'[a].qualityRetried)
    <3>1. QualityBudget(k) = 1 + i + FaultCount /\ QualityBudget(k)' = 1 + j + FaultCount'
      BY <2>0 DEF QualityBudget
    <3>2. i \in Nat /\ j \in Nat /\ i <= j
      BY <2>t, <2>1 DEF BudgetGrows, Bit
    <3> HIDE DEF i, j
    <3>3. 1 + j + FaultCount' >= 1 + i + FaultCount
      BY <1>f, <3>2, SumGrows
    <3> QED BY <3>1, <3>3
  <2>3. ~attempt[a].released /\ a # 0
    BY <2>0, <2>1 DEF BudgetGrows, AttemptId
  <2>4. Paid(QualitySpend(k), Bit(QualityDue(k)), QualityBudget(k))
    BY <2>3 DEF QualityPaid
  <2>5. QualityMove(k)
    BY <1>2, <2>0
  <2>6. IsFiniteSet(QualitySpend(k)) /\ Cardinality(QualitySpend(k)) \in Nat
    BY SpendFinite
  <2> DEFINE S == QualitySpend(k)
             T == QualitySpend(k)'
             p == Bit(QualityDue(k))
             q == Bit(QualityDue(k)')
             m == QualityBudget(k)
             n == QualityBudget(k)'
  <2>d. /\ (QualityDue(k)' => QualityDue(k)) => q <= p
        /\ QualityDue(k) /\ ~QualityDue(k)' => p = 1 /\ q = 0
    BY DEF Bit
  <2>7. Covered(S, T, p, q, m, n)
    <3> HIDE DEF p, q
    <3> QED BY <2>5, <2>d DEF Covered, QualityMove
  <2>8. m \in Nat /\ n \in Nat /\ n >= m /\ p \in {0, 1} /\ q \in {0, 1}
    BY <1>b, <2>2 DEF Bit
  <2>9. IsFiniteSet(S) /\ Cardinality(S) \in Nat /\ Paid(S, p, m)
    BY <2>4, <2>6
  <2> HIDE DEF S, T, p, q, m, n
  <2>10. Paid(T, q, n)
    BY <2>7, <2>8, <2>9, PaidKept
  <2> QED BY <2>10 DEF T, q, n
<1> QED BY <1>1, <1>2

-----------------------------------------------------------------------------
(* Work in flight, and the attempt that succeeded a released one           *)

\* Of the candidates of an attempt only one is not Rejected.
LEMMA OneLive ==
    ASSUME StageMatchesHead, NEW j \in CandidateId, NEW k \in CandidateId, j # k,
           candidate[k].attempt \in AttemptId, candidate[j].attempt = candidate[k].attempt,
           candidate[k].state # "Rejected"
    PROVE  candidate[j].state = "Rejected"
<1>1. j < k \/ k < j
    BY DEF CandidateId
<1> QED BY <1>1 DEF StageMatchesHead

\* A ticket leaves flight only through its attempt: a released attempt that
\* delivers or is rejected has no successor at work.
LEMMA WorkInFlightKept ==
    ASSUME RowLinks, InFlightOwnership, QuietSuccessor, WorkInFlight, LifecycleEvent
    PROVE  WorkInFlight'
<1> USE DEF RowLinks
<1>1. ASSUME NEW a \in AttemptId, NEW stage, NEW released, AttemptSet(a, stage, released),
             UNCHANGED ticket,
             \/ stage \notin DownstreamStage
             \/ Working(a)
             \/ attempt[a].stage \in DownstreamStage /\ released = attempt[a].released
      PROVE  WorkInFlight'
    BY <1>1 DEF AttemptSet, WorkInFlight, TicketOf, Working
<1>2. CASE UNCHANGED <<ticket, attempt>>
    BY <1>2 DEF WorkInFlight, TicketOf
<1>3. ASSUME NEW t \in TicketId, NEW state \in TicketState, TicketEvent(t, state)
      PROVE  WorkInFlight'
  <2>1. \A u \in TicketId : ticket[u].state = "InFlight" => ticket'[u] = ticket[u]
    BY <1>3 DEF TicketEvent, TicketSet
  <2>2. UNCHANGED attempt
    BY <1>3 DEF TicketEvent
  <2>3. \A a \in AttemptId : attempt[a].stage \in DownstreamStage => attempt[a].ticket \in TicketId
    BY DEF AttemptLinks, DownstreamStage, HardStage, QualityStage
  <2> QED BY <2>1, <2>2, <2>3 DEF WorkInFlight, TicketOf
<1>4. ASSUME NEW t \in TicketId, NEW a \in AttemptId, NEW c \in CampaignId, ClaimEvent(t, a, c)
      PROVE  WorkInFlight'
  <2>1. \A u \in TicketId : ticket[u].state = "InFlight" => ticket'[u] = ticket[u]
    BY <1>4 DEF ClaimEvent, TicketSet
  <2>2. attempt'[a].stage = "Engineering" /\ \A b \in AttemptId : b # a => attempt'[b] = attempt[b]
    BY <1>4 DEF ClaimEvent, NoAttempt
  <2>3. \A b \in AttemptId : attempt[b].stage \in DownstreamStage => attempt[b].ticket \in TicketId
    BY DEF AttemptLinks, DownstreamStage, HardStage, QualityStage
  <2>4. "Engineering" \notin DownstreamStage
    BY DEF DownstreamStage, HardStage, QualityStage
  <2> QED BY <2>1, <2>2, <2>3, <2>4 DEF WorkInFlight, TicketOf
<1>5. ASSUME NEW a \in AttemptId, NEW stage \in AttemptStage, StageEvent(a, stage)
      PROVE  WorkInFlight'
    BY <1>1, <1>5 DEF StageEvent
<1>6. ASSUME NEW k \in CandidateId, NEW a \in AttemptId, SubmitEvent(k, a)
      PROVE  WorkInFlight'
    BY <1>1, <1>6 DEF SubmitEvent
<1>7. ASSUME NEW k \in CandidateId, NEW state, NEW stage, EvidenceEvent(k, state, stage)
      PROVE  WorkInFlight'
  <2>1. attempt[candidate[k].attempt].stage \in DownstreamStage
    BY <1>7 DEF EvidenceEvent, EvidenceMove, DownstreamStage
  <2> QED BY <1>1, <1>7, <2>1 DEF EvidenceEvent
<1>8. ASSUME NEW a \in AttemptId, NEW stage, NEW released, NEW state,
             stage \notin DownstreamStage,
             attempt[a].stage # "Absent",
             AttemptSet(a, stage, released), TicketSet(attempt[a].ticket, state),
             \A b \in AttemptId :
               (/\ b # a /\ attempt[b].stage \in DownstreamStage /\ ~attempt[b].released)
                 => attempt[b].ticket # attempt[a].ticket
      PROVE  WorkInFlight'
  <2>1. SUFFICES ASSUME NEW b \in AttemptId, ~attempt'[b].released,
                        attempt'[b].stage \in DownstreamStage
                 PROVE  ticket'[attempt'[b].ticket].state = "InFlight"
    BY DEF WorkInFlight, TicketOf
  <2>2. b # a /\ attempt'[b] = attempt[b]
    BY <1>8, <2>1 DEF AttemptSet
  <2>3. attempt[b].ticket # attempt[a].ticket /\ attempt[b].ticket \in TicketId
    BY <1>8, <2>1, <2>2 DEF AttemptLinks, DownstreamStage, HardStage, QualityStage
  <2> QED BY <1>8, <2>1, <2>2, <2>3 DEF WorkInFlight, TicketOf, TicketSet
<1>9. "Failed" \notin DownstreamStage /\ "Delivered" \notin DownstreamStage
        /\ "Absent" \notin DownstreamStage
    BY DEF DownstreamStage, HardStage, QualityStage
<1>10. ASSUME NEW a \in AttemptId, NEW state \in TicketState, ReleaseEvent(a, state)
       PROVE  WorkInFlight'
  <2>1. \A b \in AttemptId :
          (/\ b # a /\ attempt[b].stage \in DownstreamStage /\ ~attempt[b].released)
            => attempt[b].ticket # attempt[a].ticket
    BY <1>9, <1>10 DEF ReleaseEvent, Working, InFlightOwnership
  <2> QED BY <1>8, <1>9, <1>10, <2>1 DEF ReleaseEvent, Working
<1>11. ASSUME NEW k \in CandidateId, RejectEvent(k) \/ DeliverEvent(k)
       PROVE  WorkInFlight'
  <2> DEFINE a == candidate[k].attempt
  <2>1. a \in AttemptId /\ attempt[a].stage = "AwaitingArchitect"
    BY <1>11 DEF RejectEvent, DeliverEvent
  <2>2. \A b \in AttemptId :
          (/\ b # a /\ attempt[b].stage \in DownstreamStage /\ ~attempt[b].released)
            => attempt[b].ticket # attempt[a].ticket
    <3> SUFFICES ASSUME NEW b \in AttemptId, b # a, attempt[b].stage \in DownstreamStage,
                        ~attempt[b].released, attempt[b].ticket = attempt[a].ticket
                 PROVE  FALSE
        OBVIOUS
    <3>1. attempt[a].released
      BY <1>9, <2>1 DEF InFlightOwnership
    <3>2. Reopened(a)
      BY <2>1, <3>1 DEF Reopened, OpenStage, DownstreamStage
    <3>3. Quiet(b)
      BY <1>9, <2>1, <3>2 DEF QuietSuccessor
    <3> QED BY <3>3 DEF Quiet, DownstreamStage, HardStage, QualityStage
  <2>3. \E stage \in {"Failed", "Delivered"} : AttemptSet(a, stage, attempt[a].released)
    BY <1>11 DEF RejectEvent, DeliverEvent
  <2>4. \E state : TicketSet(attempt[a].ticket, state)
    BY <1>11 DEF RejectEvent, DeliverEvent
  <2> QED BY <1>8, <1>9, <2>1, <2>2, <2>3, <2>4
<1> QED
    BY <1>2, <1>3, <1>4, <1>5, <1>6, <1>7, <1>10, <1>11
    DEF LifecycleEvent, CampaignEvent, AttachEvent

\* A step that starts no attempt, opens no released one and leaves alone the
\* attempts that nobody works on keeps the successors quiet.
LEMMA QuietSuccessorKept ==
    ASSUME TypeOK, RowLinks, InFlightOwnership, QuietSuccessor, [Next]_vars,
           \A a \in AttemptId : attempt[a].stage = "Absent" => attempt'[a].stage = "Absent",
           \A a \in AttemptId :
             Reopened(a)' => Reopened(a) \/ (attempt[a].stage # "Absent" /\ ~attempt[a].released),
           \A b \in AttemptId :
             (/\ attempt[b].stage # "Absent" /\ ~attempt'[b].released
              /\ b # driver.attempt /\ ~HasCandidate(b)) =>
                attempt'[b] = attempt[b] /\ ~HasCandidate(b)',
           driver'.attempt \in {0, driver.attempt}
    PROVE  QuietSuccessor'
<1> SUFFICES ASSUME NEW a \in AttemptId, NEW b \in AttemptId, Reopened(a)',
                    attempt'[b].stage # "Absent", ~attempt'[b].released,
                    attempt'[b].ticket = attempt'[a].ticket
             PROVE  Quiet(b)'
    BY DEF QuietSuccessor
<1>1. a # b
    BY DEF Reopened
<1>2. attempt[b].stage # "Absent" /\ attempt[a].stage # "Absent"
    BY DEF Reopened, RowLinks, AttemptLinks
<1>3. attempt[b].ticket = attempt[a].ticket
    BY <1>2, AttemptTicketKept
<1>4. ~attempt[b].released
    BY <1>2, BudgetsGrow DEF BudgetGrows
<1>5. Reopened(a)
    BY <1>1, <1>2, <1>3, <1>4 DEF InFlightOwnership
<1>6. Quiet(b)
    BY <1>2, <1>3, <1>4, <1>5 DEF QuietSuccessor
<1>7. attempt'[b] = attempt[b] /\ ~HasCandidate(b)'
    BY <1>2, <1>6 DEF Quiet
<1>8. attempt[b].campaign \in CampaignId /\ campaign[attempt[b].campaign].state # "Absent"
    BY <1>2 DEF RowLinks, AttemptLinks
<1>9. Spendable(campaign'[attempt[b].campaign]) => Spendable(campaign[attempt[b].campaign])
    BY <1>8, CampaignsWane
<1>10. driver'.attempt # b
    BY <1>6 DEF Quiet, AttemptId
<1> QED BY <1>6, <1>7, <1>9, <1>10 DEF Quiet, Spendable

-----------------------------------------------------------------------------
(* One step of the control plane                                           *)

\* A step from a state that has every fact, and what its second state has by the
\* lemmas on the authority.
OneStep ==
    /\ ControlFacts /\ [Next]_vars
    /\ TypeOK' /\ RowLinks' /\ HistoryInv' /\ WorkInFlight'

\* Every step of the control plane is such a one.
LEMMA StepFacts ==
    ASSUME ControlFacts, [ControlNext]_cvars
    PROVE  OneStep
<1>1. [Next]_vars
    BY ControlIsStep DEF ControlFacts
<1>2. TypeOK /\ TypeOK' /\ RowLinks'
    BY <1>1, NextTypeOK, NextRowLinks DEF ControlFacts, ControlInv
<1>3. HistoryInv'
    BY <1>1, <1>2, HistoryKept DEF ControlFacts
<1>4. WorkInFlight'
  <2>1. CASE Next
    BY <1>2, <2>1, StepIsEvent, WorkInFlightKept DEF ControlFacts, SpendInv
  <2>2. CASE UNCHANGED vars
    BY <2>2 DEF vars, ControlFacts, SpendInv, WorkInFlight, TicketOf
  <2> QED BY <1>1, <2>1, <2>2
<1> QED BY <1>1, <1>2, <1>3, <1>4 DEF OneStep

\* Only a decision sends an attempt to rework, and it is counted.
LEMMA ReworkCounts ==
    ASSUME TypeOK, RowLinks, [Next]_vars, NEW a \in AttemptId,
           attempt'[a].stage = "ReworkEngineering"
    PROVE  attempt'[a] = attempt[a] \/ attempt'[a].rework > attempt[a].rework
<1>1. CASE UNCHANGED attempt
    BY <1>1
<1>2. CASE LifecycleEvent
  <2>1. ASSUME NEW b \in AttemptId, NEW stage, NEW released, AttemptSet(b, stage, released),
               stage # "ReworkEngineering"
        PROVE  attempt'[a] = attempt[a]
    BY <2>1 DEF AttemptSet
  <2>2. ASSUME NEW t \in TicketId, NEW b \in AttemptId, NEW c \in CampaignId, ClaimEvent(t, b, c)
        PROVE  attempt'[a] = attempt[a]
    BY <2>2 DEF ClaimEvent, NoAttempt
  <2>3. ASSUME NEW b \in AttemptId, NEW stage \in AttemptStage, StageEvent(b, stage)
        PROVE  attempt'[a] = attempt[a]
    BY <2>1, <2>3 DEF StageEvent
  <2>4. ASSUME NEW b \in AttemptId,
               (\E state \in TicketState : ReleaseEvent(b, state))
                 \/ \E k \in CandidateId : SubmitEvent(k, b)
        PROVE  attempt'[a] = attempt[a]
    BY <2>1, <2>4 DEF ReleaseEvent, SubmitEvent, HardStage
  <2>5. ASSUME NEW k \in CandidateId, NEW state, NEW stage, EvidenceEvent(k, state, stage)
        PROVE  attempt'[a] = attempt[a] \/ attempt'[a].rework > attempt[a].rework
    BY <2>5 DEF EvidenceEvent, AttemptSet
  <2>6. ASSUME NEW k \in CandidateId, RejectEvent(k) \/ DeliverEvent(k)
        PROVE  attempt'[a] = attempt[a]
    BY <2>1, <2>6 DEF RejectEvent, DeliverEvent
  <2> QED BY <1>1, <1>2, <2>2, <2>3, <2>4, <2>5, <2>6
          DEF LifecycleEvent, CampaignEvent, TicketEvent, AttachEvent
<1> QED BY <1>1, <1>2, StepIsEvent DEF vars

\* Only retry_quality_attempt gives a candidate back to Quality, and it does so
\* once.
LEMMA ReviewsCount ==
    ASSUME TypeOK, RowLinks, SoundCandidates, StageMatchesHead, [Next]_vars,
           NEW k \in CandidateId, candidate[k].state \notin {"Absent", "Submitted"},
           Reviewable(k)'
    PROVE  \/ Reviewable(k)
           \/ /\ ~attempt[candidate[k].attempt].qualityRetried
              /\ attempt'[candidate[k].attempt].qualityRetried
<1> DEFINE a == candidate[k].attempt
           Goal == \/ Reviewable(k)
                   \/ ~attempt[a].qualityRetried /\ attempt'[a].qualityRetried
<1>a. a \in AttemptId /\ candidate'[k].attempt = a
    BY CandidateAttemptKept DEF RowLinks, CandidateLinks
<1>s. /\ candidate'[k].state = "Validated"
      /\ \/ attempt'[a].stage \in QualityStage
         \/ attempt'[a].stage = "AwaitingArchitect" /\ candidate'[k].review = "None"
    BY <1>a DEF Reviewable
<1> HIDE DEF a
<1>0. CASE UNCHANGED <<attempt, candidate>>
    BY <1>0 DEF Reviewable, a
<1>1. CASE Next
  <2>r. candidate'[k].review = "None" => candidate[k].review = "None"
    <3>1. candidate[k].review \in ReviewState
      BY DEF TypeOK, CandidateRow
    <3> QED BY <1>1, CandidateWrite DEF KeepsEvidence
  <2>0. ASSUME candidate[k].state = "Validated",
               \/ attempt[a].stage \in QualityStage
               \/ attempt'[a].stage = attempt[a].stage
        PROVE  Reviewable(k)
    BY <1>s, <2>0, <2>r DEF Reviewable, a
  <2>1. ASSUME NEW j \in CandidateId, NEW state, CandidateSet(j, state),
               candidate[j].state = "Validated"
        PROVE  candidate[k].state = "Validated"
    BY <1>s, <2>1 DEF CandidateSet
  <2>3. ASSUME NEW t \in TicketId, NEW b \in AttemptId, NEW c \in CampaignId, ClaimEvent(t, b, c)
        PROVE  Goal
    <3>1. attempt'[b].stage = "Engineering"
      BY <2>3 DEF ClaimEvent, NoAttempt
    <3>2. attempt'[a] = attempt[a]
      BY <1>a, <1>s, <2>3, <3>1 DEF ClaimEvent, QualityStage
    <3> QED BY <1>s, <2>0, <2>3, <3>2 DEF ClaimEvent
  <2>4. ASSUME NEW b \in AttemptId, NEW stage \in AttemptStage, StageEvent(b, stage)
        PROVE  Goal
    <3>1. candidate[k].state = "Validated"
      BY <1>s, <2>4 DEF StageEvent
    <3>2. CASE a # b
      BY <1>a, <2>0, <2>4, <3>1, <3>2 DEF StageEvent, AttemptSet
    <3>3. CASE a = b
      BY <1>s, <2>4, <3>3 DEF StageEvent, AttemptSet, QualityStage
    <3> QED BY <3>2, <3>3
  <2>5. ASSUME NEW b \in AttemptId, NEW state \in TicketState, ReleaseEvent(b, state)
        PROVE  Goal
    BY <1>a, <1>s, <2>0, <2>5 DEF ReleaseEvent, AttemptSet, QualityStage
  <2>6. ASSUME NEW j \in CandidateId, NEW b \in AttemptId, SubmitEvent(j, b)
        PROVE  Goal
    <3>1. candidate[k].state = "Validated"
      BY <1>s, <2>6 DEF SubmitEvent
    <3>2. a # b
      BY <1>s, <2>6 DEF SubmitEvent, AttemptSet, HardStage, QualityStage
    <3> QED BY <1>a, <2>0, <2>6, <3>1, <3>2 DEF SubmitEvent, AttemptSet
  <2>7. ASSUME NEW j \in CandidateId, NEW state, NEW stage, EvidenceEvent(j, state, stage)
        PROVE  Goal
    <3>1. CASE candidate[j].attempt # a
      <4>1. candidate'[k] = candidate[k] /\ attempt'[a] = attempt[a]
        BY <1>a, <2>7, <3>1 DEF EvidenceEvent, CandidateSet, AttemptSet, a
      <4> QED BY <1>s, <2>0, <4>1
    <3>2. CASE candidate[j].attempt = a /\ j # k
      <4>1. candidate[j].state # "Rejected"
        BY <2>7 DEF EvidenceEvent, EvidenceMove
      <4>2. candidate[k].state = "Rejected"
        BY <1>a, <3>2, <4>1, OneLive DEF a
      <4> QED BY <1>s, <2>7, <3>2, <4>2 DEF EvidenceEvent, CandidateSet
    <3>3. CASE j = k
      BY <1>s, <2>0, <2>7, <3>3 DEF EvidenceEvent, EvidenceMove, CandidateSet, AttemptSet, a,
                                    QualityStage
    <3> QED BY <3>1, <3>2, <3>3 DEF a
  <2>8. ASSUME NEW j \in CandidateId, AttachEvent(j)
        PROVE  Goal
    BY <2>0, <2>1, <2>8 DEF AttachEvent
  <2>9. ASSUME NEW j \in CandidateId, RejectEvent(j) \/ DeliverEvent(j)
        PROVE  Goal
    <3>1. j # k /\ a # candidate[j].attempt
      BY <1>s, <2>9 DEF RejectEvent, DeliverEvent, CandidateSet, AttemptSet, QualityStage, a
    <3>2. candidate'[k] = candidate[k] /\ attempt'[a] = attempt[a]
      BY <1>a, <2>9, <3>1 DEF RejectEvent, DeliverEvent, CandidateSet, AttemptSet
    <3> QED BY <1>s, <2>0, <3>2
  <2>10. CASE UNCHANGED <<attempt, candidate>>
    BY <1>0, <2>10
  <2>11. Goal
    BY <1>1, StepIsEvent, <2>3, <2>4, <2>5, <2>6, <2>7, <2>8, <2>9, <2>10
    DEF LifecycleEvent, CampaignEvent, TicketEvent
  <2> QED BY <2>11 DEF a
<1> QED BY <1>0, <1>1 DEF vars, a

\* Nothing but a command on attempt a writes the ticket that the driver holds
\* with it.
LEMMA TicketKept ==
    ASSUME TypeOK, RowLinks, InFlightOwnership, QuietSuccessor, [Next]_vars,
           NEW a \in AttemptId, a = driver.attempt, Working(a), ~attempt[a].released,
           attempt'[a] = attempt[a]
    PROVE  ticket'[attempt[a].ticket] = ticket[attempt[a].ticket]
<1> DEFINE t == attempt[a].ticket
<1>t. t \in TicketId /\ ticket[t].state = "InFlight" /\ attempt[a].stage # "Absent"
    BY DEF RowLinks, AttemptLinks, Working, TicketOf
<1>1. ASSUME NEW b \in AttemptId, attempt[b].stage # "Absent", attempt[b].ticket = t, b # a
      PROVE  attempt[b].released /\ attempt[b].stage \notin OpenStage
  <2>1. attempt[b].released
    BY <1>1, <1>t DEF InFlightOwnership
  <2>2. attempt[b].stage \notin OpenStage
    <3> SUFFICES ASSUME attempt[b].stage \in OpenStage PROVE FALSE
        OBVIOUS
    <3>1. Reopened(b)
      BY <2>1 DEF Reopened
    <3>2. Quiet(a)
      BY <1>1, <1>t, <3>1 DEF QuietSuccessor
    <3> QED BY <3>2 DEF Quiet
  <2> QED BY <2>1, <2>2
<1> HIDE DEF t
<1>2. CASE UNCHANGED ticket
    BY <1>2 DEF t
<1>3. CASE LifecycleEvent
  <2>1. ASSUME NEW u \in TicketId, NEW state \in TicketState, TicketEvent(u, state)
        PROVE  ticket'[t] = ticket[t]
    BY <1>t, <2>1 DEF TicketEvent, TicketSet
  <2>2. ASSUME NEW u \in TicketId, NEW b \in AttemptId, NEW c \in CampaignId, ClaimEvent(u, b, c)
        PROVE  ticket'[t] = ticket[t]
    BY <1>t, <2>2 DEF ClaimEvent, TicketSet
  <2>3. ASSUME NEW b \in AttemptId, NEW state \in TicketState, ReleaseEvent(b, state)
        PROVE  ticket'[t] = ticket[t]
    <3>1. b # a
      BY <2>3 DEF ReleaseEvent, AttemptSet
    <3>2. attempt[b].ticket # t
      BY <1>1, <2>3, <3>1 DEF ReleaseEvent, Working
    <3> QED BY <1>t, <2>3, <3>2 DEF ReleaseEvent, TicketSet
  <2>4. ASSUME NEW k \in CandidateId, RejectEvent(k) \/ DeliverEvent(k)
        PROVE  ticket'[t] = ticket[t]
    <3> DEFINE b == candidate[k].attempt
    <3>1. /\ b \in AttemptId /\ attempt[b].stage = "AwaitingArchitect"
          /\ \E stage \in {"Failed", "Delivered"} : attempt'[b].stage = stage
          /\ \E state : TicketSet(attempt[b].ticket, state)
      BY <2>4 DEF RejectEvent, DeliverEvent, AttemptSet
    <3>2. b # a
      BY <3>1
    <3>3. attempt[b].ticket # t
      BY <1>1, <3>1, <3>2 DEF OpenStage, DownstreamStage
    <3> QED BY <1>t, <3>1, <3>3 DEF TicketSet
  <2> QED BY <1>2, <1>3, <2>1, <2>2, <2>3, <2>4
          DEF t, LifecycleEvent, CampaignEvent, StageEvent, SubmitEvent, AttachEvent, EvidenceEvent
<1> QED BY <1>2, <1>3, StepIsEvent DEF vars

\* A retry or a rework more is a session more that may be paid.
LEMMA EngineeringBudgetGrows ==
    ASSUME TypeOK, TypeOK', FaultsOK, UNCHANGED faults, NEW a \in AttemptId,
           BudgetGrows(attempt[a], attempt'[a]),
           \/ attempt'[a].rework > attempt[a].rework
           \/ ~attempt[a].engineeringRetried /\ attempt'[a].engineeringRetried
    PROVE  EngineeringBudget(a)' > EngineeringBudget(a)
<1>1. /\ attempt[a].rework \in Nat /\ attempt'[a].rework \in Nat
      /\ attempt[a].engineeringRetried \in BOOLEAN /\ attempt'[a].engineeringRetried \in BOOLEAN
    BY DEF TypeOK, AttemptRow
<1>2. FaultCount \in Nat /\ FaultCount' = FaultCount
    BY DEF FaultsOK, FaultCount
<1> QED BY <1>1, <1>2 DEF BudgetGrows, EngineeringBudget, Bit

\* So is a Quality retry.
LEMMA QualityBudgetGrows ==
    ASSUME TypeOK, TypeOK', FaultsOK, UNCHANGED faults, NEW k \in CandidateId,
           candidate[k].attempt \in AttemptId, candidate'[k].attempt = candidate[k].attempt,
           ~attempt[candidate[k].attempt].qualityRetried,
           attempt'[candidate[k].attempt].qualityRetried
    PROVE  QualityBudget(k)' > QualityBudget(k)
<1>1. FaultCount \in Nat /\ FaultCount' = FaultCount
    BY DEF FaultsOK, FaultCount
<1>2. QualityBudget(k) = 1 + FaultCount /\ QualityBudget(k)' = 2 + FaultCount
    BY <1>1 DEF QualityBudget, Bit
<1> QED BY <1>1, <1>2

\* The step leaves candidate k to Quality without a retry for it.
StillDue(k) ==
    /\ Reviewable(k) /\ Reviewable(k)'
    /\ attempt'[candidate[k].attempt].qualityRetried => attempt[candidate[k].attempt].qualityRetried

\* A step pays for everything when a launch it comes to was due or was paid by a
\* retry, and what the driver works on and the step leaves unfinished stays with
\* the driver.
LEMMA StepPaid ==
    ASSUME OneStep, SameSessions, UNCHANGED faults, PlaceInv', QuietSuccessor',
           \A a \in AttemptId :
             (LaunchesEngineering(a)' /\ attempt[a].stage # "Absent") =>
               EngineeringDue(a) \/ EngineeringBudget(a)' > EngineeringBudget(a),
           \A a \in AttemptId :
             (/\ attempt[a].stage = "ReworkEngineering" /\ ~attempt[a].released
              /\ attempt'[a] = attempt[a] /\ AtEngineering(a)) => AtEngineering(a)',
           \A k \in CandidateId :
             LaunchesQuality(k)' => QualityDue(k) \/ QualityBudget(k)' > QualityBudget(k),
           \A k \in CandidateId :
             (/\ StillDue(k) /\ AtQuality(k)
              /\ ~attempt'[candidate[k].attempt].released) => AtQuality(k)'
    PROVE  SpendInv'
<1>1. /\ TypeOK /\ TypeOK' /\ RowLinks /\ TargetLinks /\ TargetLinks' /\ [Next]_vars
      /\ SoundCandidates /\ StageMatchesHead
      /\ EngineeringPaid /\ QualityPaid /\ FaultsOK /\ FaultsOK'
    BY DEF OneStep, ControlFacts, ControlInv, HistoryInv, SpendInv, PlaceInv
<1>2. FaultCount' >= FaultCount
    BY <1>1 DEF FaultsOK, FaultCount
<1>3. EngineeringPaid'
  <2>1. ASSUME NEW a \in AttemptId, attempt[a].stage # "Absent", ~attempt'[a].released
        PROVE  EngineeringMove(a)
    <3>1. BudgetGrows(attempt[a], attempt'[a])
      BY <1>1, <2>1, BudgetsGrow
    <3>2. CASE LaunchesEngineering(a)'
      BY <2>1, <3>2, SpendFixed DEF EngineeringMove
    <3>3. CASE attempt'[a].stage = "ReworkEngineering" /\ ~AtEngineering(a)'
      <4>1. CASE attempt'[a] = attempt[a]
        <5>1. EngineeringDue(a)
          BY <2>1, <3>3, <4>1 DEF EngineeringDue
        <5> QED BY <5>1, SpendFixed DEF EngineeringMove
      <4>2. CASE attempt'[a].rework > attempt[a].rework
        <5>1. EngineeringBudget(a)' > EngineeringBudget(a)
          BY <1>1, <3>1, <4>2, EngineeringBudgetGrows
        <5> QED BY <5>1, SpendFixed DEF EngineeringMove
      <4> QED BY <1>1, <3>3, <4>1, <4>2, ReworkCounts
    <3>4. CASE ~EngineeringDue(a)'
      BY <3>4, SpendFixed DEF EngineeringMove
    <3> QED BY <3>2, <3>3, <3>4 DEF EngineeringDue
  <2> QED BY <1>1, <1>2, <2>1, SpendFixed, EngineeringPaidKept
<1>4. QualityPaid'
  <2>1. ASSUME NEW k \in CandidateId, candidate[k].state \notin {"Absent", "Submitted"},
               ~attempt'[candidate[k].attempt].released
        PROVE  QualityMove(k)
    <3>1. /\ candidate[k].attempt \in AttemptId
          /\ candidate'[k].attempt = candidate[k].attempt
      BY <1>1, <2>1, CandidateAttemptKept DEF RowLinks, CandidateLinks
    <3>2. CASE LaunchesQuality(k)'
      BY <3>2, SpendFixed DEF QualityMove
    <3>3. CASE Reviewable(k)' /\ ~AtQuality(k)'
      <4>1. CASE StillDue(k)
        <5>1. QualityDue(k)
          BY <2>1, <3>3, <4>1 DEF QualityDue, StillDue
        <5> QED BY <5>1, SpendFixed DEF QualityMove
      <4>2. CASE /\ ~attempt[candidate[k].attempt].qualityRetried
                 /\ attempt'[candidate[k].attempt].qualityRetried
        <5>1. QualityBudget(k)' > QualityBudget(k)
          BY <1>1, <3>1, <4>2, QualityBudgetGrows
        <5> QED BY <5>1, SpendFixed DEF QualityMove
      <4> QED BY <1>1, <2>1, <3>3, <4>1, <4>2, ReviewsCount DEF StillDue
    <3>4. CASE ~QualityDue(k)'
      BY <3>4, SpendFixed DEF QualityMove
    <3> QED BY <3>2, <3>3, <3>4 DEF QualityDue
  <2> QED BY <1>1, <1>2, <2>1, SpendFixed, QualityPaidKept
<1> QED BY <1>3, <1>4 DEF OneStep, SpendInv

\* A fault pays for one session more on every row.
LEMMA FaultPaid ==
    ASSUME OneStep, UNCHANGED vars, FaultCount' > FaultCount, PlaceInv', QuietSuccessor'
    PROVE  SpendInv'
<1>1. /\ TypeOK /\ TypeOK' /\ RowLinks /\ TargetLinks /\ TargetLinks' /\ [Next]_vars
      /\ EngineeringPaid /\ QualityPaid /\ FaultsOK /\ FaultsOK'
    BY DEF OneStep, ControlFacts, ControlInv, HistoryInv, SpendInv, PlaceInv
<1>2. FaultCount \in Nat /\ FaultCount' \in Nat /\ FaultCount' >= FaultCount
    BY <1>1 DEF FaultsOK, FaultCount
<1>3. SameSessions
    BY DEF vars, SameSessions, SameWork
<1>4. ASSUME NEW a \in AttemptId
      PROVE  EngineeringMove(a)
  <2>1. /\ attempt[a].rework \in Nat /\ attempt' = attempt
        /\ Bit(attempt[a].engineeringRetried) \in Nat
    BY <1>1 DEF TypeOK, AttemptRow, vars, Bit
  <2>2. EngineeringBudget(a)' > EngineeringBudget(a)
    BY <1>2, <2>1 DEF EngineeringBudget
  <2> QED BY <1>3, <2>2, SpendFixed DEF EngineeringMove
<1>5. ASSUME NEW k \in CandidateId
      PROVE  QualityMove(k)
  <2>1. /\ attempt' = attempt /\ candidate' = candidate
        /\ Bit(attempt[candidate[k].attempt].qualityRetried) \in Nat
    BY DEF vars, Bit
  <2>2. QualityBudget(k)' > QualityBudget(k)
    BY <1>2, <2>1 DEF QualityBudget
  <2> QED BY <1>3, <2>2, SpendFixed DEF QualityMove
<1>6. EngineeringPaid'
    BY <1>1, <1>2, <1>3, <1>4, SpendFixed, EngineeringPaidKept
<1>7. QualityPaid'
    BY <1>1, <1>2, <1>3, <1>5, SpendFixed, QualityPaidKept
<1> QED BY <1>6, <1>7 DEF OneStep, SpendInv

-----------------------------------------------------------------------------
(* Steps that leave the driver where it is, and returns to the next poll   *)

\* The step writes no attempt but w, which somebody works on or which it
\* releases, and opens none that rests.
Writes(w) ==
    /\ \A b \in AttemptId :
         b # w => attempt'[b] = attempt[b] /\ (HasCandidate(b)' => HasCandidate(b))
    /\ w \in AttemptId =>
         /\ attempt[w].stage # "Absent"
         /\ w = driver.attempt \/ HasCandidate(w) \/ attempt'[w].released
         /\ attempt'[w].stage \in OpenStage =>
              attempt[w].stage \in OpenStage \/ ~attempt[w].released \/ Reopened(w)

\* Such a step keeps the successors of released attempts quiet.
LEMMA QuietKept ==
    ASSUME OneStep, NEW w, Writes(w),
           driver'.attempt \in {0, driver.attempt},
           driver'.pc = "retryQuality" /\ driver'.recovering => UNCHANGED driver
    PROVE  QuietSuccessor'
<1>1. TypeOK /\ RowLinks /\ InFlightOwnership /\ QuietSuccessor /\ [Next]_vars
    BY DEF OneStep, ControlFacts, ControlInv, SpendInv
<1>2. \A a \in AttemptId : attempt[a].stage = "Absent" => attempt'[a].stage = "Absent"
    BY DEF Writes
<1>3. \A a \in AttemptId :
        Reopened(a)' => Reopened(a) \/ (attempt[a].stage # "Absent" /\ ~attempt[a].released)
  <2>1. SUFFICES ASSUME NEW a \in AttemptId, Reopened(a)', attempt[a].stage = "Absent" \/ attempt[a].released
                 PROVE  Reopened(a)
    OBVIOUS
  <2>2. attempt[a].released
    BY <1>1, <2>1 DEF Reopened, Writes, RowLinks, AttemptLinks
  <2>3. CASE attempt'[a].stage \in OpenStage
    BY <2>2, <2>3 DEF Writes, Reopened
  <2>4. CASE driver'.pc = "retryQuality" /\ driver'.recovering /\ driver'.attempt = a
    BY <2>2, <2>4 DEF Reopened
  <2> QED BY <2>1, <2>3, <2>4 DEF Reopened
<1>4. \A b \in AttemptId :
        (/\ attempt[b].stage # "Absent" /\ ~attempt'[b].released
         /\ b # driver.attempt /\ ~HasCandidate(b)) =>
           attempt'[b] = attempt[b] /\ ~HasCandidate(b)'
    BY DEF Writes
<1> QED BY <1>1, <1>2, <1>3, <1>4, QuietSuccessorKept

\* A step of somebody else does not disturb what the driver works on.
LEMMA FixedPaid ==
    ASSUME OneStep, SameSessions, UNCHANGED <<driver, faults>>, NEW w, Writes(w),
           EngineeringDone', QualityDone', QualityFails', ClaimAlone',
           \A k \in CandidateId :
             (/\ Reviewable(k) /\ Reviewable(k)' /\ AtQuality(k) /\ driver.pc \notin AtWork
              /\ ~attempt'[candidate[k].attempt].released) =>
               attempt'[candidate[k].attempt] = attempt[candidate[k].attempt]
    PROVE  SpendInv'
<1>1. /\ TypeOK /\ RowLinks /\ InFlightOwnership /\ QuietSuccessor /\ [Next]_vars
      /\ FaultsOK /\ DriverCandidate /\ DriverOK
    BY DEF OneStep, ControlFacts, ControlInv, SpendInv, PlaceInv
<1>2. QuietSuccessor'
    BY <1>1, QuietKept DEF DriverOK, Sound, Directed
<1>3. DriverCandidate'
  <2>1. SUFFICES ASSUME driver.office = "Quality",
                        driver.pc \in AtWork \cup {"launch", "retryQuality", "failAttempt", "attach"}
                 PROVE  candidate'[driver.candidate].attempt = driver.attempt
                          /\ driver.candidate \in CandidateId
    BY <1>1 DEF DriverCandidate
  <2>2. driver.attempt \in AttemptId
    BY <1>1, <2>1 DEF DriverOK, Sound, Directed, OnAttempt, Launching, AtWork
  <2>3. driver.candidate \in CandidateId /\ candidate[driver.candidate].attempt = driver.attempt
    BY <1>1, <2>1 DEF DriverCandidate
  <2>4. candidate[driver.candidate].state # "Absent"
    BY <1>1, <2>2, <2>3 DEF RowLinks, CandidateLinks, AttemptId
  <2> QED BY <1>1, <2>3, <2>4, CandidateAttemptKept
<1>4. PlaceInv'
    BY <1>1, <1>3 DEF PlaceInv, FaultsOK
<1>5. ASSUME NEW a \in AttemptId, a = driver.attempt, ~attempt[a].released,
             attempt'[a] = attempt[a], Fenced
      PROVE  Fenced'
  <2>1. Working(a)
    BY <1>5 DEF Fenced, AttemptFence, Working
  <2>2. ticket'[attempt[a].ticket] = ticket[attempt[a].ticket]
    BY <1>1, <1>5, <2>1, TicketKept
  <2> QED BY <1>5, <2>2 DEF Fenced, AttemptFence, TicketOf
<1>6. ASSUME NEW a \in AttemptId, attempt[a].stage = "ReworkEngineering", ~attempt[a].released,
             attempt'[a] = attempt[a], AtEngineering(a)
      PROVE  AtEngineering(a)'
    BY <1>5, <1>6 DEF AtEngineering
<1>7. ASSUME NEW k \in CandidateId, Reviewable(k), Reviewable(k)', AtQuality(k),
             ~attempt'[candidate[k].attempt].released
      PROVE  AtQuality(k)'
  <2> DEFINE a == candidate[k].attempt
  <2>1. CASE driver.pc \in AtWork
    BY <1>7, <2>1 DEF AtQuality
  <2>2. CASE driver.pc \in {"retryQuality", "failAttempt"} /\ ~driver.recovering /\ Fenced
    <3>1. a = driver.attempt /\ a \in AttemptId
      BY <1>1, <1>7, <2>2 DEF AtQuality, DriverCandidate, DriverOK, Sound, Directed, OnAttempt
    <3>2. attempt'[a] = attempt[a]
      BY <1>7, <2>2 DEF AtWork
    <3>3. Fenced'
      BY <1>5, <1>7, <2>2, <3>1, <3>2
    <3> QED BY <1>7, <2>2, <3>3 DEF AtQuality
  <2> QED BY <1>7, <2>1, <2>2 DEF AtQuality
<1> QED BY <1>2, <1>4, <1>6, <1>7, StepPaid
        DEF LaunchesEngineering, LaunchesQuality, EngineeringDue, QualityDue, StillDue

\* Between two launches, or about to launch Product, the driver works on no row.
Resting ==
    /\ driver.attempt = 0
    /\ \/ driver.pc \in {"poll", "down", "failCampaign"}
       \/ driver.pc = "launch" /\ driver.office = "Product"

\* At rest the driver has no place that says anything about the rows.
LEMMA RestPlace ==
    ASSUME Resting', FaultsOK'
    PROVE  PlaceInv'
BY DEF Resting, PlaceInv, DriverCandidate, EngineeringDone, QualityDone, QualityFails, ClaimAlone,
       AtWork

\* The driver comes to rest when it leaves no work unfinished.
LEMMA RestPaid ==
    ASSUME OneStep, SameSessions, UNCHANGED faults, Resting', NEW w, Writes(w),
           \A a \in AttemptId :
             (/\ attempt[a].stage = "ReworkEngineering" /\ ~attempt[a].released
              /\ attempt'[a] = attempt[a]) => ~AtEngineering(a),
           \A k \in CandidateId : StillDue(k) => ~AtQuality(k)
    PROVE  SpendInv'
<1>1. FaultsOK'
    BY DEF OneStep, ControlFacts, SpendInv, PlaceInv, FaultsOK
<1>2. PlaceInv'
    BY <1>1, RestPlace
<1>3. QuietSuccessor'
    BY QuietKept DEF Resting
<1> QED BY <1>2, <1>3, StepPaid DEF Resting, LaunchesEngineering, LaunchesQuality

\* A fault that ends the driver's work pays for it.
LEMMA FaultRestPaid ==
    ASSUME OneStep, UNCHANGED vars, FaultsOK', FaultCount' > FaultCount, Resting'
    PROVE  SpendInv'
<1>1. PlaceInv'
    BY RestPlace
<1>2. Writes(0)
    BY DEF Writes, vars, HasCandidate, AttemptId
<1>3. QuietSuccessor'
    BY <1>2, QuietKept DEF Resting
<1> QED BY <1>1, <1>3, FaultPaid

\* Steps beside the driver's work: campaigns, tickets, the clock, a cancellation.
LEMMA AsidePaid ==
    ASSUME OneStep, SameSessions, UNCHANGED <<driver, faults, attempt, candidate>>,
           rpc' \in {rpc, "Implementing"},
           driver.pc = "settle" =>
             session'[driver.session].state = session[driver.session].state
    PROVE  SpendInv'
<1>1. PlaceInv
    BY DEF OneStep, ControlFacts, SpendInv
<1>2. Writes(0)
    BY DEF Writes, HasCandidate, AttemptId
<1>3. EngineeringDone' /\ QualityDone' /\ QualityFails' /\ ClaimAlone'
    BY <1>1 DEF PlaceInv, EngineeringDone, QualityDone, QualityFails, ClaimAlone, Downstream
<1> QED BY <1>2, <1>3, FixedPaid

\* What the driver's session names, while the driver attends it.
LEMMA AttendedRows ==
    ASSUME ControlFacts, driver.pc = "attend", driver.office # "Product"
    PROVE  /\ driver.attempt \in AttemptId
           /\ driver.office = "Quality" =>
                driver.candidate \in CandidateId /\ candidate[driver.candidate].attempt = driver.attempt
BY DEF ControlFacts, ControlInv, DriverOK, Sound, Directed, Launching, SpendInv, PlaceInv,
       DriverCandidate, AtWork

\* submit_candidate
LEMMA SubmitPaid ==
    ASSUME OneStep, RpcSubmitCandidate
    PROVE  SpendInv'
<1> DEFINE a == driver.attempt
<1>1. PICK k \in CandidateId :
        SubmitCandidate(k, a, driver.session, attempt[a].rev, TicketOf(a).rev)
    BY DEF RpcSubmitCandidate
<1>2. driver.pc = "attend" /\ driver.office = "Engineering" /\ rpc' = "Validating"
        /\ UNCHANGED <<driver, faults>>
    BY DEF RpcSubmitCandidate, Attended, RpcReaches
<1>3. a \in AttemptId
    BY <1>2, AttendedRows DEF OneStep
<1>t. TypeOK
    BY DEF OneStep, ControlFacts, ControlInv
<1>4. /\ \A b \in AttemptId : b # a => attempt'[b] = attempt[b]
      /\ attempt'[a].stage \in HardStage
    BY <1>1, <1>3, <1>t DEF SubmitCandidate, TypeOK, AttemptRow, HardStage
<1>5. \A j \in CandidateId : candidate'[j].attempt \in {candidate[j].attempt, a}
    BY <1>1, <1>t DEF SubmitCandidate, TypeOK, NoCandidate
<1>6. attempt[a].stage \in EngineeringStage /\ UNCHANGED session
    BY <1>1 DEF SubmitCandidate
<1> HIDE DEF a
<1>7. Writes(a)
    BY <1>3, <1>4, <1>5, <1>6 DEF Writes, HasCandidate, EngineeringStage, OpenStage,
                                  DownstreamStage, a
<1>8. EngineeringDone' /\ QualityDone' /\ QualityFails' /\ ClaimAlone'
    BY <1>2, <1>4 DEF EngineeringDone, QualityDone, QualityFails, ClaimAlone, a
<1>9. SameSessions
    BY <1>6 DEF SameSessions, SameWork
<1> QED BY <1>2, <1>7, <1>8, <1>9, FixedPaid DEF AtWork

\* run_hard_validation
LEMMA HardValidationPaid ==
    ASSUME OneStep, RpcRecordHardValidation
    PROVE  SpendInv'
<1>1. PICK k \in CandidateId, result \in {"Passed", "NotPassed"} :
        RecordHardValidation(k, driver.session, candidate[k].rev,
                             attempt[driver.attempt].rev, result)
    BY DEF RpcRecordHardValidation
<1> DEFINE a == candidate[k].attempt
<1>2. driver.pc = "attend" /\ driver.office = "Engineering" /\ rpc = "Validating"
        /\ UNCHANGED <<driver, faults>>
    BY DEF RpcRecordHardValidation, Attended, RpcReaches
<1>t. TypeOK /\ RowLinks /\ EngineeringDone
    BY DEF OneStep, ControlFacts, ControlInv, SpendInv, PlaceInv
<1>3. a \in AttemptId /\ attempt[a].stage \in HardStage /\ UNCHANGED session
    BY <1>1, <1>t DEF RecordHardValidation, RowLinks, CandidateLinks
<1>4. /\ \A b \in AttemptId : b # a => attempt'[b] = attempt[b]
      /\ attempt'[a].stage \in QualityStage \cup {"Failed"}
    BY <1>1, <1>3, <1>t DEF RecordHardValidation, TypeOK, AttemptRow, QualityStage
<1>5. \A j \in CandidateId : candidate'[j].attempt = candidate[j].attempt
    BY <1>1, <1>t DEF RecordHardValidation, TypeOK, CandidateRow
<1>6. HasCandidate(a)
    BY DEF HasCandidate
<1> HIDE DEF a
<1>7. Writes(a)
    BY <1>3, <1>4, <1>5, <1>6 DEF Writes, HasCandidate, OpenStage, DownstreamStage, HardStage
<1>8. EngineeringDone' /\ QualityDone' /\ QualityFails' /\ ClaimAlone'
  <2>1. attempt[driver.attempt].stage \in HardStage \cup QualityStage \cup {"Failed"}
    BY <1>2, <1>t DEF EngineeringDone
  <2>2. driver.attempt \in AttemptId
    BY <1>2, AttendedRows DEF OneStep
  <2>3. attempt'[driver.attempt].stage \in HardStage \cup QualityStage \cup {"Failed"}
    BY <1>4, <2>1, <2>2
  <2> QED BY <1>2, <2>3 DEF EngineeringDone, QualityDone, QualityFails, ClaimAlone
<1>9. SameSessions
    BY <1>3 DEF SameSessions, SameWork
<1> QED BY <1>2, <1>7, <1>8, <1>9, FixedPaid DEF AtWork

\* run_quality_full_suite and submit_quality_review
LEMMA ReviewPaid ==
    ASSUME OneStep, RpcRunFullSuite \/ RpcSubmitReview
    PROVE  SpendInv'
<1> DEFINE a == driver.attempt
           k == driver.candidate
<1>2. driver.pc = "attend" /\ driver.office = "Quality" /\ UNCHANGED <<driver, faults>>
    BY DEF RpcRunFullSuite, RpcSubmitReview, Attended, RpcReaches
<1>3. a \in AttemptId /\ k \in CandidateId /\ candidate[k].attempt = a
    BY <1>2, AttendedRows DEF OneStep
<1>t. TypeOK /\ RowLinks
    BY DEF OneStep, ControlFacts, ControlInv
<1>4. /\ \A b \in AttemptId : b # a => attempt'[b] = attempt[b]
      /\ attempt[a].stage \in QualityStage \cup {"AwaitingArchitect"}
      /\ \A j \in CandidateId : candidate'[j].attempt = candidate[j].attempt
      /\ ~(attempt'[a].stage = "Failed" /\ candidate'[k].state = "Validated")
      /\ UNCHANGED session
      /\ rpc' = "Reviewed" => candidate'[k].review # "None" /\ attempt'[a].stage = "AwaitingArchitect"
  <2>1. CASE RpcRunFullSuite
    <3>1. PICK result \in {"Passed", "NotPassed"} :
            RecordQualityValidation(k, driver.session, candidate[k].rev, attempt[a].rev, result)
      BY <2>1 DEF RpcRunFullSuite
    <3>2. rpc' = "SuiteDone"
      BY <2>1 DEF RpcRunFullSuite, RpcReaches
    <3> HIDE DEF a, k
    <3> QED BY <1>3, <1>t, <3>1, <3>2 DEF RecordQualityValidation, TypeOK, AttemptRow, CandidateRow
  <2>2. CASE RpcSubmitReview
    <3>1. PICK verdict \in {"Accept", "Reject"} :
            SubmitQualityReview(k, driver.session, candidate[k].rev, attempt[a].rev, verdict)
      BY <2>2 DEF RpcSubmitReview
    <3> HIDE DEF a, k
    <3> QED BY <1>3, <1>t, <3>1 DEF SubmitQualityReview, TypeOK, AttemptRow, CandidateRow
  <2> QED BY <2>1, <2>2
<1>7. Writes(a)
    BY <1>3, <1>4 DEF Writes, HasCandidate, OpenStage, DownstreamStage, QualityStage
<1>8. EngineeringDone' /\ QualityDone' /\ QualityFails' /\ ClaimAlone'
    BY <1>2, <1>4 DEF EngineeringDone, QualityDone, QualityFails, ClaimAlone
<1>9. SameSessions
    BY <1>4 DEF SameSessions, SameWork
<1> QED BY <1>2, <1>7, <1>8, <1>9, FixedPaid DEF AtWork

\* dispatch_release: a failed attempt has no work that could be disturbed.
LEMMA ReleasePaid ==
    ASSUME OneStep, OperatorReleases, UNCHANGED <<memory, faults>>
    PROVE  SpendInv'
<1>1. PICK a \in AttemptId, outcome \in Requalification :
        ReleaseTicketAttempt(a, attempt[a].rev, TicketOf(a).rev, outcome)
    BY DEF OperatorReleases
<1>2. UNCHANGED <<driver, rpc, faults, candidate, session>>
    BY <1>1 DEF memory, ReleaseTicketAttempt
<1>t. TypeOK /\ PlaceInv
    BY DEF OneStep, ControlFacts, ControlInv, SpendInv
<1>3. /\ \A b \in AttemptId : b # a => attempt'[b] = attempt[b]
      /\ attempt[a].stage = "Failed" /\ attempt'[a].stage = "Failed" /\ attempt'[a].released
    BY <1>1, <1>t DEF ReleaseTicketAttempt, TypeOK, AttemptRow
<1>4. Writes(a)
    BY <1>2, <1>3 DEF Writes, HasCandidate, OpenStage, DownstreamStage, HardStage, QualityStage
<1>5. \A b \in AttemptId : attempt'[b].stage = attempt[b].stage
    BY <1>3
<1>d. driver.pc \in AtWork \cup {"launch", "retryQuality"} =>
        driver.attempt \in AttemptId \/ driver.office = "Product"
    BY DEF OneStep, ControlFacts, ControlInv, DriverOK, Sound, Directed, OnAttempt, Launching, AtWork
<1>6. EngineeringDone' /\ QualityDone' /\ QualityFails' /\ ClaimAlone'
    BY <1>2, <1>5, <1>d, <1>t DEF PlaceInv, EngineeringDone, QualityDone, QualityFails, ClaimAlone,
                                  Downstream, AtWork
<1>7. ASSUME NEW k \in CandidateId, Reviewable(k)
      PROVE  candidate[k].attempt # a
    BY <1>3, <1>7 DEF Reviewable, QualityStage
<1>8. \A k \in CandidateId :
        ~attempt'[candidate[k].attempt].released /\ Reviewable(k) =>
          attempt'[candidate[k].attempt] = attempt[candidate[k].attempt]
  <2>1. \A k \in CandidateId : Reviewable(k) => candidate[k].attempt \in AttemptId
    BY DEF OneStep, ControlFacts, RowLinks, CandidateLinks, Reviewable
  <2> QED BY <1>3, <1>7, <2>1
<1>9. SameSessions
    BY <1>2 DEF SameSessions, SameWork
<1> QED BY <1>2, <1>4, <1>6, <1>8, <1>9, FixedPaid

\* decide_candidate: a candidate that is decided has its review.
LEMMA DecidePaid ==
    ASSUME OneStep, OperatorDecides
    PROVE  SpendInv'
<1>1. PICK k \in CandidateId, decision \in Decision, override \in BOOLEAN :
        DecideCandidate(k, decision, override, candidate[k].rev,
                        attempt[candidate[k].attempt].rev, TicketOf(candidate[k].attempt).rev)
    BY DEF OperatorDecides
<1> DEFINE a == candidate[k].attempt
<1>2. UNCHANGED <<driver, rpc, faults, session>>
  <2>1. UNCHANGED session
    BY <1>1, Zenon DEF DecideCandidate
  <2> QED BY <2>1 DEF OperatorDecides, memory
<1>t. TypeOK /\ PlaceInv /\ RowLinks /\ StageMatchesHead
    BY DEF OneStep, ControlFacts, ControlInv, SpendInv
<1>3. /\ a \in AttemptId /\ candidate[k].state = "Validated" /\ candidate[k].review # "None"
      /\ attempt[a].stage = "AwaitingArchitect"
    BY <1>1, <1>t DEF DecideCandidate, DecisionAdmitted, RowLinks, CandidateLinks
<1>4. /\ \A b \in AttemptId : b # a => attempt'[b] = attempt[b]
      /\ attempt'[a].stage \in {"AwaitingArchitect", "ReworkEngineering", "Failed"}
  <2>1. \/ attempt' = [attempt EXCEPT ![a].rev = @ + 1]
        \/ attempt' = [attempt EXCEPT ![a].stage = "ReworkEngineering",
                                      ![a].rework = @ + 1, ![a].rev = @ + 1]
        \/ attempt' = [attempt EXCEPT ![a].stage = "Failed", ![a].rev = @ + 1]
    BY <1>1 DEF DecideCandidate
  <2> HIDE DEF a
  <2> QED BY <1>3, <1>t, <2>1 DEF TypeOK, AttemptRow
<1>5. /\ \A j \in CandidateId : j # k => candidate'[j] = candidate[j]
      /\ candidate'[k].attempt = a /\ candidate'[k].review = candidate[k].review
      /\ candidate'[k].state # "Validated"
    BY <1>1, <1>t DEF DecideCandidate, TypeOK, CandidateRow
<1>6. ASSUME NEW j \in CandidateId, candidate[j].attempt = a, j # k
      PROVE  candidate[j].state = "Rejected"
    BY <1>3, <1>6, <1>t, OneLive
<1>7. HasCandidate(a)
    BY DEF HasCandidate
<1> HIDE DEF a
<1>8. Writes(a)
    BY <1>3, <1>4, <1>5, <1>7 DEF Writes, HasCandidate, OpenStage, DownstreamStage, a
<1>d. /\ driver.pc \in AtWork \cup {"launch", "retryQuality"} =>
           driver.attempt \in AttemptId \/ driver.office = "Product"
      /\ driver.pc \in AtWork \cup {"launch", "retryQuality"} /\ driver.office = "Quality" =>
           driver.candidate \in CandidateId /\ candidate[driver.candidate].attempt = driver.attempt
    BY <1>t DEF OneStep, ControlFacts, ControlInv, DriverOK, Sound, Directed, OnAttempt, Launching,
                AtWork, PlaceInv, DriverCandidate
<1>9. EngineeringDone'
    BY <1>2, <1>3, <1>4, <1>d, <1>t DEF PlaceInv, EngineeringDone, HardStage, QualityStage, AtWork
<1>10. QualityDone'
  <2>1. ASSUME NEW j \in CandidateId
        PROVE  candidate'[j].review = candidate[j].review
    BY <1>5
  <2> QED BY <1>2, <1>4, <1>d, <1>t, <2>1 DEF PlaceInv, QualityDone, AtWork
<1>11. QualityFails'
    BY <1>2, <1>4, <1>5, <1>6, <1>d, <1>t DEF PlaceInv, QualityFails
<1>12. ClaimAlone'
    BY <1>2, <1>3, <1>t DEF PlaceInv, ClaimAlone, Downstream, DownstreamStage
<1>13. ASSUME NEW j \in CandidateId, Reviewable(j)
       PROVE  attempt'[candidate[j].attempt] = attempt[candidate[j].attempt]
  <2>1. candidate[j].attempt \in AttemptId /\ candidate[j].state = "Validated"
    BY <1>13, <1>t DEF RowLinks, CandidateLinks, Reviewable
  <2>2. candidate[j].attempt # a
    BY <1>3, <1>6, <1>13 DEF Reviewable, QualityStage, a
  <2> QED BY <1>4, <2>1, <2>2
<1>14. SameSessions
    BY <1>2 DEF SameSessions, SameWork
<1> QED BY <1>2, <1>8, <1>9, <1>10, <1>11, <1>12, <1>13, <1>14, FixedPaid

-----------------------------------------------------------------------------
(* Steps that move the driver and write no attempt and no candidate        *)

\* The fields of a driver about to launch an assignment.
LEMMA LaunchFields ==
    ASSUME NEW c, NEW rev, NEW office, NEW a, NEW k
    PROVE  LET d == LaunchOf(c, rev, office, a, k) IN
           d.pc = "launch" /\ d.office = office /\ d.attempt = a /\ d.candidate = k
BY DEF LaunchOf, Polling

\* The positions at rest.
LEMMA RestPositions ==
    ASSUME NEW c, NEW rev,
           driver' \in {Polling, Down, Task("failCampaign", c, "Product", 0, 0),
                        LaunchOf(c, rev, "Product", 0, 0)}
    PROVE  Resting'
<1>1. CASE driver' \in {Polling, Down}
    BY <1>1 DEF Polling, Down, Resting
<1>2. CASE driver' = Task("failCampaign", c, "Product", 0, 0)
    BY <1>2, TaskFields DEF Resting
<1>3. CASE driver' = LaunchOf(c, rev, "Product", 0, 0)
    BY <1>3, LaunchFields DEF Resting
<1> QED BY <1>1, <1>2, <1>3

\* A step that writes no row at all.
LEMMA NoWrite == UNCHANGED vars => SameSessions /\ Writes(0)
BY DEF vars, SameSessions, SameWork, Writes, HasCandidate, AttemptId

\* Revisions read now are current.
LEMMA FencesCurrent ==
    ASSUME NEW c, NEW a \in AttemptId, NEW k, UNCHANGED vars, Working(a),
           driver'.attempt = a, driver'.fence = Fences(c, a, k)
    PROVE  Fenced'
<1>1. a # 0
    BY DEF AttemptId
<1>2. driver'.fence.attempt = attempt[a].rev /\ driver'.fence.ticket = TicketOf(a).rev
    BY <1>1 DEF Fences
<1> QED BY <1>2 DEF vars, Working, Fenced, AttemptFence, TicketOf

\* An attempt that is worked on and a candidate that awaits Quality have their
\* ticket in flight.
LEMMA WorkIsFenced ==
    ASSUME ControlFacts
    PROVE  /\ \A a \in AttemptId :
                attempt[a].stage = "ReworkEngineering" /\ ~attempt[a].released => Working(a)
           /\ \A k \in CandidateId :
                Reviewable(k) /\ ~attempt[candidate[k].attempt].released =>
                  candidate[k].attempt \in AttemptId /\ Working(candidate[k].attempt)
<1>1. WorkInFlight /\ RowLinks
    BY DEF ControlFacts, SpendInv
<1>2. ASSUME NEW a \in AttemptId, attempt[a].stage \in DownstreamStage, ~attempt[a].released
      PROVE  Working(a)
  <2>1. "Absent" \notin DownstreamStage
    BY DEF DownstreamStage, HardStage, QualityStage
  <2> QED BY <1>1, <1>2, <2>1 DEF WorkInFlight, Working
<1>3. ASSUME NEW k \in CandidateId, Reviewable(k)
      PROVE  candidate[k].attempt \in AttemptId
    BY <1>1, <1>3 DEF Reviewable, RowLinks, CandidateLinks
<1> QED BY <1>2, <1>3 DEF Reviewable, DownstreamStage

\* The driver's position after ToFailAttempt.
LEMMA ToFailPlace ==
    ASSUME OneStep, UNCHANGED vars, FaultsOK',
           driver.pc \in AtWork \cup {"attach", "retryQuality"},
           driver' = ToFailAttempt
    PROVE  /\ driver'.pc = "failAttempt" /\ driver'.office = driver.office
           /\ driver'.attempt = driver.attempt /\ driver'.candidate = driver.candidate
           /\ driver'.fence = Fences(driver.campaign, driver.attempt, driver.candidate)
           /\ ~driver'.recovering
           /\ PlaceInv' /\ QuietSuccessor'
<1>1. /\ driver'.pc = "failAttempt" /\ driver'.office = driver.office
      /\ driver'.attempt = driver.attempt /\ driver'.candidate = driver.candidate
      /\ driver'.fence = Fences(driver.campaign, driver.attempt, driver.candidate)
      /\ ~driver'.recovering
    BY TaskFields, TaskFence DEF ToFailAttempt
<1>2. DriverCandidate
    BY DEF OneStep, ControlFacts, SpendInv, PlaceInv
<1>3. UNCHANGED candidate
    BY DEF vars
<1>4. PlaceInv'
    BY <1>1, <1>2, <1>3 DEF PlaceInv, DriverCandidate, EngineeringDone, QualityDone, QualityFails,
                           ClaimAlone, AtWork
<1>5. QuietSuccessor'
    BY <1>1, NoWrite, QuietKept
<1> QED BY <1>1, <1>4, <1>5

\* A failed launch, or a refused retry, goes on to fail the attempt with the
\* revisions read then: the driver still holds the work.
LEMMA ToFailPaid ==
    ASSUME OneStep, UNCHANGED vars, UNCHANGED faults,
           driver.pc \in AtWork \cup {"attach", "retryQuality"},
           driver' = ToFailAttempt
    PROVE  SpendInv'
<1>1. FaultsOK' /\ DriverCandidate /\ ControlFacts
    BY DEF OneStep, ControlFacts, SpendInv, PlaceInv, FaultsOK
<1>2. /\ driver'.pc = "failAttempt" /\ driver'.office = driver.office
      /\ driver'.attempt = driver.attempt /\ driver'.candidate = driver.candidate
      /\ driver'.fence = Fences(driver.campaign, driver.attempt, driver.candidate)
      /\ ~driver'.recovering
      /\ PlaceInv' /\ QuietSuccessor'
    BY <1>1, ToFailPlace
<1>3. ASSUME NEW a \in AttemptId, attempt[a].stage = "ReworkEngineering", ~attempt[a].released,
             AtEngineering(a)
      PROVE  AtEngineering(a)'
  <2>1. Working(a) /\ a = driver.attempt
    BY <1>1, <1>3, WorkIsFenced DEF AtEngineering
  <2>2. Fenced'
    BY <1>2, <2>1, FencesCurrent
  <2> QED BY <1>2, <1>3, <2>2 DEF AtEngineering
<1>4. ASSUME NEW k \in CandidateId, Reviewable(k), AtQuality(k),
             ~attempt[candidate[k].attempt].released
      PROVE  AtQuality(k)'
  <2> DEFINE a == candidate[k].attempt
  <2>1. Working(a) /\ a \in AttemptId
    BY <1>1, <1>4, WorkIsFenced
  <2>2. a = driver.attempt
    BY <1>1, <1>4 DEF AtQuality, DriverCandidate
  <2> HIDE DEF a
  <2>3. Fenced'
    BY <1>2, <2>1, <2>2, FencesCurrent
  <2> QED BY <1>2, <1>4, <2>3 DEF AtQuality
<1>5. ~LaunchesEngineering(driver.attempt)' /\ driver'.pc # "launch"
    BY <1>2 DEF LaunchesEngineering
<1>6. attempt' = attempt
    BY DEF vars
<1> QED BY <1>2, <1>3, <1>4, <1>5, <1>6, NoWrite, StepPaid
        DEF LaunchesEngineering, LaunchesQuality, StillDue

\* A failed Quality launch goes on to retry with the revisions read then.
LEMMA ToRetryPaid ==
    ASSUME OneStep, UNCHANGED vars, UNCHANGED faults,
           driver.pc \in AtWork, driver.office = "Quality",
           driver' = Task("retryQuality", driver.campaign, "Quality",
                          driver.attempt, driver.candidate)
    PROVE  SpendInv'
<1>1. FaultsOK' /\ DriverCandidate /\ QualityFails /\ ControlFacts
    BY DEF OneStep, ControlFacts, SpendInv, PlaceInv, FaultsOK
<1>2. /\ driver'.pc = "retryQuality" /\ driver'.office = "Quality"
      /\ driver'.attempt = driver.attempt /\ driver'.candidate = driver.candidate
      /\ driver'.fence = Fences(driver.campaign, driver.attempt, driver.candidate)
      /\ ~driver'.recovering
    BY TaskFields, TaskFence
<1>3. attempt' = attempt /\ candidate' = candidate
    BY DEF vars
<1>4. PlaceInv'
    BY <1>1, <1>2, <1>3 DEF PlaceInv, DriverCandidate, EngineeringDone, QualityDone, QualityFails,
                           ClaimAlone, AtWork
<1>5. QuietSuccessor'
    BY <1>2, NoWrite, QuietKept
<1>6. ASSUME NEW k \in CandidateId, Reviewable(k), AtQuality(k),
             ~attempt[candidate[k].attempt].released
      PROVE  AtQuality(k)'
  <2> DEFINE a == candidate[k].attempt
  <2>1. Working(a) /\ a \in AttemptId
    BY <1>1, <1>6, WorkIsFenced
  <2>2. a = driver.attempt
    BY <1>1, <1>6 DEF AtQuality, DriverCandidate
  <2> HIDE DEF a
  <2>3. Fenced'
    BY <1>2, <2>1, <2>2, FencesCurrent
  <2> QED BY <1>2, <1>6, <2>3 DEF AtQuality
<1> QED BY <1>2, <1>3, <1>4, <1>5, <1>6, NoWrite, StepPaid
        DEF LaunchesEngineering, LaunchesQuality, AtEngineering, StillDue

\* The launch of one assignment goes on, with the same work.
LEMMA LaunchMovePaid ==
    ASSUME OneStep, SameSessions, UNCHANGED <<attempt, candidate, faults>>,
           driver.pc \in Launching, driver'.pc \in AtWork,
           driver'.office = driver.office, driver'.attempt = driver.attempt,
           driver'.candidate = driver.candidate,
           EngineeringDone', QualityDone'
    PROVE  SpendInv'
<1>1. FaultsOK' /\ DriverCandidate /\ QualityFails
    BY DEF OneStep, ControlFacts, SpendInv, PlaceInv, FaultsOK
<1>2. PlaceInv'
    BY <1>1 DEF PlaceInv, DriverCandidate, QualityFails, ClaimAlone, AtWork, Launching
<1>3. Writes(0)
    BY DEF Writes, HasCandidate, AttemptId
<1>4. QuietSuccessor'
    BY <1>3, QuietKept DEF AtWork
<1>5. ASSUME NEW a \in AttemptId, AtEngineering(a)
      PROVE  AtEngineering(a)'
    BY <1>5 DEF AtEngineering
<1>6. ASSUME NEW k \in CandidateId, AtQuality(k)
      PROVE  AtQuality(k)'
    BY <1>6 DEF AtQuality
<1> QED BY <1>2, <1>4, <1>5, <1>6, StepPaid DEF LaunchesEngineering, LaunchesQuality, AtWork

\* A spawn that fails, and the registered session.
LEMMA LaunchStepPaid ==
    ASSUME OneStep, LaunchFails \/ LaunchSession
    PROVE  SpendInv'
<1>f. DOMAIN driver = DriverFields
    BY DEF OneStep, ControlFacts, ControlInv, DriverOK, Sound
<1>1. CASE LaunchFails
  <2>1. /\ driver' = [driver EXCEPT !.pc = "launchFailed"] /\ UNCHANGED vars /\ UNCHANGED faults
        /\ driver.pc \in {"launch", "start"}
    BY <1>1 DEF LaunchFails, DriverGoes
  <2>2. /\ driver'.pc = "launchFailed"
        /\ driver'.office = driver.office /\ driver'.attempt = driver.attempt
        /\ driver'.candidate = driver.candidate
    BY <1>f, <2>1 DEF DriverFields
  <2>3. EngineeringDone' /\ QualityDone'
    BY <2>2 DEF EngineeringDone, QualityDone
  <2> QED BY <2>1, <2>2, <2>3, NoWrite, LaunchMovePaid DEF vars, AtWork, Launching
<1>2. CASE LaunchSession
  <2>1. /\ driver' = [driver EXCEPT !.pc = "attend"] /\ UNCHANGED <<attempt, candidate, faults>>
        /\ driver.pc = "start" /\ rpc' = "Started" /\ StartSession(driver.session)
    BY <1>2 DEF LaunchSession, StartSession, NoRpc
  <2>2. /\ driver'.pc = "attend"
        /\ driver'.office = driver.office /\ driver'.attempt = driver.attempt
        /\ driver'.candidate = driver.candidate
    BY <1>f, <2>1 DEF DriverFields
  <2>3. EngineeringDone' /\ QualityDone'
    BY <2>1, <2>2 DEF EngineeringDone, QualityDone
  <2>4. SameSessions
    <3>1. session \in [SessionId -> SessionRow]
      BY DEF OneStep, ControlFacts, ControlInv, TypeOK
    <3> QED BY <2>1, <3>1 DEF StartSession, SessionRow, SameSessions, SameWork
  <2> QED BY <2>1, <2>2, <2>3, <2>4, LaunchMovePaid DEF AtWork, Launching
<1> QED BY <1>1, <1>2

\* terminal_session changes the state of one session.
LEMMA TerminalSame ==
    ASSUME TypeOK, NEW s \in SessionId, NEW stop, NEW cost, TerminalSession(s, stop, cost)
    PROVE  /\ SameSessions /\ UNCHANGED <<attempt, candidate>>
           /\ session'[s].state = SessionStateOf(stop)
           /\ \A r \in SessionId : r # s => session'[r] = session[r]
<1>1. /\ session' = [session EXCEPT ![s].state = SessionStateOf(stop)]
      /\ UNCHANGED <<attempt, candidate>>
    BY Zenon DEF TerminalSession
<1> QED BY <1>1 DEF TypeOK, SessionRow, SameSessions, SameWork

\* The session ends; it succeeds only when its work was submitted.
LEMMA SessionEndPaid ==
    ASSUME OneStep, EndStep
    PROVE  SpendInv'
<1>1. PICK stop \in StopReason, cost \in SessionCost : SessionEnds(stop, cost)
    BY DEF EndStep
<1>2. /\ driver.pc = "attend"
      /\ stop = "Completed" => MayComplete
      /\ TerminalSession(driver.session, stop, cost)
      /\ driver' = [driver EXCEPT !.pc = "settle"]
      /\ UNCHANGED faults
    BY <1>1, Zenon DEF SessionEnds
<1>t. /\ TypeOK /\ DriverOK /\ PlaceInv
      /\ DOMAIN driver = DriverFields
    BY DEF OneStep, ControlFacts, ControlInv, DriverOK, Sound, SpendInv
<1>3. driver.session \in SessionId
    BY <1>2, <1>t DEF DriverOK, Sound, Directed, OnSession
<1>4. /\ SameSessions /\ UNCHANGED <<attempt, candidate>>
      /\ session'[driver.session].state = SessionStateOf(stop)
    BY <1>2, <1>3, <1>t, TerminalSame
<1>5. /\ driver'.pc = "settle"
      /\ driver'.office = driver.office /\ driver'.attempt = driver.attempt
      /\ driver'.candidate = driver.candidate /\ driver'.session = driver.session
    BY <1>2, <1>t DEF DriverFields
<1>6. session'[driver.session].state = "Succeeded" => MayComplete
    BY <1>2, <1>4 DEF SessionStateOf, StopReason
<1>7. EngineeringDone'
    BY <1>2, <1>4, <1>5, <1>6, <1>t DEF MayComplete, PlaceInv, EngineeringDone
<1>8. QualityDone'
    BY <1>2, <1>4, <1>5, <1>6, <1>t DEF MayComplete, PlaceInv, QualityDone
<1> QED BY <1>2, <1>4, <1>5, <1>7, <1>8, LaunchMovePaid DEF AtWork, Launching

-----------------------------------------------------------------------------
(* The assignment that spends, and what launch does with its session       *)

\* create_assignment spends the session that was due for its work.
LEMMA AssignmentPaid ==
    ASSUME OneStep, LaunchAssignment
    PROVE  SpendInv'
<1>t. /\ TypeOK /\ TypeOK' /\ RowLinks /\ TargetLinks /\ TargetLinks' /\ [Next]_vars
      /\ FaultsOK /\ DriverCandidate /\ QualityFails /\ EngineeringPaid /\ QualityPaid
      /\ DOMAIN driver = DriverFields
    BY DEF OneStep, ControlFacts, ControlInv, HistoryInv, SpendInv, PlaceInv, DriverOK, Sound
<1>1. PICK s \in SessionId :
        /\ CreateAssignment(s, driver.campaign, driver.fence.campaign, driver.office,
                            driver.attempt, driver.candidate)
        /\ driver' = [driver EXCEPT !.pc = "start", !.session = s, !.fence = NoFence]
        /\ driver.pc = "launch" /\ UNCHANGED faults
    BY DEF LaunchAssignment, DriverGoes
<1>2. /\ driver'.pc = "start"
      /\ driver'.office = driver.office /\ driver'.attempt = driver.attempt
      /\ driver'.candidate = driver.candidate
    BY <1>1, <1>t DEF DriverFields
<1>3. /\ session' = [session EXCEPT ![s] =
                       [state |-> "Prepared", office |-> driver.office,
                        campaign |-> driver.campaign, attempt |-> driver.attempt,
                        candidate |-> driver.candidate]]
      /\ session[s].state = "Absent"
      /\ attempt' = attempt /\ candidate' = candidate
      /\ AssignmentTargetExists(driver.campaign, driver.office, driver.attempt, driver.candidate)
    BY <1>1 DEF CreateAssignment, FreshSession
<1>4. /\ session[s].attempt = 0 /\ session[s].candidate = 0
      /\ session'[s].office = driver.office /\ session'[s].attempt = driver.attempt
      /\ session'[s].candidate = driver.candidate
      /\ \A r \in SessionId : r # s => session'[r] = session[r]
    BY <1>3, <1>t DEF TargetLinks, TypeOK
<1>5. PlaceInv'
    BY <1>1, <1>2, <1>3, <1>t DEF PlaceInv, FaultsOK, DriverCandidate, EngineeringDone, QualityDone,
                                  QualityFails, ClaimAlone, AtWork
<1>6. QuietSuccessor'
  <2>1. Writes(0)
    BY <1>3 DEF Writes, HasCandidate, AttemptId
  <2> QED BY <1>2, <2>1, QuietKept
<1>7. FaultCount' >= FaultCount
    BY <1>1, <1>t DEF FaultsOK, FaultCount
<1>8. EngineeringPaid'
  <2>1. ASSUME NEW a \in AttemptId
        PROVE  EngineeringMove(a)
    <3>0. a # 0
      BY DEF AttemptId
    <3>1. CASE driver.office = "Engineering" /\ driver.attempt = a
      <4>1. EngineeringDue(a) /\ ~EngineeringDue(a)'
        BY <1>1, <1>2, <3>1
        DEF EngineeringDue, LaunchesEngineering, AtEngineering, AtWork
      <4>2. EngineeringSpend(a)' = EngineeringSpend(a) \cup {s}
        BY <1>4, <3>1 DEF EngineeringSpend
      <4> QED BY <4>1, <4>2 DEF EngineeringMove
    <3>2. CASE ~(driver.office = "Engineering" /\ driver.attempt = a)
      <4>1. EngineeringDue(a)' => EngineeringDue(a)
        BY <1>2, <1>3, <3>2 DEF EngineeringDue, LaunchesEngineering, AtEngineering
      <4>2. EngineeringSpend(a)' = EngineeringSpend(a)
        BY <1>4, <3>0, <3>2 DEF EngineeringSpend
      <4> QED BY <4>1, <4>2 DEF EngineeringMove
    <3> QED BY <3>1, <3>2
  <2> QED BY <1>3, <1>5, <1>7, <1>t, <2>1, EngineeringPaidKept DEF PlaceInv
<1>9. QualityPaid'
  <2>1. ASSUME NEW k \in CandidateId
        PROVE  /\ QualityMove(k)
               /\ candidate[k].state \in {"Absent", "Submitted"} =>
                    QualitySpend(k)' = QualitySpend(k)
    <3>0. k # 0
      BY DEF CandidateId
    <3>1. CASE driver.office = "Quality" /\ driver.candidate = k
      <4>1. QualityDue(k) /\ ~QualityDue(k)'
        BY <1>1, <1>2, <3>1 DEF QualityDue, LaunchesQuality, AtQuality, AtWork
      <4>2. QualitySpend(k)' = QualitySpend(k) \cup {s}
        BY <1>4, <3>1 DEF QualitySpend
      <4>3. candidate[k].state = "Validated"
        BY <1>3, <3>1 DEF AssignmentTargetExists
      <4> QED BY <4>1, <4>2, <4>3 DEF QualityMove
    <3>2. CASE ~(driver.office = "Quality" /\ driver.candidate = k)
      <4>1. QualityDue(k)' => QualityDue(k)
        BY <1>2, <1>3, <3>2 DEF QualityDue, LaunchesQuality, AtQuality, Reviewable
      <4>2. QualitySpend(k)' = QualitySpend(k)
        BY <1>4, <3>0, <3>2 DEF QualitySpend
      <4> QED BY <4>1, <4>2 DEF QualityMove
    <3> QED BY <3>1, <3>2
  <2> QED BY <1>5, <1>7, <1>t, <2>1, QualityPaidKept DEF PlaceInv
<1> QED BY <1>5, <1>6, <1>8, <1>9 DEF OneStep, SpendInv

\* Where a failed launch goes: Product back to rest, Engineering to the failure
\* of its attempt, Quality to its retry.
LEMMA FailedLaunchPaid ==
    ASSUME OneStep, UNCHANGED vars, UNCHANGED faults, driver.pc \in AtWork,
           driver' \in {TerminalizeFailedLaunch(TRUE), TerminalizeFailedLaunch(FALSE)}
    PROVE  SpendInv'
<1>1. CASE driver.office = "Product"
  <2>1. driver' \in {Polling, Task("failCampaign", driver.campaign, "Product", 0, 0)}
    BY <1>1 DEF TerminalizeFailedLaunch, RetryOrFailProduct
  <2>2. Resting'
    BY <2>1, RestPositions
  <2>3. (\A a \in AttemptId : ~AtEngineering(a)) /\ (\A k \in CandidateId : ~AtQuality(k))
    BY <1>1 DEF AtEngineering, AtQuality
  <2> QED BY <2>2, <2>3, NoWrite, RestPaid
<1>2. CASE driver.office = "Engineering"
  <2>1. driver' = ToFailAttempt
    BY <1>2 DEF TerminalizeFailedLaunch
  <2> QED BY <2>1, ToFailPaid
<1>3. CASE driver.office = "Quality"
  <2>1. driver' = Task("retryQuality", driver.campaign, "Quality",
                       driver.attempt, driver.candidate)
    BY <1>3 DEF TerminalizeFailedLaunch
  <2> QED BY <1>3, <2>1, ToRetryPaid
<1>4. driver.office \in Office
    BY DEF OneStep, ControlFacts, ControlInv, DriverOK, Sound, Directed
<1> QED BY <1>1, <1>2, <1>3, <1>4 DEF Office

\* launch reads the end of its session: a session that succeeded has moved its
\* work on.
LEMMA SettlePaid ==
    ASSUME OneStep, Settle \/ SettleFailedLaunch
    PROVE  SpendInv'
<1>1. CASE SettleFailedLaunch
  <2>1. /\ UNCHANGED vars /\ UNCHANGED faults /\ driver.pc = "launchFailed"
        /\ driver' = TerminalizeFailedLaunch(FALSE)
    BY <1>1 DEF SettleFailedLaunch, DriverGoes
  <2> QED BY <2>1, FailedLaunchPaid DEF AtWork
<1>2. CASE Settle /\ session[driver.session].state # "Succeeded"
  <2>1. /\ UNCHANGED vars /\ UNCHANGED faults /\ driver.pc = "settle"
        /\ driver' = TerminalizeFailedLaunch(TRUE)
    BY <1>2 DEF Settle, DriverGoes
  <2> QED BY <2>1, FailedLaunchPaid DEF AtWork
<1>3. CASE Settle /\ session[driver.session].state = "Succeeded"
  <2>1. /\ UNCHANGED vars /\ UNCHANGED faults /\ driver.pc = "settle"
        /\ driver' \in {Polling, Task("failCampaign", driver.campaign, "Product", 0, 0)}
    BY <1>3 DEF Settle, DriverGoes, RetryOrFailProduct
  <2>2. Resting'
    BY <2>1, RestPositions
  <2>3. EngineeringDone /\ QualityDone /\ DriverCandidate
    BY DEF OneStep, ControlFacts, SpendInv, PlaceInv
  <2>4. ASSUME NEW a \in AttemptId, attempt[a].stage = "ReworkEngineering"
        PROVE  ~AtEngineering(a)
    BY <1>3, <2>1, <2>3, <2>4 DEF AtEngineering, EngineeringDone, HardStage, QualityStage
  <2>5. ASSUME NEW k \in CandidateId, Reviewable(k)
        PROVE  ~AtQuality(k)
    <3> SUFFICES ASSUME AtQuality(k) PROVE FALSE
      OBVIOUS
    <3>1. driver.office = "Quality" /\ driver.candidate = k
      BY DEF AtQuality
    <3>2. candidate[k].attempt = driver.attempt
      BY <2>1, <2>3, <3>1 DEF DriverCandidate, AtWork
    <3>3. candidate[k].review # "None"
            /\ attempt[driver.attempt].stage \in {"AwaitingArchitect", "ReworkEngineering", "Failed"}
      BY <1>3, <2>1, <2>3, <3>1 DEF QualityDone
    <3> QED BY <2>5, <3>2, <3>3 DEF Reviewable, QualityStage
  <2> QED BY <2>1, <2>2, <2>4, <2>5, NoWrite, RestPaid DEF StillDue
<1> QED BY <1>1, <1>2, <1>3

\* A command that the authority refuses.  The failure of an attempt is refused
\* when the attempt has moved on.
LEMMA RefusedPaid ==
    ASSUME OneStep, DriverRefused
    PROVE  SpendInv'
<1>1. driver.pc \in CommandPc /\ driver' = AfterRefusal /\ UNCHANGED vars /\ UNCHANGED faults
    BY RefusalEffect DEF DriverGoes
<1>2. CASE driver' = ToFailAttempt /\ driver.pc \in {"attach", "retryQuality"}
    BY <1>1, <1>2, ToFailPaid
<1>3. CASE /\ driver' = Polling /\ driver.pc # "attach"
           /\ driver.pc = "retryQuality" => driver.recovering \/ ~Fenced
  <2>1. Resting'
    BY <1>3, RestPositions
  <2>2. ASSUME driver.pc = "failAttempt", Fenced
        PROVE  attempt[driver.attempt].stage \notin OpenStage
    BY <2>2, FailureRefused DEF Fenced, CanFail
  <2>3. DriverCandidate
    BY DEF OneStep, ControlFacts, SpendInv, PlaceInv
  <2>4. ASSUME NEW a \in AttemptId, attempt[a].stage = "ReworkEngineering"
        PROVE  ~AtEngineering(a)
    BY <1>1, <2>2, <2>4 DEF AtEngineering, AtWork, CommandPc, OpenStage, DownstreamStage
  <2>5. ASSUME NEW k \in CandidateId, Reviewable(k)
        PROVE  ~AtQuality(k)
    <3> SUFFICES ASSUME AtQuality(k) PROVE FALSE
      OBVIOUS
    <3>1. /\ driver.office = "Quality" /\ driver.candidate = k
          /\ driver.pc = "failAttempt" /\ Fenced
      BY <1>1, <1>3 DEF AtQuality, AtWork, CommandPc
    <3>2. candidate[k].attempt = driver.attempt
      BY <2>3, <3>1 DEF DriverCandidate
    <3> QED BY <2>2, <2>5, <3>1, <3>2 DEF Reviewable, QualityStage, OpenStage, DownstreamStage
  <2> QED BY <1>1, <2>1, <2>4, <2>5, NoWrite, RestPaid DEF StillDue
<1> QED BY <1>1, <1>2, <1>3 DEF AfterRefusal, Fenced

-----------------------------------------------------------------------------
(* Faults and the commands of the driver                                   *)

\* An error and a crash are counted.
LEMMA FaultCounts ==
    ASSUME FaultsOK,
           \/ faults' = [faults EXCEPT !.errors = @ + 1]
           \/ faults' = [faults EXCEPT !.crashes = @ + 1]
    PROVE  FaultsOK' /\ FaultCount' > FaultCount
BY DEF FaultsOK, FaultCount

\* A session that is left running, a command that failed, the death of the
\* daemon.
LEMMA FaultStepPaid ==
    ASSUME OneStep, FaultStep
    PROVE  SpendInv'
<1>t. /\ FaultsOK /\ PlaceInv /\ DOMAIN driver = DriverFields
    BY DEF OneStep, ControlFacts, ControlInv, SpendInv, PlaceInv, DriverOK, Sound
<1>f. FaultsOK' /\ FaultCount' > FaultCount /\ UNCHANGED vars
    BY <1>t, FaultCounts DEF FaultStep, LaunchAborts, DriverError, Crash
<1>1. CASE LaunchAborts
  <2>1. driver.pc = "attend" /\ driver' = [driver EXCEPT !.pc = "launchFailed"]
    BY <1>1 DEF LaunchAborts
  <2>2. /\ driver'.pc = "launchFailed"
        /\ driver'.office = driver.office /\ driver'.attempt = driver.attempt
        /\ driver'.candidate = driver.candidate
    BY <1>t, <2>1 DEF DriverFields
  <2>3. attempt' = attempt /\ candidate' = candidate
    BY <1>f DEF vars
  <2>4. PlaceInv'
    BY <1>f, <1>t, <2>1, <2>2, <2>3 DEF PlaceInv, DriverCandidate, EngineeringDone, QualityDone,
                                        QualityFails, ClaimAlone, AtWork
  <2>5. QuietSuccessor'
    BY <1>f, <2>2, NoWrite, QuietKept
  <2> QED BY <1>f, <2>4, <2>5, FaultPaid
<1>2. CASE driver.pc = "attach" /\ driver' = ToFailAttempt
  <2>1. PlaceInv' /\ QuietSuccessor'
    BY <1>2, <1>f, ToFailPlace
  <2> QED BY <1>f, <2>1, FaultPaid
<1>3. CASE driver' \in {Polling, Down}
  <2>1. Resting'
    BY <1>3, RestPositions
  <2> QED BY <1>f, <2>1, FaultRestPaid
<1> QED BY <1>1, <1>2, <1>3 DEF FaultStep, DriverError, Crash

\* What the driver knows when it issues a command.
LEMMA CommandRows ==
    ASSUME OneStep
    PROVE  /\ TypeOK /\ TypeOK' /\ RowLinks /\ ReleasedRests /\ FaultsOK /\ PlaceInv /\ [Next]_vars
           /\ driver.pc \in OnAttempt => driver.attempt \in AttemptId
           /\ driver.pc \in OnCandidate => driver.candidate \in CandidateId
BY DEF OneStep, ControlFacts, ControlInv, HistoryInv, SpendInv, PlaceInv, DriverOK, Sound, Directed

\* claim_then_launch: nothing is downstream, so no released attempt is open again.
LEMMA ClaimPaid ==
    ASSUME OneStep, Claim
    PROVE  SpendInv'
<1>t. /\ TypeOK /\ ReleasedRests /\ FaultsOK /\ PlaceInv
    BY CommandRows
<1>1. PICK a \in AttemptId, outcome \in Requalification :
        /\ ClaimSponsoredTicket(driver.ticket, a, driver.campaign, driver.fence.ticket,
                                driver.fence.campaign, outcome)
        /\ DriverGoes(IF outcome = "Reproduced"
                      THEN LaunchOf(driver.campaign, driver.fence.campaign, "Engineering", a, 0)
                      ELSE Polling)
    BY DEF Claim
<1>2. driver.pc = "claim" /\ UNCHANGED faults /\ UNCHANGED <<candidate, session>>
    BY <1>1 DEF Claim, DriverGoes, ClaimSponsoredTicket
<1>3. SameSessions
    BY <1>2 DEF SameSessions, SameWork
<1>4. (\A b \in AttemptId : ~AtEngineering(b)) /\ (\A k \in CandidateId : ~AtQuality(k))
    BY <1>2 DEF AtEngineering, AtQuality, AtWork
<1>5. CASE outcome = "Reproduced"
  <2>1. driver' = LaunchOf(driver.campaign, driver.fence.campaign, "Engineering", a, 0)
    BY <1>1, <1>5 DEF DriverGoes
  <2>2. /\ driver'.pc = "launch" /\ driver'.office = "Engineering" /\ driver'.attempt = a
    BY <2>1, LaunchFields
  <2>3. /\ attempt[a].stage = "Absent"
        /\ attempt' = [attempt EXCEPT ![a] = [NoAttempt EXCEPT !.stage = "Engineering",
                                                !.ticket = driver.ticket,
                                                !.campaign = driver.campaign]]
    BY <1>1, <1>5 DEF ClaimSponsoredTicket, FreshAttempt
  <2>4. ~attempt'[a].released /\ \A b \in AttemptId : b # a => attempt'[b] = attempt[b]
    BY <1>t, <2>3 DEF TypeOK, NoAttempt
  <2>5. PlaceInv'
    BY <1>2, <1>t, <2>2 DEF PlaceInv, FaultsOK, DriverCandidate, EngineeringDone, QualityDone,
                            QualityFails, ClaimAlone, AtWork
  <2>6. Downstream = {}
    BY <1>2, <1>t DEF PlaceInv, ClaimAlone
  <2>7. \A b \in AttemptId : ~Reopened(b)'
    BY <1>t, <2>2, <2>4, <2>6 DEF Reopened, ReleasedRests, Downstream, OpenStage
  <2>8. QuietSuccessor'
    BY <2>7 DEF QuietSuccessor
  <2> QED BY <1>2, <1>3, <1>4, <2>2, <2>3, <2>5, <2>8, StepPaid
          DEF LaunchesEngineering, LaunchesQuality
<1>6. CASE outcome # "Reproduced"
  <2>1. driver' = Polling /\ UNCHANGED attempt
    BY <1>1, <1>6 DEF DriverGoes, ClaimSponsoredTicket
  <2>2. Resting'
    BY <2>1, RestPositions
  <2>3. Writes(0)
    BY <1>2, <2>1 DEF Writes, HasCandidate, AttemptId
  <2> QED BY <1>2, <1>3, <1>4, <2>2, <2>3, RestPaid
<1> QED BY <1>5, <1>6

\* retry_engineering_attempt pays for the launch that follows it.
LEMMA RetryEngineeringPaid ==
    ASSUME OneStep, RetryEngineering
    PROVE  SpendInv'
<1>t. /\ TypeOK /\ TypeOK' /\ FaultsOK /\ PlaceInv /\ [Next]_vars
      /\ driver.pc \in OnAttempt => driver.attempt \in AttemptId
    BY CommandRows
<1>3. PICK a \in AttemptId : a = driver.attempt
    BY <1>t DEF RetryEngineering, OnAttempt
<1>1. /\ driver.pc = "retryEngineering" /\ UNCHANGED faults
      /\ RetryEngineeringAttempt(a, driver.fence.attempt, driver.fence.ticket)
      /\ driver' = LaunchOf(driver.campaign, driver.fence.campaign, "Engineering", a, 0)
    BY <1>3 DEF RetryEngineering, DriverGoes
<1>2. /\ driver'.pc = "launch" /\ driver'.office = "Engineering" /\ driver'.attempt = a
    BY <1>1, LaunchFields
<1>4. /\ attempt[a].stage = "Failed" /\ ~attempt[a].released /\ ~attempt[a].engineeringRetried
      /\ attempt'[a].engineeringRetried
      /\ \A b \in AttemptId : b # a => attempt'[b] = attempt[b]
      /\ UNCHANGED <<candidate, session>>
    BY <1>1, <1>3, <1>t DEF RetryEngineeringAttempt, TypeOK, AttemptRow
<1>5. Writes(a)
    BY <1>3, <1>4 DEF Writes, HasCandidate
<1>6. QuietSuccessor'
    BY <1>2, <1>3, <1>5, QuietKept
<1>7. PlaceInv'
    BY <1>1, <1>2, <1>t DEF PlaceInv, FaultsOK, DriverCandidate, EngineeringDone, QualityDone,
                            QualityFails, ClaimAlone, AtWork
<1>8. EngineeringBudget(a)' > EngineeringBudget(a)
  <2>1. BudgetGrows(attempt[a], attempt'[a])
    BY <1>3, <1>4, <1>t, BudgetsGrow
  <2> QED BY <1>1, <1>3, <1>4, <1>t, <2>1, EngineeringBudgetGrows
<1>9. (\A b \in AttemptId : ~AtEngineering(b)) /\ (\A k \in CandidateId : ~AtQuality(k))
    BY <1>1 DEF AtEngineering, AtQuality, AtWork
<1>10. SameSessions
    BY <1>4 DEF SameSessions, SameWork
<1> QED BY <1>1, <1>2, <1>6, <1>7, <1>8, <1>9, <1>10, StepPaid
        DEF LaunchesEngineering, LaunchesQuality

\* retry_quality_attempt pays for the launch that follows it, at once or when the
\* attempt is polled again.
LEMMA RetryQualityPaid ==
    ASSUME OneStep, RetryQuality
    PROVE  SpendInv'
<1>t. /\ TypeOK /\ TypeOK' /\ RowLinks /\ FaultsOK /\ PlaceInv /\ [Next]_vars
      /\ driver.pc \in OnAttempt => driver.attempt \in AttemptId
      /\ driver.pc \in OnCandidate => driver.candidate \in CandidateId
    BY CommandRows
<1>0. PICK a \in AttemptId, k \in CandidateId : a = driver.attempt /\ k = driver.candidate
    BY <1>t DEF RetryQuality, OnAttempt, OnCandidate
<1>1. /\ driver.pc = "retryQuality" /\ UNCHANGED faults
      /\ RetryQualityAttempt(a, k, driver.fence.attempt, driver.fence.ticket)
      /\ driver' = IF driver.recovering
                   THEN LaunchOf(driver.campaign, campaign[driver.campaign].rev, "Quality", a, k)
                   ELSE Polling
    BY <1>0 DEF RetryQuality, DriverGoes
<1>2. candidate[k].attempt = a
    BY <1>1 DEF RetryQualityAttempt
<1>3. driver.office = "Quality"
    BY <1>1, <1>t DEF PlaceInv, DriverCandidate
<1>4. /\ attempt[a].stage \in {"Quality", "Failed"} /\ candidate[k].state = "Validated"
      /\ ~attempt[a].qualityRetried
      /\ attempt'[a].stage = "ReworkQuality" /\ attempt'[a].qualityRetried
      /\ \A b \in AttemptId : b # a => attempt'[b] = attempt[b]
      /\ UNCHANGED <<candidate, session>>
    BY <1>1, <1>2, <1>t DEF RetryQualityAttempt, CanRetryQuality, TypeOK, AttemptRow
<1>5. attempt[a].stage = "Quality" \/ ~attempt[a].released \/ Reopened(a)
    BY <1>0, <1>1, <1>3, <1>4, <1>t DEF PlaceInv, QualityFails, Reopened
<1>6. Writes(a)
    BY <1>2, <1>4, <1>5 DEF Writes, HasCandidate, OpenStage, DownstreamStage, QualityStage
<1>7. SameSessions
    BY <1>4 DEF SameSessions, SameWork
<1>8. \A b \in AttemptId : ~AtEngineering(b)
    BY <1>3 DEF AtEngineering
<1>9. CASE driver.recovering
  <2>1. /\ driver'.pc = "launch" /\ driver'.office = "Quality" /\ driver'.attempt = a
        /\ driver'.candidate = k
    BY <1>1, <1>9, LaunchFields
  <2>2. QuietSuccessor'
    BY <1>0, <1>6, <2>1, QuietKept
  <2>3. PlaceInv'
    BY <1>1, <1>2, <1>4, <1>t, <2>1 DEF PlaceInv, FaultsOK, DriverCandidate, EngineeringDone,
                                  QualityDone, QualityFails, ClaimAlone, AtWork
  <2>4. QualityBudget(k)' > QualityBudget(k)
    BY <1>1, <1>2, <1>4, <1>t, QualityBudgetGrows
  <2>5. \A j \in CandidateId : ~AtQuality(j)
    BY <1>1, <1>9 DEF AtQuality, AtWork
  <2> QED BY <1>1, <1>7, <1>8, <2>1, <2>2, <2>3, <2>4, <2>5, StepPaid
          DEF LaunchesEngineering, LaunchesQuality
<1>10. CASE ~driver.recovering
  <2>1. Resting'
    BY <1>1, <1>10, RestPositions
  <2>2. \A j \in CandidateId : StillDue(j) => ~AtQuality(j)
    BY <1>0, <1>2, <1>4 DEF StillDue, AtQuality
  <2> QED BY <1>1, <1>6, <1>7, <1>8, <2>1, <2>2, RestPaid
<1> QED BY <1>9, <1>10

\* The commands after which the driver polls: what they leave unfinished was not
\* the driver's.
LEMMA CommandRestPaid ==
    ASSUME OneStep,
           FailAttempt \/ FailRunningCampaign \/ AttachCommit \/ Deliver \/ ResumeHardValidation
             \/ RestartServes
    PROVE  SpendInv'
<1>t. /\ TypeOK /\ RowLinks /\ DriverCandidate
      /\ driver.pc \in OnAttempt => driver.attempt \in AttemptId
      /\ driver.pc \in OnCandidate => driver.candidate \in CandidateId
    BY CommandRows DEF PlaceInv
<1>1. driver' = Polling /\ UNCHANGED faults
    BY DEF FailAttempt, FailRunningCampaign, AttachCommit, Deliver, ResumeHardValidation,
           RestartServes, DriverGoes
<1>2. Resting'
    BY <1>1, RestPositions
<1>3. ASSUME NEW w, Writes(w), UNCHANGED session, driver.pc \notin AtWork \cup {"failAttempt", "retryQuality"}
      PROVE  SpendInv'
  <2>1. SameSessions
    BY <1>3 DEF SameSessions, SameWork
  <2>2. (\A b \in AttemptId : ~AtEngineering(b)) /\ (\A k \in CandidateId : ~AtQuality(k))
    BY <1>3 DEF AtEngineering, AtQuality
  <2> QED BY <1>1, <1>2, <1>3, <2>1, <2>2, RestPaid
<1>4. CASE FailAttempt
  <2> DEFINE a == driver.attempt
  <2>1. driver.pc = "failAttempt" /\ FailTicketAttempt(a, driver.fence.attempt, driver.fence.ticket)
    BY <1>4 DEF FailAttempt
  <2>2. a \in AttemptId
    BY <1>t, <2>1 DEF OnAttempt
  <2>3. /\ attempt[a].stage \in OpenStage /\ attempt'[a].stage = "Failed"
        /\ \A b \in AttemptId : b # a => attempt'[b] = attempt[b]
        /\ UNCHANGED <<candidate, session>>
    BY <1>t, <2>1, <2>2 DEF FailTicketAttempt, CanFail, TypeOK, AttemptRow
  <2>4. Writes(a)
    BY <2>2, <2>3 DEF Writes, HasCandidate, OpenStage, DownstreamStage, HardStage, QualityStage
  <2>5. SameSessions
    BY <2>3 DEF SameSessions, SameWork
  <2>6. \A b \in AttemptId :
          attempt[b].stage = "ReworkEngineering" /\ attempt'[b] = attempt[b] => ~AtEngineering(b)
    BY <2>3 DEF AtEngineering
  <2>7. ASSUME NEW k \in CandidateId, StillDue(k), AtQuality(k)
        PROVE  FALSE
    <3>1. candidate[k].attempt = a
      BY <1>t, <2>1, <2>7 DEF AtQuality, DriverCandidate
    <3>2. attempt'[candidate'[k].attempt].stage = "Failed"
      BY <2>3, <3>1
    <3> QED BY <2>7, <3>2 DEF StillDue, Reviewable, QualityStage
  <2> QED BY <1>1, <1>2, <2>4, <2>5, <2>6, <2>7, RestPaid
<1>5. CASE FailRunningCampaign
  <2>1. driver.pc = "failCampaign" /\ UNCHANGED <<attempt, candidate, session>>
    BY <1>5 DEF FailRunningCampaign, FailCampaign, CloseCampaign
  <2>2. Writes(0)
    BY <2>1 DEF Writes, HasCandidate, AttemptId
  <2> QED BY <1>3, <2>1, <2>2 DEF AtWork
<1>6. CASE AttachCommit
  <2>0. driver.pc = "attach" /\ AttachCandidateCommit(driver.candidate, driver.fence.candidate)
    BY <1>6 DEF AttachCommit
  <2>1. UNCHANGED attempt /\ UNCHANGED session
    BY <2>0, Zenon DEF AttachCandidateCommit
  <2>2. \A j \in CandidateId : candidate'[j].attempt = candidate[j].attempt
    BY <1>t, <2>0 DEF AttachCandidateCommit, TypeOK, CandidateRow
  <2>3. Writes(0)
    BY <2>1, <2>2 DEF Writes, HasCandidate, AttemptId
  <2> QED BY <1>3, <2>0, <2>1, <2>3 DEF AtWork
<1>7. CASE Deliver
  <2> DEFINE k == driver.candidate
             a == candidate[k].attempt
  <2>1. /\ driver.pc = "deliver"
        /\ RecordDelivery(k, driver.fence.candidate, driver.fence.attempt,
                          driver.fence.ticket, driver.fence.campaign)
    BY <1>7 DEF Deliver
  <2>2. /\ UNCHANGED session /\ attempt[a].stage = "AwaitingArchitect"
        /\ attempt' = [attempt EXCEPT ![a].stage = "Delivered", ![a].rev = @ + 1]
        /\ candidate' = [candidate EXCEPT ![k].state = "Delivered", ![k].rev = @ + 1]
    BY <2>1, Zenon DEF RecordDelivery
  <2>3. k \in CandidateId
    BY <1>t, <2>1 DEF OnCandidate
  <2>4. HasCandidate(a) /\ \A j \in CandidateId : candidate'[j].attempt = candidate[j].attempt
    BY <1>t, <2>2, <2>3 DEF HasCandidate, TypeOK, CandidateRow
  <2> HIDE DEF a
  <2>5. (\A b \in AttemptId : b # a => attempt'[b] = attempt[b])
          /\ (a \in AttemptId => attempt'[a].stage = "Delivered")
    BY <1>t, <2>2 DEF TypeOK, AttemptRow
  <2>6. Writes(a)
    BY <2>2, <2>4, <2>5 DEF Writes, HasCandidate, OpenStage, DownstreamStage, HardStage, QualityStage
  <2> QED BY <1>3, <2>1, <2>2, <2>6 DEF AtWork
<1>8. CASE ResumeHardValidation /\ ResumeAdmitted
  <2> DEFINE k == driver.candidate
             a == candidate[k].attempt
  <2>1. PICK result \in {"Passed", "NotPassed"} :
          RecordHardValidation(k, candidate[k].engineeringSession,
                               driver.fence.candidate, driver.fence.attempt, result)
    BY <1>8 DEF ResumeHardValidation
  <2>2. driver.pc = "resume"
    BY <1>8 DEF ResumeHardValidation
  <2>3. k \in CandidateId
    BY <1>t, <2>2 DEF OnCandidate
  <2>4. a \in AttemptId /\ attempt[a].stage \in HardStage /\ UNCHANGED session
    BY <1>t, <2>1, <2>3 DEF RecordHardValidation, RowLinks, CandidateLinks
  <2>5. \A b \in AttemptId : b # a => attempt'[b] = attempt[b]
    BY <1>t, <2>1, <2>4 DEF RecordHardValidation, TypeOK
  <2>6. HasCandidate(a) /\ \A j \in CandidateId : candidate'[j].attempt = candidate[j].attempt
    <3>1. HasCandidate(a)
      BY <2>3 DEF HasCandidate
    <3>2. candidate' = [candidate EXCEPT
                          ![k].hard = result,
                          ![k].state = IF result = "Passed" THEN "Validated" ELSE "Rejected",
                          ![k].rev = @ + 1]
      BY <2>1, Zenon DEF RecordHardValidation
    <3>3. candidate \in [CandidateId -> CandidateRow]
      BY <1>t DEF TypeOK
    <3> QED BY <2>3, <3>1, <3>2, <3>3 DEF CandidateRow
  <2> HIDE DEF a
  <2>7. Writes(a)
    BY <2>4, <2>5, <2>6 DEF Writes, HasCandidate, OpenStage, DownstreamStage, HardStage
  <2> QED BY <1>3, <2>2, <2>4, <2>7 DEF AtWork
<1>9. CASE RestartServes \/ (ResumeHardValidation /\ ~ResumeAdmitted)
  <2>1. driver.pc \in {"down", "resume"} /\ UNCHANGED vars
    BY <1>9 DEF RestartServes, ResumeHardValidation
  <2>2. Writes(0)
    BY <2>1, NoWrite
  <2> QED BY <1>3, <2>1, <2>2 DEF AtWork, vars
<1> QED BY <1>4, <1>5, <1>6, <1>7, <1>8, <1>9

-----------------------------------------------------------------------------
(* What the driver finds to do                                             *)

\* The head is one attempt, and its last candidate is one.
LEMMA HeadIsOne ==
    ASSUME NEW a \in AttemptId, NEW k \in CandidateId, IsHead(a), IsLatestCandidate(k, a)
    PROVE  HeadAction = DownstreamAction(attempt[a].stage, candidate[k])
<1>1. ASSUME NEW b \in AttemptId, IsHead(b)
      PROVE  b = a
    BY <1>1 DEF IsHead, AttemptId
<1>2. (CHOOSE b \in AttemptId : IsHead(b)) = a
    BY <1>1
<1>3. ASSUME NEW j \in CandidateId, IsLatestCandidate(j, a)
      PROVE  j = k
    BY <1>3 DEF IsLatestCandidate, CandidateId
<1>4. (CHOOSE j \in CandidateId : IsLatestCandidate(j, a)) = k
    BY <1>3
<1> QED BY <1>2, <1>4 DEF HeadAction

\* What a poll starts from, and what it leaves alone.
LEMMA PollStarts ==
    ASSUME OneStep, NEW c \in CampaignId, Poll(c)
    PROVE  /\ UNCHANGED vars /\ UNCHANGED faults /\ SameSessions /\ Writes(0)
           /\ attempt' = attempt /\ candidate' = candidate
           /\ campaign[c].state = "Running" /\ FaultsOK'
           /\ \A a \in AttemptId : ~AtEngineering(a) /\ ~LaunchesEngineering(a)
           /\ \A k \in CandidateId : ~AtQuality(k) /\ ~LaunchesQuality(k)
           /\ \A a \in AttemptId : Reopened(a) <=> attempt[a].released /\ attempt[a].stage \in OpenStage
<1>1. driver.pc = "poll" /\ UNCHANGED faults /\ UNCHANGED vars /\ campaign[c].state = "Running"
    BY DEF Poll, DriverGoes
<1>2. FaultsOK'
    BY <1>1 DEF OneStep, ControlFacts, SpendInv, PlaceInv, FaultsOK
<1>3. attempt' = attempt /\ candidate' = candidate
    BY <1>1 DEF vars
<1> QED BY <1>1, <1>2, <1>3, NoWrite
        DEF AtEngineering, AtQuality, LaunchesEngineering, LaunchesQuality, AtWork, Reopened

\* A successor of an open attempt stays quiet when the driver turns to another.
LEMMA QuietPoll ==
    ASSUME OneStep, NEW c \in CampaignId, Poll(c), ~(driver'.pc = "retryQuality" /\ driver'.recovering),
           \A b \in AttemptId : Quiet(b) => driver'.attempt # b
    PROVE  QuietSuccessor'
<1>1. /\ UNCHANGED vars
      /\ \A a \in AttemptId : Reopened(a) <=> attempt[a].released /\ attempt[a].stage \in OpenStage
    BY PollStarts
<1>2. QuietSuccessor
    BY DEF OneStep, ControlFacts, SpendInv
<1>3. attempt' = attempt /\ candidate' = candidate /\ campaign' = campaign
    BY <1>1 DEF vars
<1>4. \A a \in AttemptId : Reopened(a)' => Reopened(a)
    BY <1>1, <1>3 DEF Reopened
<1>5. \A b \in AttemptId : Quiet(b) => Quiet(b)'
    BY <1>3 DEF Quiet, HasCandidate
<1> QED BY <1>2, <1>3, <1>4, <1>5 DEF QuietSuccessor

\* recoverable_engineering_failure finds an attempt that does not rest.
LEMMA PollEngineeringPaid ==
    ASSUME OneStep, NEW c \in CampaignId, Poll(c), NEW a \in AttemptId,
           RecoverableEngineering(c, a), driver' = Task("retryEngineering", c, "Engineering", a, 0)
    PROVE  SpendInv'
<1>1. driver'.pc = "retryEngineering" /\ driver'.office = "Engineering" /\ driver'.attempt = a
    BY TaskFields
<1>2. /\ UNCHANGED faults /\ SameSessions /\ FaultsOK'
      /\ (\A b \in AttemptId : ~AtEngineering(b)) /\ (\A k \in CandidateId : ~AtQuality(k))
    BY PollStarts
<1>3. PlaceInv'
    BY <1>1, <1>2 DEF PlaceInv, DriverCandidate, EngineeringDone, QualityDone, QualityFails,
                      ClaimAlone, AtWork
<1>4. ~Quiet(a)
    BY DEF RecoverableEngineering, Quiet
<1>5. QuietSuccessor'
    BY <1>1, <1>4, QuietPoll
<1> QED BY <1>1, <1>2, <1>3, <1>5, StepPaid DEF LaunchesEngineering, LaunchesQuality

\* recoverable_quality_failure may find a released attempt: the attempt that
\* succeeded it then has no newer candidate, and nothing of it to retry.
LEMMA PollQualityPaid ==
    ASSUME OneStep, NEW c \in CampaignId, Poll(c), NEW a \in AttemptId, NEW k \in CandidateId,
           RecoverableQuality(c, a, k), \A b \in AttemptId : ~RecoverableEngineering(c, b),
           driver' = [Task("retryQuality", c, "Quality", a, k) EXCEPT !.recovering = TRUE]
    PROVE  SpendInv'
<1>1. /\ driver'.pc = "retryQuality" /\ driver'.office = "Quality" /\ driver'.attempt = a
      /\ driver'.candidate = k /\ driver'.recovering
  <2> DEFINE d == Task("retryQuality", c, "Quality", a, k)
  <2>1. /\ DOMAIN d = DriverFields /\ d.pc = "retryQuality" /\ d.office = "Quality"
        /\ d.attempt = a /\ d.candidate = k
    BY TaskFields
  <2>2. driver' = [d EXCEPT !.recovering = TRUE]
    OBVIOUS
  <2> HIDE DEF d
  <2> QED BY <2>1, <2>2 DEF DriverFields
<1>2. /\ UNCHANGED faults /\ SameSessions /\ FaultsOK' /\ campaign[c].state = "Running"
      /\ UNCHANGED vars /\ attempt' = attempt /\ candidate' = candidate
      /\ (\A b \in AttemptId : ~AtEngineering(b)) /\ (\A j \in CandidateId : ~AtQuality(j))
      /\ \A b \in AttemptId : Reopened(b) <=> attempt[b].released /\ attempt[b].stage \in OpenStage
    BY PollStarts
<1>t. /\ TypeOK /\ RowLinks /\ QuietSuccessor /\ AttemptsInOrder /\ CandidatesInOrder
      /\ OneCampaign /\ StageMatchesHead /\ DeliveredOnce
    BY DEF OneStep, ControlFacts, ControlInv, HistoryInv, SpendInv
<1>3. PlaceInv'
    BY <1>1, <1>2 DEF PlaceInv, DriverCandidate, EngineeringDone, QualityDone, QualityFails,
                      ClaimAlone, AtWork, RecoverableQuality
<1>4. campaign' = campaign
    BY <1>2 DEF vars
<1>5. ASSUME NEW b \in AttemptId, b # a, Quiet(b)
      PROVE  Quiet(b)'
    BY <1>1, <1>2, <1>4, <1>5 DEF Quiet, HasCandidate
<1>6. HasCandidate(a)
    BY DEF RecoverableQuality, HasCandidate
<1>7. ASSUME NEW b \in AttemptId, attempt[b].stage # "Absent", ~attempt[b].released,
             attempt[a].released, attempt[b].ticket = attempt[a].ticket
      PROVE  Quiet(b)'
  <2>1. a < b
    BY <1>7, <1>t DEF AttemptsInOrder, AttemptId, RecoverableQuality
  <2>2. ~HasCandidate(b)
    <3> SUFFICES ASSUME NEW j \in CandidateId, candidate[j].attempt = b PROVE FALSE
      BY DEF HasCandidate
    <3>1. j <= k
      BY <1>7 DEF RecoverableQuality, AttemptId
    <3>2. k < j
      BY <1>7, <1>t, <2>1 DEF CandidatesInOrder, RecoverableQuality
    <3> QED BY <3>1, <3>2 DEF CandidateId
  <2>3. attempt[b].stage \in {"Engineering", "Failed"}
    <3>1. attempt[b].stage \in AttemptStage
      BY <1>t DEF TypeOK, AttemptRow
    <3>2. attempt[b].stage \notin DownstreamStage
      BY <1>t, <2>2 DEF StageMatchesHead, IsLatestCandidate, CandidatesOf, HasCandidate
    <3>3. attempt[b].stage # "Delivered"
      BY <1>t, <2>2 DEF DeliveredOnce, CandidatesOf, HasCandidate
    <3> QED BY <1>7, <3>1, <3>2, <3>3 DEF AttemptStage, OpenStage
  <2>4. ~(/\ attempt[b].stage = "Failed" /\ ~attempt[b].engineeringRetried
          /\ campaign[attempt[b].campaign].state = "Running"
          /\ campaign[attempt[b].campaign].cost = "Known")
    <3> SUFFICES ASSUME attempt[b].stage = "Failed", ~attempt[b].engineeringRetried,
                        campaign[attempt[b].campaign].state = "Running",
                        campaign[attempt[b].campaign].cost = "Known"
                 PROVE  FALSE
        OBVIOUS
    <3>1. attempt[b].campaign = c
      BY <1>2, <1>7, <1>t DEF OneCampaign, RowLinks, AttemptLinks
    <3>2. TicketOf(b).state = "InFlight"
      BY <1>7 DEF RecoverableQuality, TicketOf
    <3> QED BY <1>7, <2>2, <3>1, <3>2 DEF RecoverableEngineering
  <2> QED BY <1>1, <1>2, <1>4, <1>7, <2>2, <2>3, <2>4 DEF Quiet, HasCandidate
<1>8. QuietSuccessor'
  <2> SUFFICES ASSUME NEW x \in AttemptId, NEW b \in AttemptId, Reopened(x)',
                      attempt[b].stage # "Absent", ~attempt[b].released,
                      attempt[b].ticket = attempt[x].ticket
               PROVE  Quiet(b)'
      BY <1>2 DEF QuietSuccessor
  <2>1. CASE Reopened(x)
    BY <1>5, <1>6, <1>t, <2>1 DEF QuietSuccessor, Quiet
  <2>2. CASE ~Reopened(x)
    <3>1. x = a /\ attempt[x].released
      BY <1>1, <1>2, <2>2 DEF Reopened
    <3> QED BY <1>7, <3>1
  <2> QED BY <2>1, <2>2
<1> QED BY <1>1, <1>2, <1>3, <1>8, StepPaid DEF LaunchesEngineering, LaunchesQuality

\* decide lets the driver claim when nothing is downstream.
LEMMA PollClaimPaid ==
    ASSUME OneStep, NEW c \in CampaignId, Poll(c), Decide(BufferStatus(c)) = "ClaimReadyTicket",
           NEW t, driver' = [Task("claim", c, "Engineering", 0, 0)
                               EXCEPT !.ticket = t, !.fence.ticket = ticket[t].rev]
    PROVE  SpendInv'
<1>1. driver'.pc = "claim" /\ driver'.office = "Engineering" /\ driver'.attempt = 0
  <2> DEFINE d == Task("claim", c, "Engineering", 0, 0)
  <2>1. /\ DOMAIN d = DriverFields /\ d.pc = "claim" /\ d.office = "Engineering" /\ d.attempt = 0
    BY TaskFields
  <2>2. driver' = [d EXCEPT !.ticket = t, !.fence.ticket = ticket[t].rev]
    OBVIOUS
  <2> HIDE DEF d
  <2> QED BY <2>1, <2>2 DEF DriverFields
<1>2. /\ UNCHANGED faults /\ SameSessions /\ FaultsOK' /\ attempt' = attempt
      /\ (\A b \in AttemptId : ~AtEngineering(b)) /\ (\A j \in CandidateId : ~AtQuality(j))
    BY PollStarts
<1>3. Downstream = {}
  <2>1. IsFiniteSet(AttemptId)
    <3>1. 1 \in Int /\ MaxAttempts \in Int
      BY BoundsAssumption
    <3> QED BY <3>1, FS_Interval DEF AttemptId
  <2>2. IsFiniteSet(Downstream) /\ Cardinality(Downstream) \in Nat
    BY <2>1, FS_Subset, FS_CardinalityType DEF Downstream
  <2>3. ~(Cardinality(Downstream) > 0)
    <3> DEFINE n == Cardinality(Downstream)
               s == BufferStatus(c)
    <3>1. Decide(s) = "ClaimReadyTicket" => ~(s.downstreamCount > 0)
      <4> HIDE DEF s
      <4> QED BY DEF Decide
    <3>2. s.downstreamCount = n
      BY DEF BufferStatus
    <3> QED BY <3>1, <3>2
  <2> QED BY <2>2, <2>3, FS_EmptySet
<1>4. PlaceInv'
    BY <1>1, <1>2, <1>3 DEF PlaceInv, DriverCandidate, EngineeringDone, QualityDone, QualityFails,
                      ClaimAlone, Downstream, AtWork
<1>5. QuietSuccessor'
    BY <1>1, QuietPoll DEF AttemptId
<1> QED BY <1>1, <1>2, <1>4, <1>5, StepPaid DEF LaunchesEngineering, LaunchesQuality

\* continue_downstream: what it launches was due.
LEMMA PollDownstreamPaid ==
    ASSUME OneStep, NEW c \in CampaignId, Poll(c), NEW a \in AttemptId, NEW k \in CandidateId,
           IsHead(a), IsLatestCandidate(k, a), DownstreamTask(c, a, k) # Polling,
           driver' = DownstreamTask(c, a, k)
    PROVE  SpendInv'
<1>1. /\ UNCHANGED faults /\ SameSessions /\ FaultsOK' /\ attempt' = attempt
      /\ candidate' = candidate
      /\ (\A b \in AttemptId : ~AtEngineering(b)) /\ (\A j \in CandidateId : ~AtQuality(j))
    BY PollStarts
<1>2. HeadAction = DownstreamAction(attempt[a].stage, candidate[k])
    BY HeadIsOne
<1>3. attempt[a].stage \in DownstreamStage /\ candidate[k].attempt = a
    BY DEF IsHead, Downstream, IsLatestCandidate, CandidatesOf
<1>4. \/ /\ driver' = Task("attach", c, "Engineering", a, k)
      \/ /\ driver' = Task("resume", c, "Engineering", a, k)
      \/ /\ driver' = Task("deliver", c, "Quality", a, k)
      \/ /\ driver' = LaunchOf(c, campaign[c].rev, "Engineering", a, 0)
         /\ HeadAction = "ReworkEngineering"
      \/ /\ driver' = LaunchOf(c, campaign[c].rev, "Quality", a, k)
         /\ HeadAction \in QualityStage \cup {"QualityReviewRequired"}
    BY DEF DownstreamTask
<1>5. /\ driver'.attempt = a
      /\ \/ driver'.pc \in {"attach", "resume"} /\ driver'.office = "Engineering"
         \/ driver'.pc = "deliver"
         \/ /\ driver'.pc = "launch" /\ driver'.office = "Engineering"
            /\ HeadAction = "ReworkEngineering"
         \/ /\ driver'.pc = "launch" /\ driver'.office = "Quality" /\ driver'.candidate = k
            /\ HeadAction \in QualityStage \cup {"QualityReviewRequired"}
  <2>1. CASE \/ driver' = Task("attach", c, "Engineering", a, k)
             \/ driver' = Task("resume", c, "Engineering", a, k)
             \/ driver' = Task("deliver", c, "Quality", a, k)
    BY <2>1, TaskFields
  <2>2. CASE /\ driver' = LaunchOf(c, campaign[c].rev, "Engineering", a, 0)
             /\ HeadAction = "ReworkEngineering"
    BY <2>2, LaunchFields
  <2>3. CASE /\ driver' = LaunchOf(c, campaign[c].rev, "Quality", a, k)
             /\ HeadAction \in QualityStage \cup {"QualityReviewRequired"}
    BY <2>3, LaunchFields
  <2> QED BY <1>4, <2>1, <2>2, <2>3
<1>6. HeadAction = "ReworkEngineering" => attempt[a].stage = "ReworkEngineering"
    BY <1>2 DEF DownstreamAction, QualityStage
<1>7. HeadAction \in QualityStage \cup {"QualityReviewRequired"} => Reviewable(k)
    BY <1>2, <1>3 DEF DownstreamAction, QualityStage, Reviewable
<1>8. "Failed" \notin DownstreamStage /\ "Engineering" \notin DownstreamStage
    BY DEF DownstreamStage, HardStage, QualityStage
<1>9. PlaceInv'
    BY <1>1, <1>3, <1>5, <1>8 DEF PlaceInv, DriverCandidate, EngineeringDone, QualityDone,
                                  QualityFails, ClaimAlone, AtWork
<1>10. QuietSuccessor'
    BY <1>3, <1>5, <1>8, QuietPoll DEF Quiet
<1>11. ASSUME NEW b \in AttemptId, LaunchesEngineering(b)'
       PROVE  EngineeringDue(b)
    BY <1>1, <1>5, <1>6, <1>11 DEF LaunchesEngineering, EngineeringDue
<1>12. ASSUME NEW j \in CandidateId, LaunchesQuality(j)'
       PROVE  QualityDue(j)
    BY <1>1, <1>5, <1>7, <1>12 DEF LaunchesQuality, QualityDue
<1> QED BY <1>1, <1>9, <1>10, <1>11, <1>12, StepPaid

\* Whatever a poll finds to do was due, or will be paid by a retry.
LEMMA PollPaid ==
    ASSUME OneStep, NEW c \in CampaignId, Poll(c)
    PROVE  SpendInv'
<1> DEFINE engineering == {a \in AttemptId : RecoverableEngineering(c, a)}
           quality == {p \in AttemptId \X CandidateId : RecoverableQuality(c, p[1], p[2])}
           action == Decide(BufferStatus(c))
<1>1. \/ \E a \in engineering : driver' = Task("retryEngineering", c, "Engineering", a, 0)
      \/ /\ engineering = {}
         /\ \E p \in quality :
              driver' = [Task("retryQuality", c, "Quality", p[1], p[2]) EXCEPT !.recovering = TRUE]
      \/ driver' = LaunchOf(c, campaign[c].rev, "Product", 0, 0)
      \/ /\ action = "ClaimReadyTicket"
         /\ \E t \in TicketsIn("Sponsored") :
              driver' = [Task("claim", c, "Engineering", 0, 0)
                           EXCEPT !.ticket = t, !.fence.ticket = ticket[t].rev]
      \/ \E a \in AttemptId, k \in CandidateId :
           /\ IsHead(a) /\ IsLatestCandidate(k, a) /\ DownstreamTask(c, a, k) # Polling
           /\ driver' = DownstreamTask(c, a, k)
    BY ZenonT(60) DEF Poll, DriverGoes
<1>2. ASSUME NEW a \in engineering, driver' = Task("retryEngineering", c, "Engineering", a, 0)
      PROVE  SpendInv'
    BY <1>2, PollEngineeringPaid
<1>3. ASSUME NEW p \in quality, engineering = {},
             driver' = [Task("retryQuality", c, "Quality", p[1], p[2]) EXCEPT !.recovering = TRUE]
      PROVE  SpendInv'
    BY <1>3, PollQualityPaid
<1>4. CASE driver' = LaunchOf(c, campaign[c].rev, "Product", 0, 0)
  <2>1. Resting'
    BY <1>4, RestPositions
  <2> QED BY <2>1, PollStarts, RestPaid
<1> QED BY <1>1, <1>2, <1>3, <1>4, PollClaimPaid, PollDownstreamPaid

-----------------------------------------------------------------------------
(* Every step is paid                                                      *)

\* Proposals, sponsorships, new campaigns, the clock, cancellations and the
\* reconciliation after a crash.
LEMMA AsideStepPaid ==
    ASSUME OneStep,
           \/ ProposeTicket \/ CheckpointRegression
           \/ (\E c \in CampaignId : StartCampaign(c)) /\ UNCHANGED <<memory, faults>>
           \/ OperatorSponsors /\ UNCHANGED <<memory, faults>>
           \/ CancelStep \/ Deadline \/ RestartReconcile
           \/ UNCHANGED cvars
    PROVE  SpendInv'
<1>t. TypeOK
    BY DEF OneStep, ControlFacts, ControlInv
<1>1. CASE RestartReconcile
  <2>1. PICK s \in SessionId : TerminalSession(s, "Interrupted", "Unknown")
    BY <1>1 DEF RestartReconcile
  <2>2. SameSessions /\ UNCHANGED <<attempt, candidate>>
    BY <1>t, <2>1, TerminalSame
  <2>3. driver.pc = "down" /\ UNCHANGED <<driver, rpc, faults>>
    BY <1>1 DEF RestartReconcile, memory
  <2> QED BY <2>2, <2>3, AsidePaid
<1>2. ASSUME UNCHANGED <<driver, faults, attempt, candidate>>, UNCHANGED session,
             rpc' \in {rpc, "Implementing"}
      PROVE  SpendInv'
  <2>1. SameSessions
    BY <1>2 DEF SameSessions, SameWork
  <2> QED BY <1>2, <2>1, AsidePaid
<1>3. CASE ProposeTicket \/ CheckpointRegression
    BY <1>2, <1>3 DEF ProposeTicket, SubmitTicketProposal, CheckpointRegression, RpcReaches, vars
<1>4. CASE (\E c \in CampaignId : StartCampaign(c)) /\ UNCHANGED <<memory, faults>>
    BY <1>2, <1>4 DEF StartCampaign, memory
<1>5. CASE OperatorSponsors /\ UNCHANGED <<memory, faults>>
    BY <1>2, <1>5 DEF OperatorSponsors, SponsorTicket, memory
<1>6. CASE Deadline
    BY <1>2, <1>6 DEF Deadline, DeadlineElapses, memory
<1>7. CASE CancelStep
    BY <1>2, <1>7 DEF CancelStep, CancelIdle, CancelActive, CancelFinish, CancelCampaign,
                      FinishCampaignCancellation, CloseCampaign, memory, vars
<1>8. CASE UNCHANGED cvars
    BY <1>2, <1>8 DEF cvars, vars
<1> QED BY <1>1, <1>3, <1>4, <1>5, <1>6, <1>7, <1>8

\* No step of the control plane spends what was not paid.
LEMMA SpendKept ==
    ASSUME ControlFacts, [ControlNext]_cvars
    PROVE  SpendInv'
<1>0. OneStep
    BY StepFacts
<1>1. CASE DriverStep
    BY <1>0, <1>1, PollPaid, ClaimPaid, RetryEngineeringPaid, RetryQualityPaid, CommandRestPaid,
       RefusedPaid, AssignmentPaid, LaunchStepPaid, SettlePaid DEF DriverStep, DriverCommand
<1>2. CASE RpcStep
    BY <1>0, <1>2, AsideStepPaid, SubmitPaid, HardValidationPaid, ReviewPaid DEF RpcStep
<1>3. CASE OperatorStep
    BY <1>0, <1>3, AsideStepPaid, ReleasePaid DEF OperatorStep
<1> QED
    BY <1>0, <1>1, <1>2, <1>3, SessionEndPaid, DecidePaid, AsideStepPaid, FaultStepPaid,
       CommandRestPaid DEF ControlNext, RestartStep

\* The facts hold in every state.
LEMMA ControlFactsInvariant == ControlSpec => []ControlFacts
<1>1. ControlInit => SpendInv
  <2> SUFFICES ASSUME ControlInit PROVE SpendInv
    OBVIOUS
  <2>1. driver.pc = "poll" /\ driver.office = "Product" /\ driver.attempt = 0
    BY DEF ControlInit, Polling
  <2>2. FaultsOK /\ FaultCount = 0
    BY DEF ControlInit, FaultsOK, FaultCount
  <2>3. PlaceInv
    BY <2>1, <2>2 DEF PlaceInv, DriverCandidate, EngineeringDone, QualityDone, QualityFails,
                      ClaimAlone, AtWork
  <2>4. /\ \A a \in AttemptId : attempt[a] = NoAttempt
        /\ \A k \in CandidateId : candidate[k] = NoCandidate
        /\ \A s \in SessionId : session[s] = NoSession
    BY DEF ControlInit, Init
  <2>5. QuietSuccessor /\ WorkInFlight
    BY <2>4 DEF QuietSuccessor, Reopened, WorkInFlight, NoAttempt, DownstreamStage, HardStage,
                QualityStage
  <2>6. EngineeringPaid
    <3> SUFFICES ASSUME NEW a \in AttemptId
                 PROVE  Paid(EngineeringSpend(a), Bit(EngineeringDue(a)), EngineeringBudget(a))
        BY DEF EngineeringPaid
    <3>1. EngineeringSpend(a) = {}
      BY <2>4 DEF EngineeringSpend, NoSession
    <3>2. ~EngineeringDue(a)
      BY <2>1, <2>4 DEF EngineeringDue, LaunchesEngineering, NoAttempt
    <3>3. EngineeringBudget(a) = 1
      BY <2>2, <2>4 DEF EngineeringBudget, NoAttempt, Bit
    <3> QED BY <3>1, <3>2, <3>3, FS_EmptySet DEF Paid, Bit
  <2>7. QualityPaid
    BY <2>4 DEF QualityPaid, NoCandidate
  <2> QED BY <2>3, <2>5, <2>6, <2>7 DEF SpendInv
<1>2. (/\ ControlInv /\ RowLinks /\ SoundCandidates /\ InFlightOwnership /\ StageMatchesHead
       /\ DeliveredOnce /\ HistoryInv /\ SpendInv /\ [ControlNext]_cvars)
        => SpendInv'
    BY SpendKept DEF ControlFacts
<1>3. (/\ ControlInv /\ RowLinks /\ SoundCandidates /\ InFlightOwnership /\ StageMatchesHead
       /\ DeliveredOnce /\ HistoryInv /\ SpendInv)
        => ControlFacts
    BY DEF ControlFacts
<1> QED
    BY <1>1, <1>2, <1>3, ControlInvariant, ControlImplementsAuthority, RowLinksInvariant,
       SoundCandidatesInvariant, OneOwnerInFlight, StageMatchesHeadInvariant, DeliveryHappensOnce,
       HistoryInvariant, PTL
    DEF ControlSpec

\* The bounded retries bound the spend, whatever way the sessions fail and
\* whatever the operator, crashes and restarts do: an attempt the operator has not
\* released gets two Engineering assignments plus one per rework, each of its
\* candidates two Quality assignments, and one more for every fault.
THEOREM SpendIsBounded == ControlSpec => []SpendBound
<1>1. ControlFacts => SpendBound
  <2> SUFFICES ASSUME ControlFacts PROVE SpendBound
    OBVIOUS
  <2>1. /\ TypeOK /\ RowLinks /\ EngineeringPaid /\ QualityPaid
        /\ faults.crashes \in Nat /\ faults.errors \in Nat
    BY DEF ControlFacts, ControlInv, SpendInv, PlaceInv, FaultsOK
  <2>2. ASSUME NEW a \in AttemptId, ~attempt[a].released
        PROVE  Cardinality(EngineeringSpend(a))
                 <= 2 + attempt[a].rework + faults.crashes + faults.errors
    <3>1. Paid(EngineeringSpend(a), Bit(EngineeringDue(a)), EngineeringBudget(a))
      BY <2>1, <2>2 DEF EngineeringPaid
    <3>2. Cardinality(EngineeringSpend(a)) \in Nat /\ attempt[a].rework \in Nat
      BY <2>1, SpendFinite DEF TypeOK, AttemptRow
    <3>3. Bit(EngineeringDue(a)) \in {0, 1} /\ Bit(attempt[a].engineeringRetried) \in {0, 1}
      BY DEF Bit
    <3> DEFINE n == Cardinality(EngineeringSpend(a))
               due == Bit(EngineeringDue(a))
               retried == Bit(attempt[a].engineeringRetried)
    <3>4. n + due <= 1 + retried + attempt[a].rework + (faults.crashes + faults.errors)
      BY <3>1 DEF Paid, EngineeringBudget, FaultCount
    <3> HIDE DEF n, due, retried
    <3>5. n <= 2 + attempt[a].rework + faults.crashes + faults.errors
      BY <2>1, <3>2, <3>3, <3>4 DEF n, due, retried
    <3> QED BY <3>5 DEF n
  <2>3. ASSUME NEW k \in CandidateId, candidate[k].attempt # 0,
               ~attempt[candidate[k].attempt].released
        PROVE  Cardinality(QualitySpend(k)) <= 2 + faults.crashes + faults.errors
    <3> DEFINE n == Cardinality(QualitySpend(k))
               due == Bit(QualityDue(k))
               retried == Bit(attempt[candidate[k].attempt].qualityRetried)
    <3>1. Paid(QualitySpend(k), due, QualityBudget(k))
      BY <2>1, <2>3 DEF QualityPaid
    <3>2. n \in Nat
      BY SpendFinite
    <3>3. due \in {0, 1} /\ retried \in {0, 1}
      BY DEF Bit
    <3>4. n + due <= 1 + retried + (faults.crashes + faults.errors)
      BY <3>1 DEF Paid, QualityBudget, FaultCount
    <3> HIDE DEF n, due, retried
    <3>5. n <= 2 + faults.crashes + faults.errors
      BY <2>1, <3>2, <3>3, <3>4
    <3> QED BY <3>5 DEF n
  <2> QED BY <2>2, <2>3 DEF SpendBound
<1> QED BY <1>1, ControlFactsInvariant, PTL

=============================================================================
