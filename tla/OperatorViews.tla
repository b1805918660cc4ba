--------------------------- MODULE OperatorViews ----------------------------
(***************************************************************************)
(* The operator's reports: factory status, ticket list, ticket, candidate  *)
(* (operator_navigation.rs) and campaign status (operator_rpc.rs with the  *)
(* readers of process.rs and ticket_store.rs).  They write nothing, and    *)
(* they take no snapshot: each SQL statement sees the rows of its own      *)
(* moment, so the authority may step between any two of them.  One action  *)
(* here is one statement, in the order of the code.                        *)
(*                                                                         *)
(* The operator copies revisions from a report into the fences of later    *)
(* commands.  A finished report therefore stays on the operator's screen   *)
(* until it is closed, while the rows move on.                             *)
(***************************************************************************)
EXTENDS FactoryAuthority, Integers

CONSTANT RowLimit  \* LIMIT 20 of every listing

ASSUME RowLimitAssumption == RowLimit \in Nat \ {0}

VARIABLE report  \* the report being read or shown

NoReport == [kind |-> "None", pc |-> "closed"]

Reading(kind, pc) == report.kind = kind /\ report.pc = pc

\* ORDER BY ... LIMIT: order is 1 when the newest rows come first (DESC) and
\* -1 when the oldest do; which of the rows of one id is cut is open.
Page(rows, order) ==
    {kept \in SUBSET rows :
       /\ Cardinality(kept) = IF Cardinality(rows) < RowLimit THEN Cardinality(rows) ELSE RowLimit
       /\ \A r \in kept, q \in rows \ kept : order * r.id >= order * q.id}

-----------------------------------------------------------------------------
(* show_candidate                                                          *)

\* The candidate row; the response carries its state, revision and commit.
CandidateRowOf(k) ==
    [state |-> candidate[k].state, rev |-> candidate[k].rev, commit |-> candidate[k].commit,
     ticket |-> TicketOf(candidate[k].attempt).rev]

ShowCandidate(k) ==
    /\ report = NoReport
    /\ candidate[k].state # "Absent"
    /\ report' = [kind |-> "Candidate", pc |-> "validations", id |-> k,
                  row |-> CandidateRowOf(k), hard |-> "None", quality |-> "None",
                  review |-> "None", decision |-> "None", delivered |-> FALSE]

ReadValidations ==
    /\ Reading("Candidate", "validations")
    /\ report' = [report EXCEPT !.pc = "review", !.hard = candidate[report.id].hard,
                                !.quality = candidate[report.id].quality]

ReadReview ==
    /\ Reading("Candidate", "review")
    /\ report' = [report EXCEPT !.pc = "decision", !.review = candidate[report.id].review]

ReadDecision ==
    /\ Reading("Candidate", "decision")
    /\ report' = [report EXCEPT !.pc = "delivery", !.decision = candidate[report.id].decision]

\* Mutant: the candidate row is read last.
ReadDeliveryThenRow ==
    /\ Reading("Candidate", "delivery")
    /\ report' = [report EXCEPT !.pc = "shown", !.row = CandidateRowOf(report.id),
                                !.delivered = candidate[report.id].state = "Delivered"]

ReadDelivery ==
    /\ Reading("Candidate", "delivery")
    /\ report' = [report EXCEPT !.pc = "shown",
                                !.delivered = candidate[report.id].state = "Delivered"]

-----------------------------------------------------------------------------
(* show_ticket and list_tickets                                            *)

TicketRowOf(t) == [id |-> t, state |-> ticket[t].state, rev |-> ticket[t].rev]

ShowTicket(t) ==
    /\ report = NoReport
    /\ ticket[t].state # "Absent"
    /\ report' = [kind |-> "Ticket", pc |-> "attempts", row |-> TicketRowOf(t), attempts |-> {}]

\* LEFT JOIN: an attempt is listed once for each of its candidates.
AttemptRows(t) ==
    {[id |-> p[1], rev |-> attempt[p[1]].rev, stage |-> attempt[p[1]].stage, candidate |-> p[2]] :
       p \in {q \in AttemptId \X (CandidateId \cup {0}) :
                /\ attempt[q[1]].ticket = t
                /\ IF HasCandidate(q[1])
                   THEN q[2] # 0 /\ candidate[q[2]].attempt = q[1] ELSE q[2] = 0}}

ReadAttempts ==
    /\ Reading("Ticket", "attempts")
    /\ \E rows \in Page(AttemptRows(report.row.id), 1) :
         report' = [report EXCEPT !.pc = "shown", !.attempts = rows]

\* One statement; the operator may ask for one state.
ListTickets(states) ==
    /\ report = NoReport
    /\ \E rows \in Page({TicketRowOf(t) : t \in {u \in TicketId : ticket[u].state \in states}}, 1) :
         report' = [kind |-> "Tickets", pc |-> "shown", rows |-> rows]

-----------------------------------------------------------------------------
(* factory_status                                                          *)

FactoryStatus ==
    /\ report = NoReport
    /\ report' = [kind |-> "Factory", pc |-> "campaigns",
                  inFlight |-> Cardinality(TicketsIn("InFlight")),
                  delivered |-> Cardinality(TicketsIn("Delivered")),
                  campaigns |-> 0, running |-> 0, sessions |-> 0, active |-> 0]

\* The active application is read in between; one revision is modelled.
CountCampaigns ==
    /\ Reading("Factory", "campaigns")
    /\ report' = [report EXCEPT
         !.pc = "sessions",
         !.campaigns = Cardinality({c \in CampaignId : campaign[c].state # "Absent"}),
         !.running = Cardinality({c \in CampaignId : campaign[c].state = "Running"})]

\* factory.sessions has a row once custody is registered.
SessionRows == {s \in SessionId : session[s].state \notin {"Absent", "Prepared"}}

CountSessions ==
    /\ Reading("Factory", "sessions")
    /\ report' = [report EXCEPT
         !.pc = "shown",
         !.sessions = Cardinality(SessionRows),
         !.active = Cardinality({s \in SessionRows : Running(s)})]

-----------------------------------------------------------------------------
(* dispatch_status: campaign_status, ticket_buffer_status, then spend      *)

NoHead   == [attempt |-> 0, attemptRev |-> 0, candidate |-> 0, candidateRev |-> 0,
             action |-> "None"]
NoOldest == [id |-> 0, rev |-> 0]

\* campaign_status_response: what the response is assembled from
CampaignReport(c) ==
    [kind |-> "Campaign", pc |-> "downstream", id |-> c,
     state |-> campaign[c].state, rev |-> campaign[c].rev,
     head |-> NoHead, delivered |-> 0, oldest |-> NoOldest,
     costs |-> {}, identity |-> "None", aggregate |-> 0]

\* campaign_status
CampaignStatus(c) ==
    /\ report = NoReport
    /\ campaign[c].state # "Absent"
    /\ report' = CampaignReport(c)

\* The FIFO head of the downstream attempts with its newest candidate
DownstreamHeads ==
    {h \in AttemptId \X CandidateId :
       /\ attempt[h[1]].stage \in DownstreamStage
       /\ \A b \in AttemptId : attempt[b].stage \in DownstreamStage => h[1] <= b
       /\ IsLatestCandidate(h[2], h[1])}

\* ticket_buffer_status: the work the scheduler would continue, one statement.
\* The counts and the policy it also reads have no evidence to agree with.
ReadDownstream ==
    /\ Reading("Campaign", "downstream")
    /\ \/ /\ DownstreamHeads = {}
          /\ report' = [report EXCEPT !.pc = "delivered"]
       \/ \E h \in DownstreamHeads :
            report' = [report EXCEPT
              !.pc = "delivered",
              !.head = [attempt |-> h[1], attemptRev |-> attempt[h[1]].rev,
                        candidate |-> h[2], candidateRev |-> candidate[h[2]].rev,
                        action |-> DownstreamAction(attempt[h[1]].stage, candidate[h[2]])]]

\* ticket_buffer_status: deliveries of the campaign
ReadDelivered ==
    /\ Reading("Campaign", "delivered")
    /\ report' = [report EXCEPT !.pc = "oldest",
                                !.delivered = Cardinality(DeliveredAttempts(report.id))]

\* ticket_buffer_status: the ticket that would be claimed, by sponsorship time
ReadOldest ==
    /\ Reading("Campaign", "oldest")
    /\ \/ /\ TicketsIn("Sponsored") = {}
          /\ report' = [report EXCEPT !.pc = "costs"]
       \/ \E t \in TicketsIn("Sponsored") :
            report' = [report EXCEPT !.pc = "costs",
                                     !.oldest = [id |-> t, rev |-> ticket[t].rev]]

\* campaign_session_costs: the first page, oldest sessions first
ReadSessionCosts ==
    /\ Reading("Campaign", "costs")
    /\ \E rows \in Page({[id |-> s, state |-> session[s].state] :
                            s \in {r \in SessionRows : session[r].campaign = report.id}}, -1) :
         report' = [report EXCEPT !.pc = "identity", !.costs = rows]

\* campaign_product_identity, one statement: the commit of the newest
\* delivery of the campaign
ReadProductIdentity ==
    /\ Reading("Campaign", "identity")
    /\ report' = [report EXCEPT
         !.pc = "aggregates",
         !.identity = IF DeliveredAttempts(report.id) = {} THEN "None" ELSE "Delivered"]

\* campaign_session_cost_aggregates counts every session of the campaign.
ReadAggregates ==
    /\ Reading("Campaign", "aggregates")
    /\ report' = [report EXCEPT
         !.pc = "shown",
         !.aggregate = Cardinality({s \in SessionRows : session[s].campaign = report.id})]

-----------------------------------------------------------------------------

\* The response is on the operator's screen, or the request was given up.
CloseReport ==
    /\ report # NoReport
    /\ report' = NoReport

ReportStep ==
    /\ \/ \E k \in CandidateId : ShowCandidate(k)
       \/ ReadValidations \/ ReadReview \/ ReadDecision \/ ReadDelivery
       \/ \E t \in TicketId : ShowTicket(t)
       \/ ReadAttempts
       \/ \E states \in {TicketState \ {"Absent"}, {"Proposed"}} : ListTickets(states)
       \/ FactoryStatus \/ CountCampaigns \/ CountSessions
       \/ \E c \in CampaignId : CampaignStatus(c)
       \/ ReadDownstream \/ ReadDelivered \/ ReadOldest
       \/ ReadSessionCosts \/ ReadProductIdentity \/ ReadAggregates
       \/ CloseReport
    /\ UNCHANGED vars

ReportInit == Init /\ report = NoReport

ReportNext == ReportStep \/ (Next /\ UNCHANGED report)

ReportSpec == ReportInit /\ [][ReportNext]_<<vars, report>>

-----------------------------------------------------------------------------
(* Properties                                                              *)

\* A candidate comes with the evidence behind its state.
CandidateBacked ==
    Reading("Candidate", "shown") =>
      /\ report.row.state \in {"Validated", "Accepted", "Delivered"} => report.hard = "Passed"
      /\ report.row.state \in {"Accepted", "Delivered"} =>
           /\ report.row.commit /\ report.quality = "Passed"
           /\ report.review # "None" /\ report.decision = "Deliver"
      /\ report.row.state = "Delivered" => report.delivered

\* The limit cut attempt a off the page: everything listed is newer.
CutOff(a) ==
    Cardinality(report.attempts) = RowLimit /\ \A r \in report.attempts : r.id > a

\* A ticket in flight or delivered comes with the attempt that made it so,
\* unless that attempt is older than a whole page.  It may be: a released
\* attempt can be recovered and delivered beside a newer one.
TicketBacked ==
    Reading("Ticket", "shown") =>
      /\ report.row.state \in {"InFlight", "Delivered"} => report.attempts # {}
      /\ report.row.state = "Delivered" =>
           \/ \E r \in report.attempts : r.stage = "Delivered"
           \/ \E a \in AttemptId : /\ attempt[a].stage = "Delivered"
                                   /\ attempt[a].ticket = report.row.id
                                   /\ CutOff(a)

\* Work in flight has a campaign, delivered work its sessions.
FactoryBacked ==
    Reading("Factory", "shown") =>
      /\ report.inFlight > 0 => report.campaigns > 0
      /\ report.delivered > 0 => report.sessions > 1

\* A completed campaign has its deliveries, and the spend total covers the page.
CampaignBacked ==
    Reading("Campaign", "shown") =>
      /\ report.state = "Completed" =>
           report.delivered >= DeliveryTarget /\ report.identity = "Delivered"
      /\ report.delivered > 0 => report.identity = "Delivered"
      /\ Cardinality(report.costs) <= report.aggregate

\* A report never claims more than it shows.  The row that makes the claim is
\* read first and its evidence later, and what the authority does in between
\* only adds evidence: a Validated, Accepted or Delivered candidate comes with
\* the validations, review, decision and delivery behind that state, a ticket
\* in flight with an attempt, a completed campaign with its target of
\* deliveries and a delivered commit, and the spend total covers the page.
ReportBacked == CandidateBacked /\ TicketBacked /\ FactoryBacked /\ CampaignBacked

\* A fence copied from a report guards everything the report showed: as long
\* as the candidate still has the revision shown, the state, the commit and
\* all the evidence on the screen are the current ones, although they were
\* read in five statements; a listed ticket or attempt whose revision still
\* holds is in the state listed; and the work the scheduler selected from its
\* several reads is still the work to do while its own fences hold.
ReportCurrent ==
    /\ Reading("Candidate", "shown") =>
         LET r == candidate[report.id] IN
         r.rev = report.row.rev =>
           /\ r.state = report.row.state /\ r.commit = report.row.commit
           /\ r.hard = report.hard /\ r.quality = report.quality
           /\ r.review = report.review /\ r.decision = report.decision
           /\ report.delivered = (r.state = "Delivered")
    /\ Reading("Ticket", "shown") =>
         \A r \in report.attempts :
           attempt[r.id].rev = r.rev => attempt[r.id].stage = r.stage
    /\ (Reading("Campaign", "shown") /\ report.head # NoHead) =>
         LET a == attempt[report.head.attempt]
             k == candidate[report.head.candidate]
         IN (a.rev = report.head.attemptRev /\ k.rev = report.head.candidateRev)
              => DownstreamAction(a.stage, k) = report.head.action
    /\ (Reading("Campaign", "shown") /\ report.oldest # NoOldest) =>
         (ticket[report.oldest.id].rev = report.oldest.rev
            => ticket[report.oldest.id].state = "Sponsored")
    /\ Reading("Tickets", "shown") =>
         \A r \in report.rows : ticket[r.id].rev = r.rev => ticket[r.id].state = r.state
=============================================================================
