-------------------------- MODULE MCOperatorViews ---------------------------
(***************************************************************************)
(* Reports of one healthy campaign while its ticket goes through delivery  *)
(* and rework.  The authority's client passes current revisions, so the    *)
(* view keeps of a revision only whether a reported one still holds.       *)
(***************************************************************************)
EXTENDS OperatorViews

\* Engineering and Quality sessions in turn, each one successful before the
\* next is created.
HealthyCampaign ==
    /\ \A c \in CampaignId :
         /\ deadlineOpen[c] /\ campaign[c].cost = "Known"
         /\ campaign[c].state \in {"Absent", "Running", "Completed"}
    /\ \A s, r \in SessionId :
         (s < r /\ session[r].state # "Absent") => session[s].state = "Succeeded"
    /\ \A s \in SessionId :
         session[s].state # "Absent" =>
           /\ session[s].office = IF s % 2 = 1 THEN "Engineering" ELSE "Quality"
           /\ session[s].state \in {"Prepared", "Running", "Succeeded"}

\* The report with the revisions it shows replaced by whether they hold.
ReportView ==
    CASE report.kind = "Candidate" ->
            [report EXCEPT !.row.rev = candidate[report.id].rev = @, !.row.ticket = 0]
      [] report.kind = "Ticket" ->
            [report EXCEPT
               !.row.rev = ticket[report.row.id].rev = @,
               !.attempts = {[r EXCEPT !.rev = attempt[r.id].rev = @] : r \in report.attempts}]
      [] report.kind = "Tickets" ->
            [report EXCEPT
               !.rows = {[r EXCEPT !.rev = ticket[r.id].rev = @] : r \in report.rows}]
      [] report.kind = "Campaign" ->
            [report EXCEPT
               !.rev = campaign[report.id].rev = @,
               !.head = <<@.action, @ # NoHead /\ attempt[@.attempt].rev = @.attemptRev,
                          @ # NoHead /\ candidate[@.candidate].rev = @.candidateRev,
                          @.attempt, @.candidate>>,
               !.oldest = <<@.id, @ # NoOldest /\ ticket[@.id].rev = @.rev>>]
      [] OTHER -> report

WithoutRevisions ==
    << [c \in CampaignId |-> <<campaign[c].state, campaign[c].cost>>],
       deadlineOpen,
       [t \in TicketId |-> ticket[t].state],
       [a \in AttemptId |-> [attempt[a] EXCEPT !.rev = 0]],
       [k \in CandidateId |-> [candidate[k] EXCEPT !.rev = 0]],
       session, ReportView >>
=============================================================================
