------------------------- MODULE MCFactoryAuthority -------------------------
(***************************************************************************)
(* The authority under its most general client, on a small instance.  That *)
(* client always passes the current revisions, so no guard depends on their*)
(* values and the view may leave them out: two states that differ only in  *)
(* revisions have the same steps.                                          *)
(***************************************************************************)
EXTENDS FactoryRefinement

\* Every guard that reads a deadline requires the campaign to be running too,
\* and a closed campaign stays closed.
DeadlineMatters(c) == campaign[c].state = "Running"

WithoutRevisions ==
    << [c \in CampaignId |-> <<campaign[c].state, campaign[c].cost>>],
       [c \in CampaignId |-> DeadlineMatters(c) => deadlineOpen[c]],
       [t \in TicketId |-> ticket[t].state],
       [a \in AttemptId |-> [attempt[a] EXCEPT !.rev = 0]],
       [k \in CandidateId |-> [candidate[k] EXCEPT !.rev = 0]],
       session >>

OfficesInTurn ==
    \A s \in SessionId :
      session[s].state # "Absent" =>
        session[s].office = IF s % 2 = 1 THEN "Engineering" ELSE "Quality"

\* Engineering and Quality sessions in turn, each successful.
SessionsInSequence ==
    /\ \A s, r \in SessionId :
         (s < r /\ session[r].state # "Absent") => session[s].state = "Succeeded"
    /\ OfficesInTurn

NoCandidateYet == \A k \in CandidateId : candidate[k].state = "Absent"

\* Two tickets are claimed, failed and released at once until work on one is
\* submitted, and delivered one after the other, in a healthy campaign with
\* successful sessions of Engineering and Quality that find nothing to reject.
TwoDeliveries ==
    /\ \A c \in CampaignId :
         /\ DeadlineMatters(c) => deadlineOpen[c]
         /\ campaign[c].cost = "Known"
         /\ campaign[c].state \in {"Absent", "Running", "Completed"}
    /\ \A t, u \in TicketId :
         (t < u /\ ticket[u].state # "Absent") =>
           ticket[t].state = "Delivered" \/ NoCandidateYet
    /\ SessionsInSequence
    /\ \A k \in CandidateId :
         /\ candidate[k].state # "Rejected" /\ candidate[k].review # "Reject"
         /\ candidate[k].quality # "NotPassed"

\* One ticket under every order of commands and every outcome, with two
\* attempts, one candidate and two sessions.
OneTicket ==
    /\ \A t \in TicketId : t > 1 => ticket[t].state = "Absent"
    /\ \A k \in CandidateId : k > 1 => candidate[k].state = "Absent"
    /\ \A s \in SessionId : s > 2 => session[s].state = "Absent"
    /\ OfficesInTurn

Focus == OneTicket \/ TwoDeliveries
=============================================================================
