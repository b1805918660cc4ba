-------------------------- MODULE MCFactoryControl --------------------------
(***************************************************************************)
(* The control plane on small instances.  Revisions and the rows of        *)
(* finished sessions multiply the states, but the steps of the model depend*)
(* on them only through the questions the view asks: is a held revision    *)
(* still the current one, how many assignments did each target have, and is*)
(* a candidate's submitting session viable?  Revisions only grow, so a held*)
(* revision that is stale stays stale.                                     *)
(***************************************************************************)
EXTENDS FactoryControl

RevisionOf(field) ==
    CASE field = "campaign" /\ driver.campaign # 0 -> campaign[driver.campaign].rev
      [] field = "ticket" /\ driver.ticket # 0 -> ticket[driver.ticket].rev
      [] field = "ticket" /\ driver.ticket = 0 /\ driver.attempt # 0 ->
            TicketOf(driver.attempt).rev
      [] field = "attempt" /\ driver.attempt # 0 -> attempt[driver.attempt].rev
      [] field = "candidate" /\ driver.candidate # 0 -> candidate[driver.candidate].rev
      [] OTHER -> 0

FenceHolds == [field \in DOMAIN driver.fence |-> driver.fence[field] = RevisionOf(field)]

CancelView ==
    <<cancel.pc, cancel.campaign, cancel.session,
      cancel.pc = "wait" /\ campaign[cancel.campaign].rev = cancel.expected,
      cancel.pc = "finish" /\ cancel.reconciled = cancel.expected + 1,
      cancel.pc = "finish" /\ campaign[cancel.campaign].rev = cancel.reconciled>>

\* Finished assignments count only by their target.
Target(s) == <<session[s].office, session[s].campaign, session[s].attempt, session[s].candidate>>
Assigned == {s \in SessionId : session[s].state # "Absent"}
SessionsView ==
    << [p \in {Target(s) : s \in Assigned} |-> Cardinality({s \in Assigned : Target(s) = p})],
       {Target(s) : s \in {r \in SessionId : Running(r)}},
       IF driver.session = 0 THEN "None"
       ELSE IF session[driver.session].state \in SessionTerminal \ {"Succeeded"}
            THEN "Ended" ELSE session[driver.session].state >>

Submitter(k) ==
    IF candidate[k].engineeringSession = 0 THEN "None"
    ELSE IF candidate[k].engineeringSession = driver.session THEN "Attended"
    ELSE IF session[candidate[k].engineeringSession].state \in {"Running", "Succeeded"}
         THEN "Viable" ELSE "Ended"

Reviewer(k) ==
    candidate[k].qualitySession # 0 /\ candidate[k].qualitySession = driver.session

ControlView ==
    << [c \in CampaignId |-> <<campaign[c].state, campaign[c].cost>>],
       deadlineOpen,
       [t \in TicketId |-> ticket[t].state],
       [a \in AttemptId |-> [attempt[a] EXCEPT !.rev = 0]],
       [k \in CandidateId |-> [candidate[k] EXCEPT !.rev = 0,
                                                   !.engineeringSession = Submitter(k),
                                                   !.qualitySession = Reviewer(k)]],
       SessionsView,
       [driver EXCEPT !.fence = FenceHolds, !.session = 0],
       rpc, CancelView, faults >>

\* A crash or an infrastructure error, not both.
OneFault == faults.crashes + faults.errors <= 1

\* Nobody cancels, no deadline passes, every cost is known and within the
\* budget and every assignment gets its session, so that what ends a session is
\* its own failure or success.
Calm ==
    /\ UNCHANGED <<deadlineOpen, cancel>>
    /\ driver'.pc # "launchFailed"
    /\ \A c \in CampaignId :
         campaign[c].cost = "Known" /\ campaign[c].state \in {"Absent", "Running"}
    /\ \A s \in SessionId : session'[s].state \notin {"Cancelled", "Interrupted"}
=============================================================================
