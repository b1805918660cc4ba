-------------------------- MODULE DeliveryContract --------------------------
(***************************************************************************)
(* What the factory promises the Architect, without attempts, candidates,  *)
(* sessions or revisions: tickets are worked on one at a time and only when*)
(* approved, a delivered or closed ticket stays so, a delivery is credited *)
(* to one running campaign, and a campaign completes exactly when it has   *)
(* its target of deliveries.                                               *)
(***************************************************************************)
EXTENDS Naturals, FiniteSets

CONSTANTS Ticket, Campaign, Target

VARIABLES
    phase,   \* phase of each ticket
    status,  \* status of each campaign
    credit   \* tickets delivered in each campaign

contractVars == <<phase, status, credit>>

ContractInit ==
    /\ phase = [t \in Ticket |-> "Idle"]
    /\ status = [c \in Campaign |-> "Absent"]
    /\ credit = [c \in Campaign |-> {}]

Open(c) ==
    /\ status[c] = "Absent"
    /\ \A d \in Campaign : status[d] # "Running"
    /\ status' = [status EXCEPT ![c] = "Running"]
    /\ UNCHANGED <<phase, credit>>

Stop(c) ==
    /\ status[c] = "Running"
    /\ status' = [status EXCEPT ![c] = "Stopped"]
    /\ UNCHANGED <<phase, credit>>

Approve(t) ==
    /\ phase[t] = "Idle"
    /\ phase' = [phase EXCEPT ![t] = "Ready"]
    /\ UNCHANGED <<status, credit>>

\* Work starts in a running campaign, on one ticket at a time.
Take(t) ==
    /\ phase[t] = "Ready"
    /\ \E c \in Campaign : status[c] = "Running"
    /\ \A u \in Ticket : phase[u] # "Working"
    /\ phase' = [phase EXCEPT ![t] = "Working"]
    /\ UNCHANGED <<status, credit>>

\* Work is given up, or the ticket no longer matches the repository.
Return(t, to) ==
    /\ phase[t] \in {"Ready", "Working"}
    /\ phase' = [phase EXCEPT ![t] = to]
    /\ UNCHANGED <<status, credit>>

Deliver(t, c) ==
    /\ phase[t] = "Working"
    /\ status[c] = "Running"
    /\ phase' = [phase EXCEPT ![t] = "Delivered"]
    /\ credit' = [credit EXCEPT ![c] = @ \cup {t}]
    /\ status' = IF Cardinality(credit'[c]) >= Target
                 THEN [status EXCEPT ![c] = "Completed"] ELSE status

ContractNext ==
    \/ \E c \in Campaign : Open(c) \/ Stop(c)
    \/ \E t \in Ticket :
         \/ Approve(t)
         \/ Take(t)
         \/ \E to \in {"Idle", "Ready", "Closed"} : Return(t, to)
         \/ \E c \in Campaign : Deliver(t, c)

ContractSpec == ContractInit /\ [][ContractNext]_contractVars
=============================================================================
