------------------------- MODULE FactoryRefinement --------------------------
(***************************************************************************)
(* The SQL authority implements the delivery contract, under its most      *)
(* general client.  A campaign that was cancelled, failed or ran out of    *)
(* money is "Stopped"; a proposed or blocked ticket is "Idle"; the credit  *)
(* of a campaign is read off the delivered attempts.                       *)
(***************************************************************************)
EXTENDS FactoryAuthority

PhaseOf(state) ==
    CASE state \in {"Absent", "Proposed", "Blocked"} -> "Idle"
      [] state = "Sponsored" -> "Ready"
      [] state = "InFlight" -> "Working"
      [] state = "Delivered" -> "Delivered"
      [] state \in {"Resolved", "Rejected"} -> "Closed"

StatusOf(state) == IF state \in {"Failed", "Cancelled"} THEN "Stopped" ELSE state

Contract == INSTANCE DeliveryContract WITH
    Ticket   <- TicketId,
    Campaign <- CampaignId,
    Target   <- DeliveryTarget,
    phase    <- [t \in TicketId |-> PhaseOf(ticket[t].state)],
    status   <- [c \in CampaignId |-> StatusOf(campaign[c].state)],
    credit   <- [c \in CampaignId |-> {attempt[a].ticket : a \in DeliveredAttempts(c)}]

\* Every step of every store transaction is a step of the contract or invisible
\* to it: releases, retries, reworks, late settlements and campaign closures
\* never deliver a ticket twice, credit a closed campaign, reopen a closed
\* ticket or put two tickets in work.
ImplementsContract == Contract!ContractSpec
=============================================================================
