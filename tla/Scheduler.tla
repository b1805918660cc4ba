----------------------------- MODULE Scheduler ------------------------------
(***************************************************************************)
(* TicketScheduler::decide of scheduler.rs: the pure decision the campaign *)
(* driver makes from one TicketBufferStatus.  The order of the alternatives*)
(* is the order of the early returns in the code.                          *)
(***************************************************************************)
EXTENDS Naturals

\* A status has the fields that decide reads.  "None" stands for an absent
\* downstream action, and maximum = 0 for an application without one.
Decide(status) ==
    IF ~status.running THEN "Blocked"
    ELSE IF status.delivered >= status.deliveryTarget THEN "CompleteCampaign"
    ELSE IF ~status.costKnown THEN "Blocked"
    ELSE IF status.paidSessionActive THEN "Blocked"
    ELSE IF ~status.deadlineOpen THEN
        IF status.downstreamCount > 0 /\ status.downstreamAction = "DeliverAccepted"
        THEN "ContinueDownstream" ELSE "Blocked"
    ELSE IF status.downstreamCount = 0 /\ status.downstreamAction # "None" THEN "Blocked"
    ELSE IF status.downstreamCount > 0 /\ status.downstreamAction = "None" THEN "Blocked"
    ELSE IF status.downstreamAction # "None" THEN "ContinueDownstream"
    ELSE IF status.inFlight >= status.inFlightMaximum THEN "Blocked"
    ELSE IF status.maximum # 0 /\ status.ready > status.maximum THEN "Blocked"
    ELSE IF status.proposed > status.proposalMaximum THEN "Blocked"
    ELSE IF (status.ready = 0) = status.oldestSponsored THEN "Blocked"
    ELSE IF status.oldestSponsored THEN "ClaimReadyTicket"
    ELSE IF status.ready < status.lowWater /\ status.proposed = 0 THEN "ReplenishProduct"
    ELSE IF status.proposed > 0 THEN "AwaitArchitectDecision"
    ELSE IF status.ready < status.target THEN "ReplenishProduct"
    ELSE "Idle"
=============================================================================
