\* One ticket under every order of commands, and two tickets claimed in a race
\* and delivered one after the other.
CONSTANTS
    MaxCampaigns = 1
    MaxTickets = 2
    MaxAttempts = 2
    MaxCandidates = 2
    MaxSessions = 4
    DeliveryTarget = 2
    ProposalMaximum = 2
SPECIFICATION Spec
VIEW WithoutRevisions
CONSTRAINT Focus
CHECK_DEADLOCK FALSE
INVARIANTS TypeOK DeliveryEvidence DownstreamHeadConsistent DeliveredOnce
           TargetAccounting OneTicketInFlight InFlightOwnership
PROPERTIES RevisionFence EvidenceImmutable ClosedTicketFinal ImplementsContract
