\* Reports of a campaign that delivers its ticket, through a rework.
CONSTANTS
    MaxCampaigns = 1
    MaxTickets = 1
    MaxAttempts = 1
    MaxCandidates = 2
    MaxSessions = 4
    DeliveryTarget = 1
    ProposalMaximum = 1
    RowLimit = 2
SPECIFICATION ReportSpec
VIEW WithoutRevisions
CONSTRAINT HealthyCampaign
CHECK_DEADLOCK FALSE
INVARIANTS ReportBacked ReportCurrent
