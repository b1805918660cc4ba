\* One ticket through rework and retries, five sessions.
CONSTANTS
    MaxCampaigns = 1
    MaxTickets = 1
    MaxAttempts = 1
    MaxCandidates = 2
    MaxSessions = 5
    DeliveryTarget = 1
    ProposalMaximum = 1
SPECIFICATION ActorSpec
VIEW ActorView
CONSTRAINT HealthyCampaign
CHECK_DEADLOCK FALSE
INVARIANTS TerminalBacked PacketReadable CheckpointFirst
