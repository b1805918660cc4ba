\* One ticket claimed twice: the first attempt is released and recovered again.
CONSTANTS
    MaxCampaigns = 1
    MaxTickets = 1
    MaxAttempts = 2
    MaxCandidates = 1
    MaxSessions = 7
    DeliveryTarget = 1
    ProposalMaximum = 1
    LowWater = 1
    ReadyTarget = 1
    ReadyMaximum = 1
    MaxProductAssignments = 3
    MaxCrashes = 0
    MaxErrors = 0
SPECIFICATION ControlSpec
VIEW ControlView
ACTION_CONSTRAINT Calm
CHECK_DEADLOCK FALSE
INVARIANT QualityRetriedOnce
