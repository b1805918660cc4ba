\* No infrastructure fault; every session may still end in any way.
CONSTANTS
    MaxCampaigns = 1
    MaxTickets = 1
    MaxAttempts = 1
    MaxCandidates = 1
    MaxSessions = 4
    DeliveryTarget = 1
    ProposalMaximum = 1
    LowWater = 1
    ReadyTarget = 1
    ReadyMaximum = 0
    MaxProductAssignments = 3
    MaxCrashes = 0
    MaxErrors = 0
SPECIFICATION LiveSpec
VIEW ControlView
CHECK_DEADLOCK FALSE
PROPERTY AttemptSettles
