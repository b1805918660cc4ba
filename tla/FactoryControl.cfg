\* One ticket from proposal to delivery, with a crash or an infrastructure error.
CONSTANTS
    MaxCampaigns = 1
    MaxTickets = 1
    MaxAttempts = 1
    MaxCandidates = 1
    MaxSessions = 5
    DeliveryTarget = 1
    ProposalMaximum = 1
    LowWater = 1
    ReadyTarget = 1
    ReadyMaximum = 0
    MaxProductAssignments = 3
    MaxCrashes = 1
    MaxErrors = 1
SPECIFICATION ControlSpec
VIEW ControlView
CONSTRAINT OneFault
CHECK_DEADLOCK FALSE
INVARIANTS SpendBound PaidSessionFunded
