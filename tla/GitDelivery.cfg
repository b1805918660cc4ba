SPECIFICATION FairSpec
CONSTANTS
    Tickets = {t1}
    OperatorChanges = {o1}
    Diagnostics = {d1, d2}
    Discovery = d1
    MaxEdits = 1
    MaxFaults = 2
CHECK_DEADLOCK FALSE
INVARIANTS DeliveryOnBranch CandidateRefExact
PROPERTY DeliveryCompletes
