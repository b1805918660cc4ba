SPECIFICATION FairSessionSpec
CONSTANTS
    MaxLaunches = 2
    MaxRequests = 2
    MaxRetries = 1
    MaxFaults = 2
    Unit = 2
    Costs <- MCCosts
    Allowance = 2
    Unknown = Unknown
CONSTRAINT Focus
INVARIANTS
    TerminalAfterExit
    OneActingHost
    KnownCostCoversCharges
    ReportWithinRounding
PROPERTIES
    LaunchReturns
    CancellationHeard
    RecoveryEnds
CHECK_DEADLOCK FALSE
