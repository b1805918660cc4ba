SPECIFICATION BackupSpec
CONSTANTS
    Workers = {w1, w2}
    Digests = {"first", "second", "text"}
    MaxFaults = 2
    Builds = {1}
    Paths = {"p1"}
    Bundle <- MCBundle
    Families <- MCFamilies
    MaxCommands = 5
    MaxReceipts = 7
CONSTRAINT Focus
SYMMETRY Symmetry
INVARIANTS
    PublishedWhole
    ReplayAgrees
    RunningCampaignPinsActive
    QualifiedPairIsSource
PROPERTIES
    SealLostOnlyWithTree
CHECK_DEADLOCK FALSE
