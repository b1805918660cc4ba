SPECIFICATION BackupSpec
CONSTANTS
    Workers = {w1}
    Digests = {"first", "second", "text"}
    MaxFaults = 0
    Builds = {1}
    Paths = {"p1"}
    Bundle <- MCBundle
    Families <- AllFamilies
    MaxCommands = 1
    MaxReceipts = 2
CONSTRAINT Focus
CHECK_DEADLOCK FALSE
INVARIANTS
    ReceiptsRegistered
