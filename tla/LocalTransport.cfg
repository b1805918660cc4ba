SPECIFICATION TransportSpec
CONSTANTS
    Daemons = {d1, d2}
    c1 = c1
    Clients = {c1, c2}
    MaxClears = 2
    MaxFaults = 2
    MaxRequests = 2
CONSTRAINT Focus
CHECK_DEADLOCK FALSE
INVARIANTS
    SingleServer
PROPERTIES
    SocketKept
    ShutdownHonoured
