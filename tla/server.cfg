\* Two workers, or one executor; three clients at a server for two connections.
CONSTANTS
    Clients = 3
    Workers = 2
    MaxConnections = 2
    MaxRequests = 2
    AbortsReported = FALSE
SPECIFICATION Spec
INVARIANTS
    TypeOK
    Admission
    OneMoreAfterStop
PROPERTIES
    StopEndsStart
    ConnectionEnds
CHECK_DEADLOCK FALSE
