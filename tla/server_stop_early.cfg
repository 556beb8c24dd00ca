\* One worker, and stop() at any moment of start().
CONSTANTS
    Clients = 1
    Workers = 1
    MaxConnections = 1
    MaxRequests = 1
    AbortsReported = FALSE
SPECIFICATION Spec
PROPERTY StopAlwaysEndsStart
CHECK_DEADLOCK FALSE
