\* createConnection: three polls to the deadline, and the floor of a late phase.
CONSTANTS
    ConnectTimeout = 3
    PollInterval = 2
    HttpFloor = 4
    WsFloor = 0
SPECIFICATION SetupSpec
INVARIANT TotalInTime
CHECK_DEADLOCK FALSE
