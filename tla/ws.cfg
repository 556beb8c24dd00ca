\* A client that is connected or accepted: three calls of different kinds at once, a
\* message of two parts in, two out.  connectTimeout of three polls.
CONSTANTS
    Parts = 2
    MaxMessages = 1
    MaxSends = 2
    MaxCalls = 3
    ConnectTimeout = 3
    PollInterval = 2
    HttpFloor = 4
    WsFloor = 0
SPECIFICATION AnySpec
INVARIANTS
    TypeOK
    OverrunBounded
    NeedsEndpoints
    RecvWhole
    
    
PROPERTY AbandonedCallsReturn
CHECK_DEADLOCK FALSE
