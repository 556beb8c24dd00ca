\* One request with up to two redirects and two idle connections of others, or one SSE
\* call to which the server can send three chunks.
CONSTANTS
    FollowRedirect = 2
    IdleBound = 2
    Chunks = 3
SPECIFICATION CallSpec
INVARIANTS
    TypeOK
    SlotReturned
    ExchangeIsClean
    BodyNotReplayed
    DeliveredOnce
    PooledAtBoundary
    OkIsComplete
PROPERTIES
    TimeoutIsReported
    
CHECK_DEADLOCK FALSE
