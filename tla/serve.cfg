\* Two requests on one connection, two chunks to a stream; two routes, a wildcard beside
\* the first segment of the other, and a cache of one entry, that change meanwhile.
CONSTANTS
    Segments <- Segs
    Routes <- SomeRoutes
    Queries <- SomeQueries
    Methods = {"GET", "HEAD"}
    Fallbacks = {FALSE}
    Capacity = 1
    NoNode = NoNode
    Requests <- SomeRequests
    SseRoutes <- SseAt
    SsePostRoutes <- PostAt
    WsRoutes <- PostAt
    EmptyHandlers <- Empties
    MaxRequests = 2
    MaxEvents = 2
SPECIFICATION ServeSpec
INVARIANTS
    ServeTypeOK
    HttpUntilCut
    OneAnswerEach
    CacheCoherent
PROPERTY RefusalIsTruthful
CHECK_DEADLOCK FALSE
