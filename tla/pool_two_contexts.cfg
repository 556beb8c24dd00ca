\* Two tasks on a multi-threaded io_context and one on an io_context that may be
\* destroyed; limit 1, but 2 for one of them; two requests for t1.  With the 30 s timer
\* every lost or misdirected wake-up is made good.
CONSTANTS
    t1 = t1
    t2 = t2
    t3 = t3
    t4 = t4
    c1 = c1
    c2 = c2
    Tasks = {t1, t2, t3}
    Contexts = {c1, c2}
    CtxOf <- TwoContexts
    MaxOf <- Mixed
    MaxLimit = 2
    MultiThreaded = {c1}
    Destroyable = {c2}
    Requests <- FirstTwice
    Endless = {}
    ClearBound = 1
SPECIFICATION TimedSpec
INVARIANTS
    TypeOK
    SlotAccounting
    QueueConsistent
    PerContextBound
    NoDanglingIdle
PROPERTY RecoveredByTimer
CHECK_DEADLOCK FALSE
