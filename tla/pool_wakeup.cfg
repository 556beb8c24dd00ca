\* As in pool_two_contexts, both io_contexts single-threaded: a release on one hits
\* a Waiter of the other whose timer has not been started.
CONSTANTS
    t1 = t1
    t2 = t2
    t3 = t3
    t4 = t4
    c1 = c1
    c2 = c2
    Tasks = {t1, t2, t3}
    Contexts = {c1, c2}
    CtxOf <- TwoContexts
    MaxOf <- One
    MaxLimit = 1
    MultiThreaded = {}
    Destroyable = {}
    Requests <- ThirdTwice
    Endless = {}
    ClearBound = 0
SPECIFICATION Spec
INVARIANT NoLostWakeup
CHECK_DEADLOCK FALSE
