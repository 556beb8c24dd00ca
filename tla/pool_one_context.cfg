\* Three requests on one single-threaded io_context, uniform limit 2: the
\* wake-ups alone (no fairness of the 30 s timer) get every request served.
CONSTANTS
    t1 = t1
    t2 = t2
    t3 = t3
    t4 = t4
    c1 = c1
    c2 = c2
    Tasks = {t1, t2, t3}
    Contexts = {c1}
    CtxOf <- OneContext
    MaxOf <- Two
    MaxLimit = 2
    MultiThreaded = {}
    Destroyable = {}
    Requests <- Two
    Endless = {t1}
    ClearBound = 1
SPECIFICATION NotifiedSpec
INVARIANTS
    NoLostWakeup
    WorkConserving
PROPERTIES
    ImplementsLimit
    ServedUnlessOvertaken
CHECK_DEADLOCK FALSE
