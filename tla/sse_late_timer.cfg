\* As in client: a timer handler that was queued when its operation completed.
CONSTANT Chunks = 3
SPECIFICATION Spec
INVARIANT NoStrayClose
CHECK_DEADLOCK FALSE
