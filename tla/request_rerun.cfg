\* As in client: a reset in the middle of a response is retried.
CONSTANTS
    FollowRedirect = 2
    IdleBound = 2
SPECIFICATION Spec
INVARIANT NotRunAgain
CHECK_DEADLOCK FALSE
