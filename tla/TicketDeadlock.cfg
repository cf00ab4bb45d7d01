CONSTANTS
    Executors = {e1}
    HandlerLocks = {e1}
    Wrap = 3
    MayPoison = FALSE
    None = None
SPECIFICATION TicketFairSpec
PROPERTY LockReturns
CHECK_DEADLOCK FALSE
