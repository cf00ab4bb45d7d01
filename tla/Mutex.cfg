CONSTANTS
    Tasks = {t1, t2, t3}
    None = None
SPECIFICATION FairSpec
INVARIANTS NoPanic NoLostWaiter
PROPERTIES IsFairLock LockReturns
