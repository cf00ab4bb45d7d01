CONSTANTS
    Tasks = {t1, t2, t3}
    Writers = {t1, t2, t3}
    Unlockers = {t1, t2, t3}
    Upgraders = {t1, t2, t3}
    CountSize = 4
    Executors = {e1, e2}
    HandlerLocks = {e1, e2}
    Wrap = 5
    MayPoison = TRUE
    None = None
    SchedTasks = {s1, s2, s3}
    RtTasks = {s1}
    Boot = s1
    Cleaner = s2
    Pinned = {s3}
SPECIFICATION SyncSpec
INVARIANTS
    WritersExclude TicketLockSound SingleLockSound
    OnePlace SchedulerSound 
PROPERTY InOrder
SYMMETRY Symmetry
