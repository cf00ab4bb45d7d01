CONSTANTS
    Threads = {t1, t2, t3}
    None = None
    ExitStatuses <- MCStatuses
    KillStatus <- MCKill
    MaxSpawns = 1
    MaxKills = 1
    MaxUnparks = 1
SPECIFICATION Spec
INVARIANT CascadeIsTotal
CHECK_DEADLOCK FALSE
