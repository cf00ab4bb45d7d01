CONSTANTS
    Threads = {t1, t2}
    None = None
    ExitStatuses <- MCStatuses
    KillStatus <- MCKill
    MaxSpawns = 2
    MaxKills = 1
    MaxUnparks = 1
SPECIFICATION FairSpec
INVARIANTS HoldersCounted TeardownIsSafe StatusDelivered
 
CHECK_DEADLOCK FALSE
