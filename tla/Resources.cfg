CONSTANTS
    ta = ta
    tb = tb
    Processes = {1, 2}
    Threads = {ta, tb}
    ProcessOf <- ProcessOfThread
    Objects = {o1}
    Rights = {"grant", "revoke"}
    None = None
    SlotCount = 2
    MessageCaps = 2
    MaxGeneration = 2
    Calls = {"create", "clone", "use", "copy", "move", "transfer", "delete", "revoke", "exit"}
    fa = fa
    fb = fb
    fk = fk
    fp = fp
    LastExecutor = 2
    Kernel = Kernel
    IdleTask = fi
    Requesters = {fa, fb, fk}
    Disabled = {fb, fk}
    ContextOf <- FlushContext
    TargetOf <- FlushTarget
    CacheThreads = {c1, c2}
    Slabs = {b1, b2}
    items_per_slab = 2
    MaxMany = 3
    Callers = {d1, d2}
    max_descriptors = 2
    StdFds = {0}
    Lengths = {1}
    MaxOpens = 2
    MaxSize = 1
    Names = {"a"}
    MAX_ENTRIES = 2
    DATA_START_SECTOR = 2
    DATA_END_SECTOR = 6
    SectorSize = 1
    oa = oa
    ob = ob
    p1 = p1
    p2 = p2
    q1 = q1
    q2 = q2
SPECIFICATION ResourcesSpec
INVARIANTS
    TablesExact NoLockCycle RevocationIsFinal
    NoStaleTranslation RequestsServed
    ItemsConserved CacheDoesNotFail
    ClosedOnce  UnreadInOrder
    KeysAndFrame  FilesReadBack 
PROPERTIES NoAmplification StaleCommitDropped
