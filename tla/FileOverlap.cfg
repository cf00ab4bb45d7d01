CONSTANTS
    Callers = {t1}
    None = None
    Names = {"a", "b"}
    MAX_ENTRIES = 2
    DATA_START_SECTOR = 2
    DATA_END_SECTOR = 8
    SectorSize = 2
    max_descriptors = 4
    StdFds = {0, 1}
    Lengths = {3}
    MaxOpens = 2
    MaxSize = 3
SPECIFICATION FdSpec
INVARIANT FilesDisjoint
