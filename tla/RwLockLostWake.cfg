CONSTANTS
    Tasks = {t1, t2}
    Writers = {t1}
    Unlockers = {t1, t2}
    Upgraders = {}
    CountSize = 4
    None = None
SPECIFICATION FairSpec
PROPERTY WriterReturns
CHECK_DEADLOCK FALSE
