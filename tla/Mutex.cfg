SPECIFICATION FairSpec
CONSTANTS
    Threads = {t0, t1, t2}
    MaxDepth = 2
CHECK_DEADLOCK FALSE
INVARIANTS
    CountsAgree
    NoLostWakeup
    HoldersSafe
PROPERTIES
    ImplementsLock
    ReadersMakeWay
