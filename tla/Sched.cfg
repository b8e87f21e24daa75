SPECIFICATION FairSpec
CONSTANTS
    Threads = {t0, t1, t2}
    DynamicThreads = {t2}
    MaxYield = 1
    Policies = {"context bound", "full search", "random"}
    ContextBound = 1
CHECK_DEADLOCK FALSE
INVARIANTS
    BlockAccounting
    ListsAreCurrent
    CurrentRuns
    DeadlockIsReal
    StallOnlyTimed
PROPERTY PreemptionsPaid
PROPERTY NoStarvation
