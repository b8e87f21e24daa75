SPECIFICATION Spec
CONSTANTS
    Threads = {t0, t1, t2}
    DynamicThreads = {}
    MaxYield = 1
    Policies = {"full search"}
    ContextBound = 0
CHECK_DEADLOCK FALSE
INVARIANT SomebodyRuns
