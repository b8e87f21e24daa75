SPECIFICATION MCSpec
CONSTANTS
    Threads <- MCThreads
    Atomics = {"x", "y", "z"}
    Vars = {"d", "e"}
    SyncVars = {"m", "futex"}
    Values <- MCValues
    LoadOrders = {"relaxed"}
    StoreOrders = {"relaxed"}
    RmwOrders = {"relaxed"}
    FenceOrders = {"acquire"}
    RandomSched = TRUE
    Registers = {"r", "r1", "r2", "r3"}
    Programs <- MCPrograms
    MaxClock = 22
    Callers = {0, 1, 2, 3, 4}
    Nodes = {1, 2, 3, 4}
    Wild = 9
    TestThreads = 3
CHECK_DEADLOCK FALSE
INVARIANTS
    RacesAsDocumented
    OutcomesAllowed
    NoMissedWake
    StackIsIntact
    EachItemOnce
    PostsAreAccounted
    NobodySleepsForEver
PROPERTIES
    WakesAsMany
    PopsFindItems
