SPECIFICATION MCSpec
CONSTANTS
    Threads = {t0, t1}
    Atomics = {x}
    Vars = {d}
    SyncVars = {m}
    Values = {0, 1}
    LoadOrders = {"relaxed", "acquire"}
    StoreOrders = {"relaxed", "release", "seq_cst"}
    RmwOrders = {"acq_rel"}
    FenceOrders = {"acquire", "release", "acq_rel", "seq_cst"}
    RandomSched = TRUE
    MaxCalls = 4
SYMMETRY Symmetry
CHECK_DEADLOCK FALSE
INVARIANTS
    TypeOK
    KnowledgeBound
PROPERTY CoherentReads
