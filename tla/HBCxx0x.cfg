SPECIFICATION HBSpec
CONSTANTS
    x = x
    y = y
    d = d
    m = m
    Threads = {t0, t1}
    Atomics = {x, y}
    Vars = {d}
    SyncVars = {m}
    Values = {1}
    LoadOrders = {"relaxed", "acquire", "seq_cst"}
    StoreOrders = {"relaxed", "release", "seq_cst"}
    RmwOrders = {"relaxed", "seq_cst"}
    FenceOrders = {"acquire", "release", "seq_cst"}
    RandomSched = FALSE
    Cxx0xSequences = TRUE
    Profiles <- SequenceProfiles
SYMMETRY Symmetry
CHECK_DEADLOCK FALSE
INVARIANT RaceIffUnordered
