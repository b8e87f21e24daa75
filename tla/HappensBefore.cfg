SPECIFICATION HBSpec
CONSTANTS
    x = x
    y = y
    d = d
    m = m
    Threads = {t0, t1, t2}
    Atomics = {x, y}
    Vars = {d}
    SyncVars = {m}
    Values = {1}
    LoadOrders = {"relaxed", "acquire", "seq_cst"}
    StoreOrders = {"relaxed", "release", "seq_cst"}
    RmwOrders = {"relaxed", "seq_cst"}
    FenceOrders = {"acquire", "release", "seq_cst"}
    RandomSched = TRUE
    Cxx0xSequences = FALSE
    Profiles <- MCProfiles
SYMMETRY Symmetry
CHECK_DEADLOCK FALSE
INVARIANTS
    ClockIsHappensBefore
    RaceIffUnordered
    CoherentHistory
    SeqCstReads
