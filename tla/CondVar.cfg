SPECIFICATION MCSpec
CONSTANTS
    Threads = {t0, t1, t2}
    MaxDepth = 2
    SpuriousLimit = 1
SYMMETRY Symmetry
CHECK_DEADLOCK FALSE
INVARIANTS
    CvTypeOK
    NoMissedNotify
PROPERTIES
    ReturnsHolding
