SPECIFICATION Spec
CONSTANTS
    a = a
    b = b
    t0 = t0
    t1 = t1
    t2 = t2
    t3 = t3
    Objects = {a, b}
    Threads = {t0, t1, t2, t3}
    MaxCount = 1
    Kinds <- EventAndMutex
SYMMETRY Symmetry
CHECK_DEADLOCK FALSE
INVARIANT
    SignaledHasNoWaiter
