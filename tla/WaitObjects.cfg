SPECIFICATION Spec
CONSTANTS
    a = a
    b = b
    t0 = t0
    t1 = t1
    t2 = t2
    Objects = {a, b}
    Threads = {t0, t1, t2}
    MaxCount = 2
    Kinds <- MCKinds
SYMMETRY Symmetry
CHECK_DEADLOCK FALSE
INVARIANTS
    NoLostWakeup
PROPERTIES
    PassersOrdered
    VerifiesFailOnlyIf
