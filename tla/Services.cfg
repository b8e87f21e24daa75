SPECIFICATION Spec
CONSTANTS
    Sizes = {s, l}
    DeferredCount = 3
    Handles = {h1, h2, h3}
    MaxBlocks = 4
    Depth = 3
    MaxLimit = 2
    Tests <- MCTests
    Threads = {t1, t2}
    Statics = {sv}
    Members = {mv}
    Keys = {k}
    Values = {1}
    Addresses = {a, b}
    MaxEntries = 4
    MaxContexts = 2
    Fibers = {f0, f1, f2}
    Static = {f0, f1}
    MaxLevel = 2
CHECK_DEADLOCK FALSE
INVARIANTS
    MemoryHasOnePlace
    SearchIsExhaustive
    FailureIsReplayed
    LocalsAreOwn
    LevelsAreOwn
    IterationsApart
