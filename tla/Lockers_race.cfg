\* What the documentation says of the lock of a live handle.
CONSTANTS
    t1 = t1
    t2 = t2
    l1 = l1
    l2 = l2
    l3 = l3
    NoOne = NoOne
    Thread <- TwoThreads
    Locker <- ThreeLockers
SPECIFICATION Spec
CHECK_DEADLOCK FALSE
INVARIANT LiveMeansLocked
