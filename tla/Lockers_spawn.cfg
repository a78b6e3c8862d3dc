\* What the error says, after a thread that could not be spawned.
CONSTANTS
    t1 = t1
    t2 = t2
    l1 = l1
    l2 = l2
    l3 = l3
    NoOne = NoOne
    Thread <- TwoThreads
    Locker <- ThreeLockers
SPECIFICATION Spec
CHECK_DEADLOCK FALSE
PROPERTY RefusedOnlyIfOwned
