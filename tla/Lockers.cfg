\* Constructors, destructors and lock threads. A thread that drops a handle while it holds the std lock itself may stop for ever.
CONSTANTS
    t1 = t1
    t2 = t2
    l1 = l1
    l2 = l2
    l3 = l3
    NoOne = NoOne
    Thread <- TwoThreads
    Locker <- ThreeLockers
SPECIFICATION Spec
CHECK_DEADLOCK FALSE
INVARIANT TypeOK
INVARIANT OneLocker
PROPERTY HeldUntilDropped
PROPERTY RefusedOnlyIfOwnedOrLost
PROPERTY CallsReturn
