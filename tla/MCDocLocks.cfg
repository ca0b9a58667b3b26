CONSTANTS
    Tasks = {t1, t2, t3}
    Keys = {k1, k2}
    Locks = {l1, l2, l3}
    NoTask = NoTask
    NoKey = NoKey
    NoLock = NoLock
SPECIFICATION Spec
INVARIANT IndInv
INVARIANT MutualExclusion
PROPERTY MapBounded
PROPERTY WaiterServed
PROPERTY ImplementsMutex
CHECK_DEADLOCK TRUE
