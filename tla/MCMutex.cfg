CONSTANT Task = {t1, t2, t3}
CONSTANT Caller = {t1, t2, t3}
SPECIFICATION MCSpec
INVARIANTS IInv MutualExclusion LockedIsOwned NoLostWakeup OnceInv OneInitialiser
PROPERTIES Progress ImplementsLock CallersMove
