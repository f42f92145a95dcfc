CONSTANTS
    t1 = t1  t2 = t2  t3 = t3  t4 = t4  t5 = t5
    Task <- MCTask
    Placements <- AllPlacements
    mMaxCount = 2
    initialCount = 1
    Quota = 1
SPECIFICATION Spec
INVARIANTS IInv ConservedOnOneLoop NoLostAcquire
SYMMETRY MCSymmetry
CHECK_DEADLOCK FALSE
