CONSTANTS
    t1 = t1  t2 = t2  t3 = t3  t4 = t4
    v1 = v1  v2 = v2
    Task <- MCTask
    Casts <- MCCasts
    Capacity = 2
    Value = {v1, v2}
    None = None
    Garbage = Garbage
SPECIFICATION Spec
INVARIANTS IInv NoIdlePopper
PROPERTIES ImplementsFifo ValuesMove
