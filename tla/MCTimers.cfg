CONSTANTS
    Nodes = {t1, t2, t3, t4, t5, t6, t7}
    Null = null
    MaxTime = 2
SPECIFICATION Spec
VIEW MCView
INVARIANTS EarliestFirst WellFormed
CHECK_DEADLOCK FALSE
