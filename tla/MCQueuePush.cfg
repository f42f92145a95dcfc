CONSTANTS
    t1 = t1  t2 = t2  t3 = t3  t4 = t4
    v1 = v1  v2 = v2
    Task <- MCPair
    Casts <- MCPairCasts
    Capacity = 1
    Value = {v1}
    None = None
    Garbage = Garbage
SPECIFICATION Spec
PROPERTY SlotsMove
