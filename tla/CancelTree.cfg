CONSTANTS
    Source = {s, t}
    Callback = {a, b}
    NoSource = none
SPECIFICATION Spec
INVARIANTS IInv AllTold
CHECK_DEADLOCK FALSE
