CONSTANTS
    Co = {a, b, c}
    Nobody = nobody
    Token = {none, t}
    NoToken = none
SPECIFICATION Spec
INVARIANT IInv
CHECK_DEADLOCK FALSE
