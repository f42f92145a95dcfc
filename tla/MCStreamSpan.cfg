CONSTANTS
    Text <- MCText
    Eols <- MCEols
    Size = 2
    PipeSize = 2
    MaxFailures = 1
SPECIFICATION Spec
INVARIANT SpanIsFilled
CHECK_DEADLOCK FALSE
