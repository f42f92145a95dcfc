CONSTANTS
    Text <- MCText
    Eols <- MCEols
    Size = 2
    PipeSize = 2
    MaxFailures = 1
SPECIFICATION Spec
INVARIANTS EndToEnd AtLeastOnce CallsAnswer
PROPERTIES ReadsEnd
CHECK_DEADLOCK FALSE
