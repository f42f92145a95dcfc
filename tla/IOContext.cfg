CONSTANTS
    Co = {c1, c2}
    Nobody = Nobody
    ZeroCopy = {}
    Entries = 1
    Width = 16
    MaxTime = 2
    Quota = 3
SPECIFICATION Spec
INVARIANTS IInv PendingIsUncompleted NothingAbandoned ResumedOnce
PROPERTIES IoResumes SleepersWake LoopEnds
