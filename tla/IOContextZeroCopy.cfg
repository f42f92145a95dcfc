CONSTANTS
    Co = {c1, c2, c3}
    Nobody = Nobody
    ZeroCopy = {c1}
    Entries = 2
    Width = 16
    MaxTime = 2
    Quota = 3
SPECIFICATION Spec
INVARIANT PendingIsUncompleted
